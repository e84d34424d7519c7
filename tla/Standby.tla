------------------------------ MODULE Standby ------------------------------
(***************************************************************************)
(* The standby pool of an engine (reconcile_standby in src/src/runtime.cpp   *)
(* and src/src/standby/standby.cpp) on top of Residency.  Reconciling reads  *)
(* the runtime and changes nothing, so it is an operator over its state, and *)
(* every reachable state is one it may be asked in.                          *)
(***************************************************************************)
EXTENDS Residency, Sequences, TLC

\* Neither dead nor fenced.
Alive(i) ==
  incarnations[i].health \notin {"LOST", "FENCED"} /\ ~Dead(incarnations[i])

PoolOf(e) == {i \in DOMAIN incarnations : incarnations[i].engine = e /\ Alive(i)}

Serving(e) == {i \in PoolOf(e) : incarnations[i].activation = "ACTIVE"}

\* Wrong variant: an incarnation that has left RUNNING still counts.
Wrong_Eligible(e) ==
  {i \in PoolOf(e) : incarnations[i].activation # "ACTIVE" /\ Ready(i)}

\* Warm, running and not active.  Neither the currency of the incarnation, nor
\* its recovery, nor the fence of its admission is looked at.
Eligible(e) ==
  {i \in PoolOf(e) :
     /\ incarnations[i].lifecycle = "RUNNING" /\ incarnations[i].activation # "ACTIVE"
     /\ Ready(i)}

\* Reported as blockers: the dead, the fenced, and those that are neither active
\* nor warm.  One that is warm and not RUNNING is neither eligible nor reported.
Blocked(e) ==
  {i \in DOMAIN incarnations :
     /\ incarnations[i].engine = e
     /\ Alive(i) => incarnations[i].activation # "ACTIVE" /\ ~Ready(i)}

Smaller(a, b) == IF a < b THEN a ELSE b

\* The deficit is repeated among the blockers at most this often.
MaxDeficitNotices == 8

\* The accounting, when the unordered tables of incarnations and of slots list
\* their entries in the orders `table` and `order`.  The eligible are sorted by
\* identity.  With slots, one candidate is named per slot and no more are counted;
\* the slots are those of all engines, held or not.  Without slots all are counted
\* and none is named.
Reconcile(e, target, table, order) ==
  LET ordered  == SortSeq(SelectSeq(table, LAMBDA i : i \in Eligible(e)),
                          LAMBDA i, j : i < j)
      named    == Smaller(Len(order), Len(ordered))
      eligible == IF order = <<>> THEN Len(ordered) ELSE named
      deficit  == IF target > eligible THEN target - eligible ELSE 0
  IN [candidates      |-> SubSeq(ordered, 1, named),
      deferred_slots  |-> SubSeq(order, named + 1, Len(order)),
      blockers        |-> SelectSeq(table, LAMBDA i : i \in Blocked(e)),
      deficit_notices |-> Smaller(deficit, MaxDeficitNotices),
      eligible        |-> eligible,
      deficit         |-> deficit,
      active          |-> Cardinality(Serving(e))]

\* The orders in which an unordered table with these keys may be iterated.
Iterations(S) ==
  {t \in [1 .. Cardinality(S) -> S] : \A j, k \in DOMAIN t : t[j] = t[k] => j = k}

-----------------------------------------------------------------------------
(* What must hold *)

\* A cutover with i on either side is committed in this step.
CutOver(i) ==
  \E r \in DOMAIN replacement_plans :
    /\ replacement_plans[r].phase = "PREPARING" /\ replacement_plans'[r].phase = "CUTOVER"
    /\ i \in {replacement_plans[r].old, replacement_plans[r].candidate}

\* Standby capacity does not come from nowhere.  An incarnation that was not
\* counted is counted after a step only because in that step it published
\* evidence, or was started, revalidated or marked running again, or because a
\* cutover took the active role from it.  In particular no registration, drain,
\* fence, retirement, release, invalidation, configuration or epoch ever adds to
\* the pool, although each of them takes an incarnation out of the active role, the
\* slot or the tables that it was kept in.
StandbyIsEarned ==
  [][\A e \in Engine : \A i \in Eligible(e)' \ Eligible(e) :
       /\ i \in DOMAIN incarnations
       /\ \/ verified'[i] \ verified[i] # {}
          \/ incarnations[i].lifecycle # "RUNNING" \/ ~Alive(i)
          \/ CutOver(i)]_vars
=============================================================================
