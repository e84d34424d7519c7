---------------------------- MODULE Preparation ----------------------------
(***************************************************************************)
(* Preparation plans and attempts (src/src/runtime.cpp, "Preparation") on   *)
(* top of Residency: a plan is drawn up for the current incarnation, an     *)
(* attempt carries it out step by step, and completing the attempt publishes *)
(* the incarnation as ready, unless the attempt was cancelled or its epoch  *)
(* has passed.  As in Residency every operation is atomic and any caller    *)
(* may call any of them at any time, for any plan or attempt it knows.      *)
(***************************************************************************)
EXTENDS Residency

CONSTANTS MaxPending,    \* max_pending_preparation_attempts, of plans and of attempts
          MaxAttempts    \* bound on attempts, which the code never forgets

ASSUME PreparationAssumption ==
  MaxPending \in Nat /\ MaxAttempts \in Nat /\ IsFiniteSet(Category)

VARIABLES
  plans,            \* plan id -> plan
  attempts,         \* attempt id -> attempt
  active_attempt    \* incarnation id -> the attempt in progress, if one is

prepVars == <<plans, attempts, active_attempt>>

Plan == [incarnation : Nat, epoch : Nat, steps : Nat]

Attempt == [plan : Nat, incarnation : Nat, epoch : Nat, next_step : Nat,
            state : {"PLANNED", "PREPARING", "PREPARED", "FAILED"},
            cancelled : BOOLEAN, published_ready : BOOLEAN]

\* Plans and attempts are of incarnations that exist.
RecordsType ==
  /\ IsFiniteSet(DOMAIN plans) /\ DOMAIN plans \subseteq Nat
  /\ plans \in [DOMAIN plans -> Plan]
  /\ attempts \in [DOMAIN attempts -> Attempt]
  /\ \A p \in DOMAIN plans : plans[p].incarnation \in DOMAIN incarnations
  /\ \A a \in DOMAIN attempts : attempts[a].incarnation \in DOMAIN incarnations

\* The shape of the state; no attempt is past the last step of its plan.
PreparationTypeOK ==
  /\ RecordsType
  /\ \A a \in DOMAIN attempts :
       /\ attempts[a].plan \in DOMAIN plans
       /\ attempts[a].next_step <= plans[attempts[a].plan].steps
  /\ \A i \in DOMAIN active_attempt :
       i \in DOMAIN incarnations /\ active_attempt[i] \in DOMAIN attempts

PrepInit == Init /\ plans = NoMap /\ attempts = NoMap /\ active_attempt = NoMap

\* Erase the entry of i, if there is one.
Erase(f, i) == [x \in DOMAIN f \ {i} |-> f[x]]

-----------------------------------------------------------------------------
\* One step for each missing component, or a warmup when nothing is missing.
\* What is not verified may also be stale or incompatible, not missing.
CreatePreparationPlan(i) ==
  /\ incarnations[i].is_current
  /\ Cardinality(DOMAIN plans) < MaxPending
  /\ \E n \in 1 .. Cardinality(Required \ verified[i]) \cup {1} :
       plans' = Put(plans, Cardinality(DOMAIN plans) + 1,
                    [incarnation |-> i, epoch |-> authority.epoch, steps |-> n])
  /\ UNCHANGED <<vars, attempts, active_attempt>>

\* The plan is of this epoch and its incarnation still current.
PlanCurrent(plan) ==
  plan.epoch = authority.epoch /\ incarnations[plan.incarnation].is_current

BeginPreparation(p) ==
  LET plan == plans[p]
      id   == Cardinality(DOMAIN attempts) + 1
  IN
  /\ id <= MaxAttempts
  /\ PlanCurrent(plan)
  /\ plan.incarnation \notin DOMAIN active_attempt
  /\ Cardinality(DOMAIN active_attempt) < MaxPending
  /\ attempts' = Put(attempts, id,
       [plan |-> p, incarnation |-> plan.incarnation, epoch |-> authority.epoch,
        next_step |-> 0, state |-> "PLANNED", cancelled |-> FALSE,
        published_ready |-> FALSE])
  /\ active_attempt' = Put(active_attempt, plan.incarnation, id)
  /\ UNCHANGED <<vars, plans>>

\* Wrong variant: the end of the plan is not looked at.
Wrong_NextStep(a) == attempts[a].next_step + 1

\* A step beyond the last changes nothing but the state.
NextStep(a) ==
  IF attempts[a].next_step < plans[attempts[a].plan].steps
  THEN attempts[a].next_step + 1 ELSE attempts[a].next_step

StepPreparation(a) ==
  LET steps == plans[attempts[a].plan].steps
      next  == NextStep(a)
  IN
  /\ ~attempts[a].cancelled
  /\ attempts[a].epoch = authority.epoch
  /\ attempts' = [attempts EXCEPT ![a] =
       [@ EXCEPT !.next_step = next,
                 !.state = IF next >= steps THEN "PREPARING" ELSE attempts[a].state]]
  /\ UNCHANGED <<vars, plans, active_attempt>>

\* Wrong variant: a cancelled attempt may complete.
Wrong_MayComplete(a) ==
  /\ attempts[a].epoch = authority.epoch
  /\ incarnations[attempts[a].incarnation].is_current

\* Wrong variant: an attempt of an earlier epoch may complete.
Wrong_CompleteLate(a) ==
  ~attempts[a].cancelled /\ incarnations[attempts[a].incarnation].is_current

MayComplete(a) ==
  /\ ~attempts[a].cancelled
  /\ attempts[a].epoch = authority.epoch
  /\ incarnations[attempts[a].incarnation].is_current

\* Neither the steps done nor the state of the attempt is looked at.  Whatever
\* attempt of the incarnation is active stops being so.
CompletePreparation(a) ==
  LET i == attempts[a].incarnation IN
  /\ MayComplete(a)
  /\ \/ /\ PublishReady(i)
        /\ attempts' = [attempts EXCEPT ![a] =
             [@ EXCEPT !.state = "PREPARED", !.published_ready = TRUE]]
     \/ /\ ~Ready(i)
        /\ attempts' = [attempts EXCEPT ![a] = [@ EXCEPT !.state = "FAILED"]]
        /\ UNCHANGED vars
  /\ active_attempt' = Erase(active_attempt, i)
  /\ UNCHANGED plans

\* Wrong variant: the cancelled attempt stays the active one.
Wrong_ActiveAfterCancel(a) == active_attempt

ActiveAfterCancel(a) == Erase(active_attempt, attempts[a].incarnation)

CancelPreparation(a) ==
  /\ ~attempts[a].published_ready
  /\ attempts' = [attempts EXCEPT ![a] =
       [@ EXCEPT !.cancelled = TRUE, !.state = "FAILED"]]
  /\ active_attempt' = ActiveAfterCancel(a)
  /\ UNCHANGED <<vars, plans>>

RollbackPreparation(a) ==
  /\ attempts' = [attempts EXCEPT ![a] = [@ EXCEPT !.state = "FAILED"]]
  /\ active_attempt' = Erase(active_attempt, attempts[a].incarnation)
  /\ UNCHANGED <<vars, plans>>

-----------------------------------------------------------------------------
PrepNext ==
  \/ Operations /\ UNCHANGED prepVars
  \/ \E i \in DOMAIN incarnations : CreatePreparationPlan(i)
  \/ \E p \in DOMAIN plans : BeginPreparation(p)
  \/ \E a \in DOMAIN attempts :
       \/ StepPreparation(a) \/ CompletePreparation(a)
       \/ CancelPreparation(a) \/ RollbackPreparation(a)

PrepSpec == PrepInit /\ [][PrepNext]_<<vars, prepVars>>

-----------------------------------------------------------------------------
(* What must hold *)

\* README: "a cancelled attempt cannot leave phantom READY state".  No attempt
\* is both cancelled and published, in whatever order cancellation, rollback
\* and repeated completions reach it.
NoPhantomReady ==
  \A a \in DOMAIN attempts : ~(attempts[a].cancelled /\ attempts[a].published_ready)

\* A plan ends with the epoch it was drawn up under: from the step that advances
\* the epoch on, no attempt at it is begun, does another step or publishes, not
\* even for an incarnation that was still STARTING, which advance_epoch leaves
\* current.  begin, step and complete each look at the epoch on their own.
PlansEndWithTheirEpoch ==
  [][\A a \in DOMAIN attempts' :
       plans'[attempts'[a].plan].epoch # authority.epoch =>
         /\ a \in DOMAIN attempts
         /\ attempts'[a].next_step = attempts[a].next_step
         /\ attempts'[a].published_ready = attempts[a].published_ready]_<<vars, prepVars>>

\* The attempt that bars others from its incarnation is really in progress: it
\* is of that incarnation, and was neither published nor cancelled.
ActiveAttemptsAreOpen ==
  \A i \in DOMAIN active_attempt :
    LET a == attempts[active_attempt[i]] IN
    a.incarnation = i /\ ~a.published_ready /\ ~a.cancelled
=============================================================================
