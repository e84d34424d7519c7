--------------------------- MODULE StandbyProofs ---------------------------
(***************************************************************************)
(* The standby pool (Standby) for any number of incarnations and any         *)
(* sequence of operations: what brings an incarnation into it.               *)
(***************************************************************************)
EXTENDS Standby, ServingProofs

\* What a step may do to an incarnation in the active role: keep it there, or
\* leave it in a state in which it is not RUNNING.
KeepsRole(old, new) ==
  /\ new.engine = old.engine
  /\ old.activation = "ACTIVE" /\ new.lifecycle = "RUNNING" => new.activation = "ACTIVE"

LEMMA RoleStays == ASSUME NEW inc \in Incarnation PROVE KeepsRole(inc, inc)
BY DEF KeepsRole, Incarnation

\* The records that the operations write in place of an incarnation, except for
\* those of a cutover.
LEMMA RoleUpdates ==
  ASSUME NEW inc \in Incarnation, NEW n
  PROVE  /\ KeepsRole(inc, [inc EXCEPT !.lifecycle = "RUNNING", !.health = "HEALTHY"])
         /\ KeepsRole(inc, [inc EXCEPT !.recovery = "REVALIDATING", !.is_current = FALSE])
         /\ KeepsRole(inc, [inc EXCEPT !.activation = "ACTIVE", !.is_current = TRUE])
         /\ KeepsRole(inc, [inc EXCEPT !.lifecycle = "DRAINING", !.activation = "DRAINING"])
         /\ KeepsRole(inc, [inc EXCEPT !.lifecycle = "RETIRED", !.health = "LOST",
                                  !.is_current = FALSE])
         /\ KeepsRole(inc, [inc EXCEPT !.health = "FENCED", !.lifecycle = "LOST",
                                  !.activation = "FENCED", !.registration = "FENCED",
                                  !.is_current = FALSE])
         /\ KeepsRole(inc, [inc EXCEPT !.readiness_generation = n])
         /\ KeepsRole(inc, [inc EXCEPT !.recovery = "NOMINAL", !.is_current = TRUE,
                                  !.lifecycle = "RUNNING", !.readiness_generation = n])
BY DEF KeepsRole, Incarnation

\* No step but a cutover takes the active role from an incarnation that is
\* RUNNING afterwards.
LEMMA RoleHeld ==
  ASSUME TypeOK, [Next]_vars, NEW i \in DOMAIN incarnations, ~CutOver(i)
  PROVE  KeepsRole(incarnations[i], incarnations'[i])
<1> DEFINE Good == KeepsRole(incarnations[i], incarnations'[i])
<1>0. incarnations \in [DOMAIN incarnations -> Incarnation] /\ incarnations[i] \in Incarnation
  BY DEF TypeOK, IncarnationsType
<1>1. ASSUME NEW j \in DOMAIN incarnations, NEW inc,
             incarnations' = [incarnations EXCEPT ![j] = inc],
             KeepsRole(incarnations[j], inc)
      PROVE  Good
  BY <1>0, <1>1, RoleStays
<1>2. ASSUME NEW w \in Worker, NEW b \in Boot, FenceWorker(w, b) PROVE Good
  BY <1>0, <1>2, RoleStays, RoleUpdates DEF FenceWorker
<1>3. ASSUME NEW p \in DOMAIN permits, NEW e \in Engine, RegisterIncarnation(p, e) PROVE Good
  <2>1. incarnations'[i] = incarnations[i]
    BY <1>3, RegisterNew
  <2> QED BY <1>0, <2>1, RoleStays
<1>4. ASSUME AdvanceEpoch PROVE Good
  BY <1>0, <1>4, RoleStays, RoleUpdates DEF AdvanceEpoch
<1>5. ASSUME NEW e \in Engine, NEW g \in 1 .. MaxConfigGeneration, UpdateEngineConfig(e, g)
      PROVE  Good
  BY <1>0, <1>5, RoleStays, RoleUpdates DEF UpdateEngineConfig
<1>6. ASSUME NEW j \in DOMAIN incarnations,
             \/ MarkRunning(j) \/ Revalidate(j) \/ InvalidateComponents(j)
             \/ PublishReady(j) \/ RequestDrain(j)
      PROVE  Good
  <2>1. incarnations[j] \in Incarnation
    BY <1>0
  <2>2. \E inc : /\ incarnations' = [incarnations EXCEPT ![j] = inc]
                 /\ KeepsRole(incarnations[j], inc)
    BY <1>6, <2>1, RoleUpdates
       DEF MarkRunning, Revalidate, InvalidateComponents, PublishReady, RequestDrain
  <2> HIDE DEF Good
  <2> QED BY <1>1, <2>2
<1>7. ASSUME NEW j \in DOMAIN incarnations, NEW c \in Category, PublishComponent(j, c)
      PROVE  Good
  BY <1>0, <1>1, <1>7, RoleStays, RoleUpdates DEF PublishComponent
<1>8. ASSUME NEW j \in DOMAIN incarnations, NEW g, NEW s, NEW profiled,
             Activate(j, g, s, profiled)
      PROVE  Good
  BY <1>0, <1>1, <1>8, RoleUpdates DEF Activate
<1>9. ASSUME NEW r \in DOMAIN replacement_plans, CommitCutover(r) PROVE Good
  <2>1. i \notin {replacement_plans[r].old, replacement_plans[r].candidate}
    <3>1. replacement_plans[r].phase = "PREPARING" /\ replacement_plans'[r].phase = "CUTOVER"
      BY <1>9 DEF CommitCutover, TypeOK, ReplacementsType, ReplacementPlan
    <3> QED BY <3>1 DEF CutOver
  <2>2. incarnations'[i] = incarnations[i]
    BY <1>9, <2>1 DEF CommitCutover
  <2> QED BY <1>0, <2>2, RoleStays
<1>10. ASSUME NEW r \in DOMAIN replacement_plans, RetireOld(r) PROVE Good
  <2>1. replacement_plans[r].old \in DOMAIN incarnations
    BY DEF TypeOK, ReplacementsType
  <2> QED BY <1>0, <1>1, <1>10, <2>1, RoleUpdates DEF RetireOld
<1>11. ASSUME UNCHANGED incarnations PROVE Good
  BY <1>0, <1>11, RoleStays
<1> HIDE DEF Good
<1>12. \/ UNCHANGED incarnations
       \/ \E w \in Worker, b \in Boot : FenceWorker(w, b)
       \/ \E p \in DOMAIN permits, e \in Engine : RegisterIncarnation(p, e)
       \/ AdvanceEpoch
       \/ \E e \in Engine, g \in 1 .. MaxConfigGeneration : UpdateEngineConfig(e, g)
       \/ \E j \in DOMAIN incarnations :
            \/ MarkRunning(j) \/ Revalidate(j) \/ InvalidateComponents(j)
            \/ PublishReady(j) \/ RequestDrain(j)
       \/ \E j \in DOMAIN incarnations, c \in Category : PublishComponent(j, c)
       \/ \E j \in DOMAIN incarnations, g \in 1 .. MaxReadinessGeneration,
            s \in Slot \cup {NoSlot}, profiled \in BOOLEAN : Activate(j, g, s, profiled)
       \/ \E r \in DOMAIN replacement_plans : CommitCutover(r) \/ RetireOld(r)
  BY DEF Next, Operations, vars, IssueRegistrationPermit, EvidenceExpires,
         AcquireServingUse, AcknowledgeBackendCleanup, BeginReplacement, ReleaseServingUse
<1>13. Good
  <2>1. CASE \E j \in DOMAIN incarnations, g \in 1 .. MaxReadinessGeneration,
               s \in Slot \cup {NoSlot}, profiled \in BOOLEAN : Activate(j, g, s, profiled)
    BY <2>1, <1>8
  <2>2. CASE \E e \in Engine, g \in 1 .. MaxConfigGeneration : UpdateEngineConfig(e, g)
    BY <2>2, <1>5
  <2>3. CASE \E j \in DOMAIN incarnations :
               \/ MarkRunning(j) \/ Revalidate(j) \/ InvalidateComponents(j)
               \/ PublishReady(j) \/ RequestDrain(j)
    BY <2>3, <1>6
  <2>4. CASE \E r \in DOMAIN replacement_plans : CommitCutover(r) \/ RetireOld(r)
    BY <2>4, <1>9, <1>10
  <2> QED BY <1>2, <1>3, <1>4, <1>7, <1>11, <1>12, <2>1, <2>2, <2>3, <2>4
<1> QED BY <1>13 DEF Good

\* What is counted existed before the step: a registration is STARTING.
LEMMA CountedExisted ==
  ASSUME TypeOK, [Next]_vars, NEW i \in DOMAIN incarnations',
         incarnations'[i].lifecycle = "RUNNING"
  PROVE  i \in DOMAIN incarnations
<1>1. ASSUME NEW p \in DOMAIN permits, NEW e \in Engine, RegisterIncarnation(p, e)
      PROVE  i \in DOMAIN incarnations
  <2> DEFINE id == ids.incarnation + 1
  <2>1. PICK inc : incarnations' = Put(incarnations, id, inc) /\ inc.lifecycle = "STARTING"
    BY <1>1 DEF RegisterIncarnation
  <2> HIDE DEF id
  <2> QED BY <2>1 DEF Put
<1>2. CASE ~ \E p \in DOMAIN permits, e \in Engine : RegisterIncarnation(p, e)
  BY <1>2, IncarnationsKept
<1> QED BY <1>1, <1>2

LEMMA EarnedStep ==
  ASSUME TypeOK, [Next]_vars, NEW e \in Engine, NEW i \in Eligible(e)' \ Eligible(e)
  PROVE  /\ i \in DOMAIN incarnations
         /\ \/ verified'[i] \ verified[i] # {}
            \/ incarnations[i].lifecycle # "RUNNING" \/ ~Alive(i)
            \/ CutOver(i)
<1>1. /\ i \in DOMAIN incarnations' /\ incarnations'[i].engine = e
      /\ incarnations'[i].lifecycle = "RUNNING" /\ incarnations'[i].activation # "ACTIVE"
      /\ Required \subseteq verified'[i]
  BY DEF Eligible, PoolOf, Ready
<1>2. i \in DOMAIN incarnations
  BY <1>1, CountedExisted
<1>3. ASSUME verified'[i] \ verified[i] = {},
             incarnations[i].lifecycle = "RUNNING", Alive(i), ~CutOver(i)
      PROVE  i \in Eligible(e)
  <2>1. KeepsRole(incarnations[i], incarnations'[i])
    BY <1>2, <1>3, RoleHeld
  <2>2. incarnations[i].engine = e /\ incarnations[i].activation # "ACTIVE"
    BY <1>1, <2>1 DEF KeepsRole
  <2>3. Ready(i)
    BY <1>1, <1>3 DEF Ready
  <2> QED BY <1>2, <1>3, <2>2, <2>3 DEF Eligible, PoolOf
<1> QED BY <1>2, <1>3

\* Nothing but a publication, a start, a revalidation or a cutover ever adds an
\* incarnation to what reconcile_standby counts as standby capacity.
THEOREM EarnedCorrect == Spec => StandbyIsEarned
<1>1. TypeOK /\ [Next]_vars =>
        [\A e \in Engine : \A i \in Eligible(e)' \ Eligible(e) :
           /\ i \in DOMAIN incarnations
           /\ \/ verified'[i] \ verified[i] # {}
              \/ incarnations[i].lifecycle # "RUNNING" \/ ~Alive(i)
              \/ CutOver(i)]_vars
  BY EarnedStep
<1> QED BY <1>1, TypeCorrect, PTL DEF Spec, StandbyIsEarned
=============================================================================
