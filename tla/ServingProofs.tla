--------------------------- MODULE ServingProofs ---------------------------
(***************************************************************************)
(* Residency for every choice of engines, workers, slots, categories and    *)
(* limits: serving uses, admission and drain, how they implement             *)
(* ServingGate, and registration, fencing and readiness generations.         *)
(***************************************************************************)
EXTENDS ResidencyProofs

LEMMA OpenUsesFinite == TypeOK => IsFiniteSet(OpenUses)
<1> SUFFICES ASSUME TypeOK PROVE IsFiniteSet(OpenUses)
  OBVIOUS
<1>1. IsFiniteSet(1 .. ids.use)
  BY FS_Interval DEF TypeOK, AuthorityType
<1>2. OpenUses \subseteq 1 .. ids.use
  BY DEF TypeOK, UsesType, OpenUses
<1> QED BY <1>1, <1>2, FS_Subset

\* An admission opens one use, of its incarnation.
LEMMA AcquireOpens ==
  ASSUME TypeOK, NEW i \in DOMAIN incarnations, NEW g \in Nat, AcquireServingUse(i, g)
  PROVE  /\ OpenUses' = OpenUses \cup {ids'.use}
         /\ ids'.use \notin OpenUses
         /\ \A j : OpenUsesOf(j)' = IF j = i THEN OpenUsesOf(j) \cup {ids'.use}
                                              ELSE OpenUsesOf(j)
<1> DEFINE id == ids'.use
<1>0. /\ id \notin DOMAIN active_uses
      /\ DOMAIN active_uses' = DOMAIN active_uses \cup {id}
      /\ active_uses'[id] =
           [incarnation |-> i, readiness_generation |-> g, released |-> FALSE]
      /\ \A u \in DOMAIN active_uses : active_uses'[u] = active_uses[u]
  BY AcquireAdds
<1> HIDE DEF id
<1>1. /\ id \notin DOMAIN active_uses
      /\ DOMAIN active_uses' = DOMAIN active_uses \cup {id}
      /\ active_uses'[id].incarnation = i /\ ~active_uses'[id].released
      /\ \A u \in DOMAIN active_uses : active_uses'[u] = active_uses[u]
  BY <1>0
<1>2. OpenUses' = OpenUses \cup {id} /\ id \notin OpenUses
  BY <1>1 DEF OpenUses
<1>3. \A j : OpenUsesOf(j)' = IF j = i THEN OpenUsesOf(j) \cup {id} ELSE OpenUsesOf(j)
  BY <1>1, <1>2 DEF OpenUsesOf, OpenUses
<1> QED BY <1>2, <1>3 DEF id

\* A release closes one use, of its incarnation.
LEMMA ReleaseCloses ==
  ASSUME TypeOK, NEW u \in DOMAIN active_uses, NEW i, ReleaseServingUse(u, i)
  PROVE  /\ OpenUses' = OpenUses \ {u}
         /\ u \in OpenUses /\ u \in OpenUsesOf(i)
         /\ \A j : OpenUsesOf(j)' = IF j = i THEN OpenUsesOf(j) \ {u} ELSE OpenUsesOf(j)
<1>1. /\ DOMAIN active_uses' = DOMAIN active_uses
      /\ active_uses[u].incarnation = i /\ ~active_uses[u].released
      /\ active_uses'[u].released
      /\ \A v \in DOMAIN active_uses : v # u => active_uses'[v] = active_uses[v]
  BY ReleaseMarks
<1>2. OpenUses' = OpenUses \ {u} /\ u \in OpenUses /\ u \in OpenUsesOf(i)
  BY <1>1 DEF OpenUses, OpenUsesOf
<1>3. \A j : OpenUsesOf(j)' = IF j = i THEN OpenUsesOf(j) \ {u} ELSE OpenUsesOf(j)
  BY <1>1, <1>2 DEF OpenUsesOf, OpenUses
<1> QED BY <1>2, <1>3

LEMMA OpenUsesSame ==
  ASSUME active_uses' = active_uses
  PROVE  OpenUses' = OpenUses /\ \A j : OpenUsesOf(j)' = OpenUsesOf(j)
BY DEF OpenUses, OpenUsesOf

LEMMA AccountingInit == Init => UseAccounting
<1> SUFFICES ASSUME Init PROVE UseAccounting
  OBVIOUS
<1>1. OpenUses = {}
  BY DEF Init, NoMap, OpenUses
<1>2. Cardinality({}) = 0
  BY FS_EmptySet
<1> QED BY <1>1, <1>2, LimitsAssumption DEF Init, UseAccounting

LEMMA AccountingStep ==
  ASSUME TypeOK, UseAccounting, [Next]_vars
  PROVE  UseAccounting'
<1>1. IsFiniteSet(OpenUses) /\ Cardinality(OpenUses) \in Nat
  BY OpenUsesFinite, FS_CardinalityType
<1>2. CASE UNCHANGED <<active_uses, active_use_count>>
  BY <1>2, OpenUsesSame DEF UseAccounting
<1>3. ASSUME NEW i \in DOMAIN incarnations, NEW g \in 1 .. MaxReadinessGeneration,
             AcquireServingUse(i, g)
      PROVE  UseAccounting'
  <2>1. g \in Nat
    BY LimitsAssumption
  <2>2. OpenUses' = OpenUses \cup {ids'.use} /\ ids'.use \notin OpenUses
    BY <1>3, <2>1, AcquireOpens
  <2>3. Cardinality(OpenUses') = Cardinality(OpenUses) + 1
    BY <1>1, <2>2, FS_AddElement
  <2>4. active_use_count' = active_use_count + 1 /\ active_use_count < MaxActiveUses
    BY <1>3 DEF AcquireServingUse
  <2> QED BY <1>1, <2>3, <2>4, LimitsAssumption DEF UseAccounting
<1>4. ASSUME NEW i \in DOMAIN incarnations, NEW u \in DOMAIN active_uses,
             ReleaseServingUse(u, i)
      PROVE  UseAccounting'
  <2>1. OpenUses' = OpenUses \ {u} /\ u \in OpenUses
    BY <1>4, ReleaseCloses
  <2>2. Cardinality(OpenUses') = Cardinality(OpenUses) - 1
    BY <1>1, <2>1, FS_RemoveElement
  <2>3. Cardinality(OpenUses) # 0
    BY <1>1, <2>1, FS_EmptySet
  <2>4. active_use_count' = CountAfterRelease
    BY <1>4 DEF ReleaseServingUse
  <2> QED BY <1>1, <2>2, <2>3, <2>4, LimitsAssumption DEF CountAfterRelease, UseAccounting
<1> QED BY <1>2, <1>3, <1>4, ServingSteps
        DEF RequestDrain, AcknowledgeBackendCleanup, CommitCutover, useVars

\* The counter that caps admission is the number of open uses, and release
\* never finds it at zero (release_serving_use's underflow check never fires).
THEOREM AccountingCorrect == Spec => []UseAccounting
<1>1. Init => UseAccounting
  BY AccountingInit
<1>2. TypeOK /\ UseAccounting /\ [Next]_vars => UseAccounting'
  BY AccountingStep
<1> QED BY <1>1, <1>2, TypeCorrect, PTL DEF Spec

\* What a drain entry may say while the uses S of its incarnation are open.
Truthful(d, S) ==
  /\ d.phase \in {"DRAINED", "BACKEND_CLEANUP_PENDING"} => S = {} /\ d.admission_fenced
  /\ d.phase = "DRAINED" => d.backend_cleanup_ack
  /\ d.phase = "ACTIVE_USE_REMAINING" => S # {} /\ d.admission_fenced

LEMMA TruthfulDrains ==
  DrainPhaseTruthful <=> \A i \in DOMAIN drains : Truthful(drains[i], OpenUsesOf(i))
BY DEF DrainPhaseTruthful, Truthful

LEMMA TruthfulDrainsNext ==
  ASSUME \A i \in DOMAIN drains' : Truthful(drains'[i], OpenUsesOf(i)')
  PROVE  DrainPhaseTruthful'
BY DEF DrainPhaseTruthful, Truthful

\* Writing a truthful entry for one incarnation keeps all of them truthful.
LEMMA TruthfulPut ==
  ASSUME DrainPhaseTruthful, NEW i, NEW d, drains' = Put(drains, i, d),
         Truthful(d, OpenUsesOf(i)'),
         \A j : j # i => OpenUsesOf(j)' = OpenUsesOf(j)
  PROVE  DrainPhaseTruthful'
<1> SUFFICES ASSUME NEW j \in DOMAIN drains'
             PROVE  Truthful(drains'[j], OpenUsesOf(j)')
  BY TruthfulDrainsNext
<1>1. CASE j = i
  BY <1>1 DEF Put
<1>2. CASE j # i
  <2>1. j \in DOMAIN drains /\ drains'[j] = drains[j]
    BY <1>2 DEF Put
  <2> QED BY <1>2, <2>1, TruthfulDrains
<1> QED BY <1>1, <1>2

LEMMA TruthfulStep ==
  ASSUME TypeOK, UseAccounting, DrainPhaseTruthful, [Next]_vars
  PROVE  DrainPhaseTruthful'
<1>1. CASE UNCHANGED <<active_uses, active_use_count, drains>>
  BY <1>1, OpenUsesSame, TruthfulDrains, TruthfulDrainsNext
<1>2. ASSUME NEW i \in DOMAIN incarnations, NEW g \in 1 .. MaxReadinessGeneration,
             AcquireServingUse(i, g)
      PROVE  DrainPhaseTruthful'
  <2>1. g \in Nat
    BY LimitsAssumption
  <2>2. \A j : j # i => OpenUsesOf(j)' = OpenUsesOf(j)
    BY <1>2, <2>1, AcquireOpens
  <2>3. drains' = drains /\ ~DrainOf(i).admission_fenced
    BY <1>2 DEF AcquireServingUse, AdmissionOpen
  <2> SUFFICES ASSUME NEW j \in DOMAIN drains
               PROVE  Truthful(drains[j], OpenUsesOf(j)')
    BY <2>3, TruthfulDrainsNext
  <2>4. Truthful(drains[j], OpenUsesOf(j))
    BY TruthfulDrains
  <2>5. CASE j # i
    BY <2>2, <2>4, <2>5
  <2>6. CASE j = i
    <3>1. ~drains[j].admission_fenced
      BY <2>3, <2>6 DEF DrainOf
    <3> QED BY <2>4, <3>1 DEF Truthful
  <2> QED BY <2>5, <2>6
<1>3. ASSUME NEW i \in DOMAIN incarnations, NEW u \in DOMAIN active_uses,
             ReleaseServingUse(u, i)
      PROVE  DrainPhaseTruthful'
  <2>1. /\ u \in OpenUses /\ u \in OpenUsesOf(i)
        /\ OpenUsesOf(i)' = OpenUsesOf(i) \ {u}
        /\ \A j : j # i => OpenUsesOf(j)' = OpenUsesOf(j)
    BY <1>3, ReleaseCloses
  <2>2. active_use_count # 0
    BY <2>1, OpenUsesFinite, FS_EmptySet DEF UseAccounting
  <2>3. ASSUME NEW d \in DrainState, OpenUsesOf(i) \ {u} = {}, drains' = Put(drains, i, d),
               d.admission_fenced,
               d.phase = IF d.backend_cleanup_ack THEN "DRAINED"
                                                  ELSE "BACKEND_CLEANUP_PENDING"
        PROVE  DrainPhaseTruthful'
    <3>1. Truthful(d, OpenUsesOf(i)')
      BY <2>1, <2>3 DEF Truthful
    <3> QED BY <2>1, <2>3, <3>1, TruthfulPut
  <2>4. CASE drains' = drains /\ (\/ i \notin DOMAIN drains
                                  \/ ~drains[i].admission_fenced
                                  \/ OpenUsesOf(i) \ {u} # {})
    <3> SUFFICES ASSUME NEW j \in DOMAIN drains
                 PROVE  Truthful(drains[j], OpenUsesOf(j)')
      BY <2>4, TruthfulDrainsNext
    <3>1. Truthful(drains[j], OpenUsesOf(j))
      BY TruthfulDrains
    <3>2. CASE j # i
      BY <2>1, <3>1, <3>2
    <3>3. CASE j = i
      BY <2>1, <2>4, <3>1, <3>3 DEF Truthful
    <3> QED BY <3>2, <3>3
  <2> QED BY <1>3, <2>2, <2>3, <2>4, ReleaseDrains
<1>4. ASSUME NEW i \in DOMAIN incarnations, RequestDrain(i)
      PROVE  DrainPhaseTruthful'
  <2>1. active_uses' = active_uses
    BY <1>4 DEF RequestDrain, useVars
  <2>2. PICK d \in DrainState : /\ drains' = Put(drains, i, d) /\ d.admission_fenced
                                /\ d.phase = RequestedPhase(i)
    BY <1>4, RequestDrains
  <2>3. Truthful(d, OpenUsesOf(i)')
    BY <2>1, <2>2, OpenUsesSame DEF Truthful, RequestedPhase
  <2> QED BY <2>1, <2>2, <2>3, OpenUsesSame, TruthfulPut
<1>5. ASSUME NEW i \in DOMAIN incarnations, AcknowledgeBackendCleanup(i)
      PROVE  DrainPhaseTruthful'
  <2>1. active_uses' = active_uses
    BY <1>5 DEF AcknowledgeBackendCleanup, useVars
  <2>2. PICK d \in DrainState :
          /\ i \in DOMAIN drains
          /\ drains' = Put(drains, i, d)
          /\ d.admission_fenced = drains[i].admission_fenced
          /\ d.backend_cleanup_ack /\ d.phase = PhaseAfterAck(i)
    BY <1>5, AcknowledgeDrains
  <2>3. Truthful(drains[i], OpenUsesOf(i))
    BY <2>2, TruthfulDrains
  <2>4. Truthful(d, OpenUsesOf(i)')
    BY <2>1, <2>2, <2>3, OpenUsesSame DEF Truthful, PhaseAfterAck
  <2> QED BY <2>1, <2>2, <2>4, OpenUsesSame, TruthfulPut
<1>6. ASSUME NEW r \in DOMAIN replacement_plans, CommitCutover(r)
      PROVE  DrainPhaseTruthful'
  <2>0. PICK i : i = replacement_plans[r].old
    OBVIOUS
  <2>1. active_uses' = active_uses
    BY <1>6 DEF CommitCutover, useVars
  <2>2. PICK d \in DrainState :
          /\ drains' = Put(drains, i, d)
          /\ d.admission_fenced
          /\ d.backend_cleanup_ack = DrainOf(i).backend_cleanup_ack
          /\ d.phase = DrainOf(i).phase
    BY <1>6, <2>0, CutoverDrains
  <2>3. Truthful(DrainOf(i), OpenUsesOf(i))
    <3>1. CASE i \in DOMAIN drains
      BY <3>1, TruthfulDrains DEF DrainOf
    <3>2. CASE i \notin DOMAIN drains
      BY <3>2 DEF DrainOf, NoDrain, Truthful
    <3> QED BY <3>1, <3>2
  <2>4. \A j : OpenUsesOf(j)' = OpenUsesOf(j)
    BY <2>1, OpenUsesSame
  <2>5. Truthful(d, OpenUsesOf(i)')
    BY <2>2, <2>3, <2>4 DEF Truthful
  <2> QED BY <2>2, <2>4, <2>5, TruthfulPut
<1> QED BY <1>1, <1>2, <1>3, <1>4, <1>5, <1>6, ServingSteps

\* A drain phase never lies about the uses in flight (drain_state of
\* runtime.cpp).  The accounting is part of the argument: the release that
\* empties a drain advances it only if the counter did not underflow.
THEOREM DrainPhaseCorrect == Spec => []DrainPhaseTruthful
<1>1. Init => DrainPhaseTruthful
  BY DEF Init, DrainPhaseTruthful, NoMap
<1>2. TypeOK /\ UseAccounting /\ DrainPhaseTruthful /\ [Next]_vars => DrainPhaseTruthful'
  BY TruthfulStep
<1> QED BY <1>1, <1>2, TypeCorrect, AccountingCorrect, PTL DEF Spec

\* An entry once written keeps its admission fence.
LEMMA FenceStays ==
  ASSUME TypeOK, [Next]_vars, NEW i, DrainOf(i).admission_fenced
  PROVE  DrainOf(i)'.admission_fenced
<1>1. i \in DOMAIN drains /\ drains[i].admission_fenced
  BY DEF DrainOf, NoDrain
<1>2. ASSUME NEW j, NEW d \in DrainState, drains' = Put(drains, j, d),
             j = i => d.admission_fenced
      PROVE  DrainOf(i)'.admission_fenced
  <2>1. i \in DOMAIN drains' /\ drains'[i].admission_fenced
    BY <1>1, <1>2 DEF Put
  <2> QED BY <2>1 DEF DrainOf
<1>3. CASE drains' = drains
  BY <1>1, <1>3 DEF DrainOf
<1>4. ASSUME NEW j \in DOMAIN incarnations, NEW u \in DOMAIN active_uses,
             ReleaseServingUse(u, j)
      PROVE  DrainOf(i)'.admission_fenced
  BY <1>2, <1>3, <1>4, ReleaseDrains
<1>5. ASSUME NEW j \in DOMAIN incarnations, RequestDrain(j)
      PROVE  DrainOf(i)'.admission_fenced
  BY <1>2, <1>5, RequestDrains
<1>6. ASSUME NEW j \in DOMAIN incarnations, AcknowledgeBackendCleanup(j)
      PROVE  DrainOf(i)'.admission_fenced
  BY <1>1, <1>2, <1>6, AcknowledgeDrains
<1>7. ASSUME NEW r \in DOMAIN replacement_plans, CommitCutover(r)
      PROVE  DrainOf(i)'.admission_fenced
  BY <1>2, <1>7, CutoverDrains
<1> QED BY <1>3, <1>4, <1>5, <1>6, <1>7, ServingSteps DEF AcquireServingUse

LEMMA FencedUsesShrink ==
  ASSUME TypeOK, [Next]_vars, NEW i, DrainOf(i).admission_fenced
  PROVE  OpenUsesOf(i)' \subseteq OpenUsesOf(i)
<1>1. CASE active_uses' = active_uses
  BY <1>1, OpenUsesSame
<1>2. ASSUME NEW j \in DOMAIN incarnations, NEW g \in 1 .. MaxReadinessGeneration,
             AcquireServingUse(j, g)
      PROVE  OpenUsesOf(i)' \subseteq OpenUsesOf(i)
  <2>1. g \in Nat /\ j # i
    BY <1>2, LimitsAssumption DEF AcquireServingUse, AdmissionOpen
  <2> QED BY <1>2, <2>1, AcquireOpens
<1>3. ASSUME NEW j \in DOMAIN incarnations, NEW u \in DOMAIN active_uses,
             ReleaseServingUse(u, j)
      PROVE  OpenUsesOf(i)' \subseteq OpenUsesOf(i)
  BY <1>3, ReleaseCloses
<1> QED BY <1>1, <1>2, <1>3, ServingSteps
        DEF RequestDrain, AcknowledgeBackendCleanup, CommitCutover, useVars

\* Once request_drain or commit_cutover fenced an incarnation's admission, no
\* later operation lifts the fence and its open uses only shrink.
THEOREM AdmissionFenceCorrect == Spec => AdmissionFenceHolds
<1>1. TypeOK /\ [Next]_vars =>
        [\A i \in DOMAIN incarnations : DrainOf(i).admission_fenced =>
           /\ DrainOf(i)'.admission_fenced
           /\ OpenUsesOf(i)' \subseteq OpenUsesOf(i)]_vars
  BY FenceStays, FencedUsesShrink
<1> QED BY <1>1, TypeCorrect, PTL DEF Spec, AdmissionFenceHolds

\* A plan is in CUTOVER because it was before, or because of this very cutover.
LEMMA CutoverPlans ==
  ASSUME TypeOK, [Next]_vars, NEW r \in DOMAIN replacement_plans',
         replacement_plans'[r].phase = "CUTOVER"
  PROVE  /\ r \in DOMAIN replacement_plans
         /\ replacement_plans'[r].old = replacement_plans[r].old
         /\ replacement_plans[r].phase = "CUTOVER" \/ CommitCutover(r)
<1>1. replacement_plans \in [DOMAIN replacement_plans -> ReplacementPlan]
  BY DEF TypeOK, ReplacementsType
<1>2. CASE UNCHANGED replacement_plans
  BY <1>2
<1>3. ASSUME NEW old, NEW cand, BeginReplacement(old, cand)
      PROVE  /\ r \in DOMAIN replacement_plans
             /\ replacement_plans'[r] = replacement_plans[r]
  BY <1>3 DEF BeginReplacement, Put
<1>4. ASSUME NEW q \in DOMAIN replacement_plans, CommitCutover(q) \/ RetireOld(q)
      PROVE  /\ r \in DOMAIN replacement_plans
             /\ replacement_plans'[r].old = replacement_plans[r].old
             /\ replacement_plans[r].phase = "CUTOVER" \/ CommitCutover(r)
  <2>1. PICK ph \in {"CUTOVER", "COMPLETE"} :
          /\ replacement_plans' = [replacement_plans EXCEPT ![q] =
                                     [replacement_plans[q] EXCEPT !.phase = ph]]
          /\ ph = "CUTOVER" => CommitCutover(q)
    BY <1>4 DEF CommitCutover, RetireOld
  <2>2. r \in DOMAIN replacement_plans
    BY <2>1
  <2>3. CASE r # q
    BY <2>1, <2>2, <2>3
  <2>4. CASE r = q
    <3>1. replacement_plans'[r] = [replacement_plans[r] EXCEPT !.phase = ph]
      BY <2>1, <2>2, <2>4
    <3>2. replacement_plans[r] \in ReplacementPlan
      BY <1>1, <2>2
    <3>3. replacement_plans'[r].phase = ph
          /\ replacement_plans'[r].old = replacement_plans[r].old
      BY <3>1, <3>2 DEF ReplacementPlan
    <3> QED BY <2>1, <2>2, <2>4, <3>3
  <2> QED BY <2>3, <2>4
<1>5. \/ UNCHANGED replacement_plans
      \/ \E i, cand \in DOMAIN incarnations : BeginReplacement(i, cand)
      \/ \E q \in DOMAIN replacement_plans : CommitCutover(q) \/ RetireOld(q)
  BY DEF Next, Operations, vars, regVars, useVars, IssueRegistrationPermit, FenceWorker,
         RegisterIncarnation, AdvanceEpoch, UpdateEngineConfig, MarkRunning, Revalidate,
         InvalidateComponents, PublishReady, PublishComponent, EvidenceExpires,
         AcquireServingUse, Activate, RequestDrain, AcknowledgeBackendCleanup,
         ReleaseServingUse
<1> QED BY <1>2, <1>3, <1>4, <1>5

LEMMA CutoverStep ==
  ASSUME TypeOK, CutoverClosesOld, [Next]_vars
  PROVE  CutoverClosesOld'
<1> SUFFICES ASSUME NEW r \in DOMAIN replacement_plans',
                    replacement_plans'[r].phase = "CUTOVER"
             PROVE  DrainOf(replacement_plans[r].old)'.admission_fenced
  BY DEF CutoverClosesOld
<1>1. PICK i : i = replacement_plans[r].old
  OBVIOUS
<1>2. /\ r \in DOMAIN replacement_plans /\ replacement_plans'[r].old = i
      /\ replacement_plans[r].phase = "CUTOVER" \/ CommitCutover(r)
  BY <1>1, CutoverPlans
<1>3. CASE replacement_plans[r].phase = "CUTOVER"
  <2>1. DrainOf(i).admission_fenced
    BY <1>1, <1>2, <1>3 DEF CutoverClosesOld
  <2>2. DrainOf(i)'.admission_fenced
    BY <2>1, FenceStays
  <2> QED BY <1>2, <2>2 DEF DrainOf
<1>4. CASE CommitCutover(r)
  <2>1. PICK d : drains' = Put(drains, i, d) /\ d.admission_fenced
    BY <1>1, <1>2, <1>4, CutoverDrains
  <2>2. i \in DOMAIN drains' /\ drains'[i].admission_fenced
    BY <2>1 DEF Put
  <2> QED BY <1>2, <2>2 DEF DrainOf
<1> QED BY <1>2, <1>3, <1>4

\* From commit_cutover on, until the replacement is retired, the incarnation it
\* replaced stays closed to new uses, whatever else is called on it.
THEOREM CutoverCorrect == Spec => []CutoverClosesOld
<1>1. Init => CutoverClosesOld
  BY DEF Init, CutoverClosesOld, NoMap
<1>2. TypeOK /\ CutoverClosesOld /\ [Next]_vars => CutoverClosesOld'
  BY CutoverStep
<1> QED BY <1>1, <1>2, TypeCorrect, PTL DEF Spec

-----------------------------------------------------------------------------
(* The uses and drains implement the abstract ServingGate *)

\* What the abstract gate sees of the runtime.
Held    == {<<active_uses[u].incarnation, u>> : u \in OpenUses}
Closed  == {i \in DOMAIN drains : drains[i].admission_fenced}
Drained == {i \in DOMAIN drains : drains[i].phase = "DRAINED"}

\* Identities are handed out without gaps, so a bound on the number of
\* incarnations bounds their identities.
IdentitiesBounded ==
  /\ DOMAIN incarnations = 1 .. ids.incarnation
  /\ ids.incarnation <= MaxIncarnations
  /\ ids.use <= MaxUseId

LEMMA IdentitiesStep ==
  ASSUME TypeOK, IdentitiesBounded, [Next]_vars
  PROVE  IdentitiesBounded'
<1>1. ids \in [incarnation : Nat, permit : Nat, use : Nat, replacement : Nat]
  BY DEF TypeOK, AuthorityType
<1>2. ASSUME NEW p \in DOMAIN permits, NEW e \in Engine, RegisterIncarnation(p, e)
      PROVE  IdentitiesBounded'
  <2> DEFINE id == ids.incarnation + 1
  <2>1. /\ ids' = [ids EXCEPT !.incarnation = id]
        /\ Cardinality(DOMAIN incarnations) < MaxIncarnations
        /\ DOMAIN incarnations' = DOMAIN incarnations \cup {id}
    BY <1>2 DEF RegisterIncarnation, Put
  <2>2. Cardinality(1 .. ids.incarnation) = ids.incarnation
    BY <1>1, FS_Interval
  <2>3. id <= MaxIncarnations
    BY <1>1, <2>1, <2>2, LimitsAssumption DEF IdentitiesBounded
  <2>4. 1 .. id = (1 .. ids.incarnation) \cup {id}
    BY <1>1
  <2>5. ids'.incarnation = id /\ ids'.use = ids.use
    BY <1>1, <2>1
  <2> QED BY <2>1, <2>3, <2>4, <2>5 DEF IdentitiesBounded
<1>3. ASSUME NEW i \in DOMAIN incarnations, NEW g \in 1 .. MaxReadinessGeneration,
             AcquireServingUse(i, g)
      PROVE  IdentitiesBounded'
  <2>1. /\ ids' = [ids EXCEPT !.use = ids.use + 1] /\ ids.use + 1 <= MaxUseId
        /\ incarnations' = incarnations
    BY <1>3 DEF AcquireServingUse
  <2> QED BY <1>1, <2>1 DEF IdentitiesBounded
<1>4. CASE ~ \E p \in DOMAIN permits, e \in Engine : RegisterIncarnation(p, e)
  <2>1. DOMAIN incarnations' = DOMAIN incarnations
    BY <1>4, IncarnationsKept
  <2>2. \/ ids'.incarnation = ids.incarnation /\ ids'.use = ids.use
        \/ \E i \in DOMAIN incarnations, g \in 1 .. MaxReadinessGeneration :
             AcquireServingUse(i, g)
    <3>1. \/ ids' = ids
          \/ ids' = [ids EXCEPT !.permit = ids.permit + 1]
          \/ ids' = [ids EXCEPT !.replacement = ids.replacement + 1]
          \/ \E i \in DOMAIN incarnations, g \in 1 .. MaxReadinessGeneration :
               AcquireServingUse(i, g)
      BY <1>4 DEF Next, Operations, vars, regVars, useVars, IssueRegistrationPermit,
         FenceWorker, AdvanceEpoch, UpdateEngineConfig, MarkRunning, Revalidate,
         InvalidateComponents, PublishReady, PublishComponent, EvidenceExpires,
         Activate, RequestDrain, AcknowledgeBackendCleanup, BeginReplacement,
         ReleaseServingUse, CommitCutover, RetireOld
    <3> QED BY <1>1, <3>1
  <2> QED BY <1>3, <2>1, <2>2 DEF IdentitiesBounded
<1> QED BY <1>2, <1>4

LEMMA IdentitiesCorrect == Spec => []IdentitiesBounded
<1>1. Init => IdentitiesBounded
  BY LimitsAssumption DEF Init, IdentitiesBounded, NoMap
<1>2. TypeOK /\ IdentitiesBounded /\ [Next]_vars => IdentitiesBounded'
  BY IdentitiesStep
<1> QED BY <1>1, <1>2, TypeCorrect, PTL DEF Spec

\* The uses held on a target are its open uses.
LEMMA HeldOnIs ==
  ASSUME NEW t
  PROVE  Gate!HeldOn(t) = {<<t, u>> : u \in OpenUsesOf(t)}
BY DEF Gate!HeldOn, OpenUsesOf, OpenUses

LEMMA HeldSame ==
  ASSUME active_uses' = active_uses
  PROVE  Held' = Held
BY OpenUsesSame DEF Held

\* An admission is Admit, under an identity the gate has not seen.
LEMMA AcquireAdmits ==
  ASSUME TypeOK, IdentitiesBounded, NEW i \in DOMAIN incarnations,
         NEW g \in 1 .. MaxReadinessGeneration, AcquireServingUse(i, g)
  PROVE  Gate!GateNext
<1>1. PICK id : id = ids'.use /\ g \in Nat
  BY LimitsAssumption
<1>2. /\ id = ids.use + 1 /\ id \notin DOMAIN active_uses
      /\ DOMAIN active_uses' = DOMAIN active_uses \cup {id}
      /\ active_uses'[id].incarnation = i
      /\ \A u \in DOMAIN active_uses : active_uses'[u] = active_uses[u]
  <2>1. active_uses'[id] =
          [incarnation |-> i, readiness_generation |-> g, released |-> FALSE]
    BY <1>1, AcquireAdds
  <2> QED BY <1>1, <2>1, AcquireAdds
<1>3. OpenUses' = OpenUses \cup {id} /\ OpenUses \subseteq DOMAIN active_uses
  BY <1>1, AcquireOpens DEF OpenUses
<1>4. id <= MaxUseId /\ drains' = drains /\ i \notin Closed
  BY <1>2 DEF AcquireServingUse, AdmissionOpen, DrainOf, Closed
<1>5. i \in 1 .. MaxIncarnations /\ id \in 1 .. MaxUseId
  BY <1>2, <1>4, LimitsAssumption DEF TypeOK, AuthorityType, IdentitiesBounded
<1>6. Held' = Held \cup {<<i, id>>}
  BY <1>2, <1>3 DEF Held
<1>7. Closed' = Closed /\ Drained' = Drained
  BY <1>4 DEF Closed, Drained
<1>8. Gate!Admit(i, id)
  BY <1>2, <1>4, <1>6, <1>7 DEF Gate!Admit, Held, Closed, Drained
<1> QED BY <1>5, <1>8 DEF Gate!GateNext

\* A release is Release; the drain is complete only if this was the last use
\* of a closed gate.
LEMMA ReleaseReleases ==
  ASSUME TypeOK, UseAccounting, DrainPhaseTruthful, IdentitiesBounded,
         NEW i \in DOMAIN incarnations, NEW u \in DOMAIN active_uses, ReleaseServingUse(u, i)
  PROVE  Gate!GateNext
<1>1. /\ OpenUses' = OpenUses \ {u} /\ u \in OpenUses /\ u \in OpenUsesOf(i)
      /\ DOMAIN active_uses' = DOMAIN active_uses
      /\ active_uses[u].incarnation = i
      /\ \A v \in DOMAIN active_uses : v # u => active_uses'[v] = active_uses[v]
  BY ReleaseCloses, ReleaseMarks
<1>2. i \in 1 .. MaxIncarnations /\ u \in 1 .. MaxUseId
  BY LimitsAssumption DEF TypeOK, UsesType, AuthorityType, IdentitiesBounded
<1>3. <<i, u>> \in Held /\ Held' = Held \ {<<i, u>>}
  BY <1>1 DEF Held, OpenUses
<1>4. i \in DOMAIN drains => drains[i].phase # "DRAINED"
  BY <1>1 DEF DrainPhaseTruthful
<1>5. active_use_count # 0
  BY <1>1, OpenUsesFinite, FS_EmptySet DEF UseAccounting
<1>6. CASE drains' = drains
  <2>1. Closed' = Closed /\ Drained' = Drained
    BY <1>6 DEF Closed, Drained
  <2>2. Gate!Release(i, u)
    BY <1>1, <1>3, <2>1 DEF Gate!Release, Held, Closed, Drained
  <2> QED BY <1>2, <2>2 DEF Gate!GateNext
<1>7. ASSUME NEW d \in DrainState,
             i \in DOMAIN drains, drains[i].admission_fenced,
             OpenUsesOf(i) \ {u} = {}, drains' = Put(drains, i, d),
             d.admission_fenced
      PROVE  Gate!GateNext
  <2>1. /\ DOMAIN drains' = DOMAIN drains /\ drains'[i] = d
        /\ \A j \in DOMAIN drains : j # i => drains'[j] = drains[j]
    BY <1>7 DEF Put
  <2>2. Closed' = Closed /\ i \in Closed
    BY <1>7, <2>1 DEF Closed
  <2>3. Drained' = Drained \/ Drained' = Drained \cup {i}
    BY <1>4, <1>7, <2>1 DEF Drained
  <2>4. OpenUsesOf(i) = {u}
    BY <1>1, <1>7
  <2>5. Gate!HeldOn(i) = {<<i, u>>}
    BY <2>4, HeldOnIs
  <2>6. Gate!Release(i, u)
    BY <1>1, <1>3, <2>2, <2>3, <2>5 DEF Gate!Release, Held, Closed, Drained
  <2> QED BY <1>2, <2>6 DEF Gate!GateNext
<1> QED BY <1>5, <1>6, <1>7, ReleaseDrains

\* Writing the entry of one incarnation with its admission fenced closes its
\* gate, and may restart its drain.
LEMMA PutCloses ==
  ASSUME IdentitiesBounded, TypeOK, NEW i \in DOMAIN incarnations, NEW d \in DrainState,
         drains' = Put(drains, i, d), active_uses' = active_uses,
         d.admission_fenced,
         d.phase # "DRAINED" \/ (i \in DOMAIN drains /\ drains[i].phase = "DRAINED")
  PROVE  Gate!GateNext
<1>1. /\ DOMAIN drains' = DOMAIN drains \cup {i} /\ drains'[i] = d
      /\ \A j \in DOMAIN drains : j # i => drains'[j] = drains[j]
  BY DEF Put
<1>2. Closed' = Closed \cup {i}
  BY <1>1 DEF Closed
<1>3. Drained' = Drained \/ Drained' = Drained \ {i}
  BY <1>1 DEF Drained
<1>4. i \in 1 .. MaxIncarnations
  BY LimitsAssumption DEF TypeOK, AuthorityType, IdentitiesBounded
<1>5. Gate!Close(i)
  BY <1>2, <1>3, HeldSame DEF Gate!Close, Held, Closed, Drained
<1> QED BY <1>4, <1>5 DEF Gate!GateNext

\* An acknowledgment is Finish, or nothing the gate sees.
LEMMA AcknowledgmentFinishes ==
  ASSUME TypeOK, IdentitiesBounded, NEW i \in DOMAIN incarnations,
         AcknowledgeBackendCleanup(i)
  PROVE  [Gate!GateNext]_Gate!gateVars
<1>1. PICK d \in DrainState :
        /\ i \in DOMAIN drains
        /\ drains' = Put(drains, i, d)
        /\ d.admission_fenced = drains[i].admission_fenced
        /\ d.phase = PhaseAfterAck(i)
  BY AcknowledgeDrains
<1>2. active_uses' = active_uses
  BY DEF AcknowledgeBackendCleanup, useVars
<1>3. /\ DOMAIN drains' = DOMAIN drains /\ drains'[i] = d
      /\ \A j \in DOMAIN drains : j # i => drains'[j] = drains[j]
  BY <1>1 DEF Put
<1>4. Closed' = Closed /\ Held' = Held
  BY <1>1, <1>2, <1>3, HeldSame DEF Closed
<1>5. CASE drains[i].admission_fenced /\ OpenUsesOf(i) = {}
  <2>1. Drained' = Drained \cup {i} /\ i \in Closed
    BY <1>1, <1>3, <1>5 DEF Drained, Closed, PhaseAfterAck
  <2>2. Gate!HeldOn(i) = {}
    BY <1>5, HeldOnIs
  <2>3. i \in 1 .. MaxIncarnations
    BY LimitsAssumption DEF TypeOK, AuthorityType, IdentitiesBounded
  <2>4. Gate!Finish(i)
    BY <1>2, <1>4, <2>1, <2>2 DEF Gate!Finish, Held, Closed, Drained
  <2> QED BY <2>3, <2>4 DEF Gate!GateNext
<1>6. CASE ~(drains[i].admission_fenced /\ OpenUsesOf(i) = {})
  <2>1. Drained' = Drained
    BY <1>1, <1>3, <1>6 DEF Drained, PhaseAfterAck
  <2> QED BY <1>2, <1>4, <2>1 DEF Gate!gateVars, Held, Closed, Drained
<1> QED BY <1>5, <1>6

\* Every step of the runtime is a step of the gate, or one it does not see.
LEMMA GateStep ==
  ASSUME TypeOK, UseAccounting, DrainPhaseTruthful, IdentitiesBounded, [Next]_vars
  PROVE  [Gate!GateNext]_Gate!gateVars
<1>1. CASE UNCHANGED <<active_uses, active_use_count, drains>>
  BY <1>1, HeldSame DEF Gate!gateVars, Held
<1>2. ASSUME NEW i \in DOMAIN incarnations, RequestDrain(i)
      PROVE  Gate!GateNext
  <2>1. active_uses' = active_uses
    BY <1>2 DEF RequestDrain, useVars
  <2>2. PICK d \in DrainState : /\ drains' = Put(drains, i, d) /\ d.admission_fenced
                                /\ d.phase = RequestedPhase(i)
    BY <1>2, RequestDrains
  <2>3. d.phase # "DRAINED"
    BY <2>2 DEF RequestedPhase
  <2> QED BY <2>1, <2>2, <2>3, PutCloses
<1>3. ASSUME NEW r \in DOMAIN replacement_plans, CommitCutover(r)
      PROVE  Gate!GateNext
  <2>0. PICK i : i = replacement_plans[r].old
    OBVIOUS
  <2>1. active_uses' = active_uses
    BY <1>3 DEF CommitCutover, useVars
  <2>2. PICK d \in DrainState :
          /\ i \in DOMAIN incarnations
          /\ drains' = Put(drains, i, d)
          /\ d.admission_fenced
          /\ d.phase = DrainOf(i).phase
    BY <1>3, <2>0, CutoverDrains
  <2>3. d.phase # "DRAINED" \/ (i \in DOMAIN drains /\ drains[i].phase = "DRAINED")
    BY <2>2 DEF DrainOf, NoDrain
  <2> QED BY <2>1, <2>2, <2>3, PutCloses
<1> QED BY <1>1, <1>2, <1>3, ServingSteps, AcquireAdmits, ReleaseReleases,
           AcknowledgmentFinishes

\* What acquire_serving_use, release_serving_use, request_drain,
\* acknowledge_backend_cleanup and commit_cutover do to uses and drains is what
\* the abstract gate allows, whatever else the runtime does in between.
THEOREM GateCorrect == Spec => ImplementsGate
<1>1. Init => Gate!GateInit
  BY DEF Init, NoMap, OpenUses, Gate!GateInit
<1>2. /\ TypeOK /\ UseAccounting /\ DrainPhaseTruthful /\ IdentitiesBounded
      /\ [Next]_vars
      => [Gate!GateNext]_Gate!gateVars
  BY GateStep
<1> QED BY <1>1, <1>2, TypeCorrect, AccountingCorrect, DrainPhaseCorrect,
           IdentitiesCorrect, PTL DEF Spec, ImplementsGate, Gate!GateSpec

-----------------------------------------------------------------------------
(* Registration, fencing and readiness generations *)

\* One that recovers and has not been activated or made a candidate since is
\* not current.
Withdrawn(inc) ==
  inc.recovery = "REVALIDATING" /\ inc.activation = "INACTIVE" => ~inc.is_current

\* What an operation other than fence_worker may make of an incarnation: it
\* stays the same process of the same epoch, its readiness generation does not
\* fall and is not raised above its bound, its fence does not change, it is not
\* activated under a fence, and it is not made current while it recovers.
Evolved(old, new) ==
  /\ new.engine = old.engine /\ new.worker = old.worker
  /\ new.boot = old.boot /\ new.epoch = old.epoch
  /\ new.readiness_generation >= old.readiness_generation
  /\ new.readiness_generation > old.readiness_generation =>
       new.readiness_generation <= MaxReadinessGeneration
  /\ new.registration = old.registration
  /\ new.activation = "ACTIVE" => old.activation = "ACTIVE" \/ old.registration # "FENCED"
  /\ Withdrawn(old) => Withdrawn(new)

LEMMA EvolvedStays == ASSUME NEW inc \in Incarnation PROVE Evolved(inc, inc)
BY DEF Evolved, Withdrawn, Incarnation

LEMMA EvolvedUpdates ==
  ASSUME NEW inc \in Incarnation
  PROVE  /\ Evolved(inc, [inc EXCEPT !.lifecycle = "RUNNING", !.health = "HEALTHY"])
         /\ Evolved(inc, [inc EXCEPT !.recovery = "REVALIDATING", !.is_current = FALSE])
         /\ inc.registration # "FENCED" =>
              Evolved(inc, [inc EXCEPT !.activation = "ACTIVE", !.is_current = TRUE])
         /\ Evolved(inc, [inc EXCEPT !.lifecycle = "DRAINING", !.activation = "DRAINING"])
         /\ Evolved(inc, [inc EXCEPT !.activation = "FENCED", !.is_current = FALSE])
         /\ Evolved(inc, [inc EXCEPT !.activation = "STANDBY", !.is_current = TRUE])
         /\ Evolved(inc, [inc EXCEPT !.lifecycle = "RETIRED", !.health = "LOST",
                                     !.is_current = FALSE])
BY DEF Evolved, Withdrawn, Incarnation

LEMMA EvolvedGenerations ==
  ASSUME NEW inc \in Incarnation, inc.readiness_generation < MaxReadinessGeneration
  PROVE  /\ Evolved(inc, [inc EXCEPT !.readiness_generation = inc.readiness_generation + 1])
         /\ Evolved(inc, [inc EXCEPT !.recovery = "NOMINAL", !.is_current = TRUE,
                            !.lifecycle = "RUNNING",
                            !.readiness_generation = inc.readiness_generation + 1])
BY LimitsAssumption DEF Evolved, Withdrawn, Incarnation

LEMMA EvolvedTwice ==
  ASSUME NEW a \in Incarnation, NEW b \in Incarnation, NEW c \in Incarnation,
         Evolved(a, b), Evolved(b, c)
  PROVE  Evolved(a, c)
BY LimitsAssumption DEF Evolved, Withdrawn, Incarnation

\* A registration adds one incarnation, under a new identity and by a permit
\* that admits it, and leaves the others as they are.
LEMMA RegisterNew ==
  ASSUME TypeOK, NEW p \in DOMAIN permits, NEW e \in Engine, RegisterIncarnation(p, e)
  PROVE  \E id \in Nat :
           /\ id \notin DOMAIN incarnations
           /\ ids'.incarnation = id /\ id = ids.incarnation + 1
           /\ DOMAIN incarnations' = DOMAIN incarnations \cup {id}
           /\ \A i \in DOMAIN incarnations : incarnations'[i] = incarnations[i]
           /\ incarnations'[id].worker = permits[p].worker
           /\ incarnations'[id].boot = permits[p].boot
           /\ incarnations'[id].epoch = authority.epoch
           /\ incarnations'[id].registration = "REGISTERED"
           /\ incarnations'[id].activation = "INACTIVE"
           /\ incarnations'[id].readiness_generation = 1
           /\ PermitAdmits(permits[p])
<1> DEFINE id == ids.incarnation + 1
           inc == [engine |-> e, worker |-> permits[p].worker, boot |-> permits[p].boot,
                   epoch |-> authority.epoch, lifecycle |-> "STARTING",
                   health |-> "UNKNOWN", recovery |-> "NOMINAL",
                   registration |-> "REGISTERED", activation |-> "INACTIVE",
                   is_current |-> ~HasCurrent(e), readiness_generation |-> 1]
<1>1. /\ incarnations' = Put(incarnations, id, inc) /\ PermitAdmits(permits[p])
      /\ ids' = [ids EXCEPT !.incarnation = id]
  BY DEF RegisterIncarnation
<1>2. /\ inc.worker = permits[p].worker /\ inc.boot = permits[p].boot
      /\ inc.epoch = authority.epoch /\ inc.registration = "REGISTERED"
      /\ inc.activation = "INACTIVE" /\ inc.readiness_generation = 1
  OBVIOUS
<1>3. id \in Nat /\ ids'.incarnation = id /\ id \notin 1 .. ids.incarnation
  BY <1>1 DEF TypeOK, AuthorityType
<1>4. id \notin DOMAIN incarnations
  BY <1>3 DEF TypeOK, IncarnationsType
<1>5. id = ids.incarnation + 1
  OBVIOUS
<1> HIDE DEF id, inc
<1>6. /\ DOMAIN incarnations' = DOMAIN incarnations \cup {id}
      /\ incarnations'[id] = inc
      /\ \A i \in DOMAIN incarnations : incarnations'[i] = incarnations[i]
  BY <1>1, <1>4 DEF Put
<1> QED BY <1>1, <1>2, <1>3, <1>4, <1>5, <1>6

\* Every step but a fence or a registration lets each incarnation evolve.
LEMMA UpdatesEvolve ==
  ASSUME WellFormed, [Next]_vars, ~ \E w \in Worker, b \in Boot : FenceWorker(w, b),
         ~ \E p \in DOMAIN permits, e \in Engine : RegisterIncarnation(p, e),
         NEW i \in DOMAIN incarnations
  PROVE  Evolved(incarnations[i], incarnations'[i])
<1> DEFINE Good == Evolved(incarnations[i], incarnations'[i])
<1>0. incarnations \in [DOMAIN incarnations -> Incarnation] /\ incarnations[i] \in Incarnation
  BY DEF WellFormed
<1>1. ASSUME NEW j \in DOMAIN incarnations, NEW inc,
             incarnations' = [incarnations EXCEPT ![j] = inc],
             Evolved(incarnations[j], inc)
      PROVE  Good
  BY <1>0, <1>1, EvolvedStays
<1>3. ASSUME AdvanceEpoch PROVE Good
  BY <1>0, <1>3, EvolvedStays, EvolvedUpdates DEF AdvanceEpoch
<1>4. ASSUME NEW e \in Engine, NEW g \in 1 .. MaxConfigGeneration, UpdateEngineConfig(e, g)
      PROVE  Good
  BY <1>0, <1>4, EvolvedStays, EvolvedGenerations DEF UpdateEngineConfig
<1>5. ASSUME NEW j \in DOMAIN incarnations, MarkRunning(j) PROVE Good
  BY <1>0, <1>1, <1>5, EvolvedUpdates DEF MarkRunning
<1>6. ASSUME NEW j \in DOMAIN incarnations,
             Revalidate(j) \/ InvalidateComponents(j) \/ PublishReady(j)
      PROVE  Good
  <2> DEFINE n == incarnations[j].readiness_generation + 1
             renewed == [incarnations[j] EXCEPT !.readiness_generation = n]
             current == [incarnations[j] EXCEPT !.recovery = "NOMINAL", !.is_current = TRUE,
                           !.lifecycle = "RUNNING", !.readiness_generation = n]
  <2>1. \/ incarnations' = [incarnations EXCEPT ![j] = renewed]
        \/ incarnations' = [incarnations EXCEPT ![j] = current]
    BY <1>6 DEF Revalidate, InvalidateComponents, PublishReady
  <2>2. incarnations[j].readiness_generation < MaxReadinessGeneration
    BY <1>6 DEF Revalidate, InvalidateComponents, PublishReady
  <2>3. Evolved(incarnations[j], renewed) /\ Evolved(incarnations[j], current)
    BY <1>0, <2>2, EvolvedGenerations
  <2> HIDE DEF renewed, current
  <2> QED BY <1>1, <2>1, <2>3
<1>7. ASSUME NEW j \in DOMAIN incarnations, NEW c \in Category, PublishComponent(j, c)
      PROVE  Good
  BY <1>0, <1>1, <1>7, EvolvedUpdates, EvolvedStays DEF PublishComponent
<1>8. ASSUME NEW j \in DOMAIN incarnations, NEW g, NEW s, NEW profiled,
             Activate(j, g, s, profiled)
      PROVE  Good
  BY <1>0, <1>1, <1>8, EvolvedUpdates DEF Activate, IsFenced
<1>9. ASSUME NEW j \in DOMAIN incarnations, RequestDrain(j) PROVE Good
  BY <1>0, <1>1, <1>9, EvolvedUpdates DEF RequestDrain
<1>10. ASSUME NEW r \in DOMAIN replacement_plans, CommitCutover(r) PROVE Good
  <2> DEFINE old == replacement_plans[r].old
             cand == replacement_plans[r].candidate
             closed == [incarnations EXCEPT ![old] =
                         [incarnations[old] EXCEPT !.activation = "FENCED",
                                                   !.is_current = FALSE]]
  <2>1. old \in DOMAIN incarnations /\ cand \in DOMAIN incarnations
    BY DEF WellFormed
  <2>2. incarnations' = [closed EXCEPT ![cand] =
          [closed[cand] EXCEPT !.activation = "STANDBY", !.is_current = TRUE]]
    BY <1>10 DEF CommitCutover
  <2>3. DOMAIN closed = DOMAIN incarnations /\ closed \in [DOMAIN incarnations -> Incarnation]
    BY <1>0, <2>1, IncarnationUpdates, ReplaceType
  <2>4. Evolved(incarnations[i], closed[i])
    BY <1>0, <2>1, EvolvedUpdates, EvolvedStays
  <2> HIDE DEF closed
  <2>5. Evolved(closed[i], incarnations'[i])
    BY <2>1, <2>2, <2>3, EvolvedUpdates, EvolvedStays
  <2>6. incarnations'[i] \in Incarnation
    BY <2>1, <2>2, <2>3, IncarnationUpdates, ReplaceType
  <2> QED BY <1>0, <2>3, <2>4, <2>5, <2>6, EvolvedTwice
<1>11. ASSUME NEW r \in DOMAIN replacement_plans, RetireOld(r) PROVE Good
  <2>1. replacement_plans[r].old \in DOMAIN incarnations
    BY DEF WellFormed
  <2> QED BY <1>0, <1>1, <1>11, <2>1, EvolvedUpdates DEF RetireOld
<1>12. ASSUME UNCHANGED incarnations PROVE Good
  BY <1>0, <1>12, EvolvedStays
<1> HIDE DEF Good
<1>13. Good
  <2>1. \/ UNCHANGED incarnations
        \/ AdvanceEpoch
        \/ \E e \in Engine, g \in 1 .. MaxConfigGeneration : UpdateEngineConfig(e, g)
        \/ \E j \in DOMAIN incarnations :
             \/ Revalidate(j) \/ InvalidateComponents(j) \/ PublishReady(j)
             \/ MarkRunning(j) \/ RequestDrain(j)
        \/ \E j \in DOMAIN incarnations, c \in Category : PublishComponent(j, c)
        \/ \E j \in DOMAIN incarnations, g \in 1 .. MaxReadinessGeneration,
             s \in Slot \cup {NoSlot}, profiled \in BOOLEAN : Activate(j, g, s, profiled)
        \/ \E r \in DOMAIN replacement_plans : CommitCutover(r) \/ RetireOld(r)
    BY DEF Next, Operations, vars, IssueRegistrationPermit, EvidenceExpires,
           AcquireServingUse, AcknowledgeBackendCleanup, BeginReplacement,
           ReleaseServingUse
  <2>2. CASE \E j \in DOMAIN incarnations, g \in 1 .. MaxReadinessGeneration,
               s \in Slot \cup {NoSlot}, profiled \in BOOLEAN : Activate(j, g, s, profiled)
    BY <2>2, <1>8
  <2>4. CASE \E e \in Engine, g \in 1 .. MaxConfigGeneration : UpdateEngineConfig(e, g)
    BY <2>4, <1>4
  <2>5. CASE \E j \in DOMAIN incarnations, c \in Category : PublishComponent(j, c)
    BY <2>5, <1>7
  <2>6. CASE \E j \in DOMAIN incarnations :
               \/ Revalidate(j) \/ InvalidateComponents(j) \/ PublishReady(j)
               \/ MarkRunning(j) \/ RequestDrain(j)
    BY <2>6, <1>5, <1>6, <1>9
  <2>7. CASE \E r \in DOMAIN replacement_plans : CommitCutover(r) \/ RetireOld(r)
    BY <2>7, <1>10, <1>11
  <2> QED BY <1>3, <1>12, <2>1, <2>2, <2>4, <2>5, <2>6, <2>7
<1> QED BY <1>13 DEF Good

\* Identities being new, so does a registration.
LEMMA IncarnationsEvolve ==
  ASSUME TypeOK, [Next]_vars, ~ \E w \in Worker, b \in Boot : FenceWorker(w, b),
         NEW i \in DOMAIN incarnations
  PROVE  Evolved(incarnations[i], incarnations'[i])
<1>1. ASSUME NEW p \in DOMAIN permits, NEW e \in Engine, RegisterIncarnation(p, e)
      PROVE  Evolved(incarnations[i], incarnations'[i])
  <2>1. incarnations'[i] = incarnations[i]
    BY <1>1, RegisterNew
  <2>2. incarnations[i] \in Incarnation
    BY DEF TypeOK, IncarnationsType
  <2> QED BY <2>1, <2>2, EvolvedStays
<1> QED BY <1>1, TypeWellFormed, UpdatesEvolve

\* Only fence_worker adds to the fenced boots.
LEMMA FencedSteps ==
  ASSUME [Next]_vars
  PROVE  fenced' = fenced \/ \E w \in Worker, b \in Boot : FenceWorker(w, b)
BY DEF Next, Operations, vars, regVars, useVars, IssueRegistrationPermit,
       RegisterIncarnation, AdvanceEpoch, UpdateEngineConfig, MarkRunning, Revalidate,
       InvalidateComponents, PublishReady, PublishComponent, EvidenceExpires,
       AcquireServingUse, Activate, RequestDrain, AcknowledgeBackendCleanup,
       BeginReplacement, ReleaseServingUse, CommitCutover, RetireOld

\* What a fence makes of an incarnation.
LEMMA FenceEffect ==
  ASSUME WellFormed, NEW w \in Worker, NEW b \in Boot, FenceWorker(w, b)
  PROVE  /\ fenced' = [fenced EXCEPT ![w] = fenced[w] \cup {b}]
         /\ DOMAIN incarnations' = DOMAIN incarnations
         /\ \A i \in DOMAIN incarnations :
              LET old == incarnations[i]
                  new == incarnations'[i]
              IN  /\ new.worker = old.worker /\ new.boot = old.boot
                  /\ new.epoch = old.epoch /\ (Withdrawn(old) => Withdrawn(new))
                  /\ new.readiness_generation = old.readiness_generation
                  /\ IF old.worker = w /\ old.boot = b
                     THEN new.registration = "FENCED" /\ new.activation = "FENCED"
                     ELSE new = old
<1>1. \A i \in DOMAIN incarnations : incarnations[i] \in Incarnation
  BY DEF WellFormed
<1> QED BY <1>1 DEF FenceWorker, Incarnation, Withdrawn

LEMMA FencedBootStep ==
  ASSUME TypeOK, FencedBootHoldsNothing, [Next]_vars
  PROVE  FencedBootHoldsNothing'
<1>1. fenced \in [Worker -> SUBSET Boot]
  BY DEF TypeOK, AuthorityType
<1>2. \A i \in DOMAIN incarnations : incarnations[i] \in Incarnation
  BY DEF TypeOK, IncarnationsType
<1>3. \A i \in DOMAIN incarnations :
        /\ incarnations[i].registration = "FENCED" <=>
             incarnations[i].boot \in fenced[incarnations[i].worker]
        /\ incarnations[i].registration = "FENCED" => incarnations[i].activation # "ACTIVE"
  BY DEF FencedBootHoldsNothing
<1> SUFFICES ASSUME NEW i \in DOMAIN incarnations'
             PROVE  /\ incarnations'[i].registration = "FENCED" <=>
                         incarnations'[i].boot \in fenced'[incarnations'[i].worker]
                    /\ incarnations'[i].registration = "FENCED" =>
                         incarnations'[i].activation # "ACTIVE"
  BY DEF FencedBootHoldsNothing
<1>4. CASE \E w \in Worker, b \in Boot : FenceWorker(w, b)
  <2>1. PICK w \in Worker, b \in Boot : FenceWorker(w, b)
    BY <1>4
  <2>2. fenced' = [fenced EXCEPT ![w] = fenced[w] \cup {b}] /\ i \in DOMAIN incarnations
    BY <2>1, TypeWellFormed, FenceEffect
  <2>3. CASE incarnations[i].worker = w /\ incarnations[i].boot = b
    <3>1. /\ incarnations'[i].worker = w /\ incarnations'[i].boot = b
          /\ incarnations'[i].registration = "FENCED" /\ incarnations'[i].activation = "FENCED"
      BY <2>1, <2>2, <2>3, TypeWellFormed, FenceEffect
    <3> QED BY <1>1, <2>2, <3>1
  <2>4. CASE ~(incarnations[i].worker = w /\ incarnations[i].boot = b)
    <3>1. incarnations'[i] = incarnations[i]
      BY <2>1, <2>2, <2>4, TypeWellFormed, FenceEffect
    <3>2. incarnations[i].worker \in Worker
      BY <1>2, <2>2 DEF Incarnation
    <3>3. incarnations[i].boot \in fenced'[incarnations[i].worker] <=>
            incarnations[i].boot \in fenced[incarnations[i].worker]
      BY <1>1, <2>2, <2>4, <3>2
    <3> QED BY <1>3, <2>2, <3>1, <3>3
  <2> QED BY <2>3, <2>4
<1>5. CASE ~ \E w \in Worker, b \in Boot : FenceWorker(w, b)
  <2>1. fenced' = fenced
    BY <1>5, FencedSteps
  <2>2. CASE i \in DOMAIN incarnations
    <3>1. Evolved(incarnations[i], incarnations'[i])
      BY <1>5, <2>2, IncarnationsEvolve
    <3> QED BY <1>3, <2>1, <2>2, <3>1 DEF Evolved
  <2>3. CASE i \notin DOMAIN incarnations
    <3>1. PICK p \in DOMAIN permits, e \in Engine : RegisterIncarnation(p, e)
      BY <2>3, IncarnationsKept
    <3>2. /\ incarnations'[i].worker = permits[p].worker
          /\ incarnations'[i].boot = permits[p].boot
          /\ incarnations'[i].registration = "REGISTERED"
          /\ PermitAdmits(permits[p])
      BY <2>3, <3>1, RegisterNew
    <3> QED BY <2>1, <3>2 DEF PermitAdmits
  <2> QED BY <2>2, <2>3
<1> QED BY <1>4, <1>5

\* fence_worker reaches every incarnation its boot registered or will register,
\* and nothing activates one of them again.
THEOREM FencedBootCorrect == Spec => []FencedBootHoldsNothing
<1>1. Init => FencedBootHoldsNothing
  BY DEF Init, FencedBootHoldsNothing, NoMap
<1>2. TypeOK /\ FencedBootHoldsNothing /\ [Next]_vars => FencedBootHoldsNothing'
  BY FencedBootStep
<1> QED BY <1>1, <1>2, TypeCorrect, PTL DEF Spec

\* The evidence of a fenced incarnation: what changes it, other than a
\* registration, only takes away.
LEMMA FencedEvidenceShrinks ==
  ASSUME EvidenceType, [Next]_vars,
         ~ \E p \in DOMAIN permits, e \in Engine : RegisterIncarnation(p, e),
         NEW i \in DOMAIN incarnations, incarnations[i].registration = "FENCED"
  PROVE  verified'[i] \subseteq verified[i]
<1>0. verified \in [DOMAIN incarnations -> SUBSET Category]
  BY DEF EvidenceType
<1>1. \/ verified' = verified
      \/ \E j \in DOMAIN incarnations : InvalidateComponents(j)
      \/ \E j \in DOMAIN incarnations, c \in Category :
           PublishComponent(j, c) \/ EvidenceExpires(j, c)
  BY DEF Next, Operations, vars, regVars, useVars, IssueRegistrationPermit,
         FenceWorker, AdvanceEpoch, UpdateEngineConfig, MarkRunning, Revalidate,
         PublishReady, AcquireServingUse, Activate, RequestDrain,
         AcknowledgeBackendCleanup, BeginReplacement, ReleaseServingUse, CommitCutover,
         RetireOld
<1>2. ASSUME NEW j \in DOMAIN incarnations, NEW c \in Category, PublishComponent(j, c)
      PROVE  verified'[i] = verified[i]
  <2>1. j # i
    BY <1>2 DEF PublishComponent, MayPublish, IsFenced
  <2>2. PICK best : verified' = [verified EXCEPT ![j] = best]
    BY <1>2 DEF PublishComponent
  <2> QED BY <1>0, <2>1, <2>2
<1>3. ASSUME NEW j \in DOMAIN incarnations,
             InvalidateComponents(j) \/ \E c \in Category : EvidenceExpires(j, c)
      PROVE  verified'[i] \subseteq verified[i]
  BY <1>0, <1>3 DEF InvalidateComponents, EvidenceExpires
<1> QED BY <1>1, <1>2, <1>3

LEMMA FencedEvidence ==
  ASSUME TypeOK, [Next]_vars, NEW i \in DOMAIN incarnations,
         incarnations[i].registration = "FENCED"
  PROVE  verified'[i] \subseteq verified[i]
<1>1. ASSUME NEW p \in DOMAIN permits, NEW e \in Engine, RegisterIncarnation(p, e)
      PROVE  verified'[i] = verified[i]
  <2>1. ids.incarnation + 1 \notin DOMAIN incarnations
    BY <1>1, RegisterNew
  <2>2. PICK S : verified' = Put(verified, ids.incarnation + 1, S)
    BY <1>1 DEF RegisterIncarnation
  <2> QED BY <2>1, <2>2 DEF Put, TypeOK, EvidenceType
<1> QED BY <1>1, FencedEvidenceShrinks DEF TypeOK

\* publish_component refuses a fenced incarnation, also one that an operator
\* marked running or revalidated since.
THEOREM FencedEvidenceCorrect == Spec => FencedPublishesNothing
<1>1. TypeOK /\ [Next]_vars =>
        [\A i \in DOMAIN incarnations : incarnations[i].registration = "FENCED" =>
           verified'[i] \subseteq verified[i]]_vars
  BY FencedEvidence
<1> QED BY <1>1, TypeCorrect, PTL DEF Spec, FencedPublishesNothing

\* A readiness generation never falls, fences included.
LEMMA GenerationsGrow ==
  ASSUME TypeOK, [Next]_vars, NEW i \in DOMAIN incarnations
  PROVE  incarnations'[i].readiness_generation >= incarnations[i].readiness_generation
<1>1. incarnations[i].readiness_generation \in Nat
  BY DEF TypeOK, IncarnationsType, Incarnation
<1>2. CASE \E w \in Worker, b \in Boot : FenceWorker(w, b)
  BY <1>1, <1>2, TypeWellFormed, FenceEffect
<1>3. CASE ~ \E w \in Worker, b \in Boot : FenceWorker(w, b)
  BY <1>3, IncarnationsEvolve DEF Evolved
<1> QED BY <1>2, <1>3

LEMMA AdmissionsStep ==
  ASSUME TypeOK, AdmissionsFollowGenerations, [Next]_vars
  PROVE  AdmissionsFollowGenerations'
<1> DEFINE gen(i) == incarnations[i].readiness_generation
<1>1. /\ active_uses \in [DOMAIN active_uses -> ActiveUse]
      /\ DOMAIN active_uses \subseteq 1 .. ids.use /\ ids.use \in Nat
      /\ \A u \in DOMAIN active_uses : active_uses[u].incarnation \in DOMAIN incarnations
      /\ \A i \in DOMAIN incarnations : gen(i) \in Nat
  BY DEF TypeOK, AuthorityType, UsesType, IncarnationsType, Incarnation
<1>2. /\ \A i \in DOMAIN incarnations' : gen(i)' \in Nat
      /\ \A i \in DOMAIN incarnations : i \in DOMAIN incarnations'
      /\ \A i \in DOMAIN incarnations : gen(i)' >= gen(i)
  BY IncarnationsGrow, GenerationsGrow DEF IncarnationsType, Incarnation
<1>3. ASSUME DOMAIN active_uses' = DOMAIN active_uses,
             \A u \in DOMAIN active_uses :
               /\ active_uses'[u].incarnation = active_uses[u].incarnation
               /\ active_uses'[u].readiness_generation = active_uses[u].readiness_generation
      PROVE  AdmissionsFollowGenerations'
  <2>1. \A u \in DOMAIN active_uses : active_uses[u].readiness_generation \in Nat
    BY <1>1 DEF ActiveUse
  <2> QED BY <1>1, <1>2, <1>3, <2>1 DEF AdmissionsFollowGenerations
<1>4. ASSUME NEW i \in DOMAIN incarnations, NEW g \in 1 .. MaxReadinessGeneration,
             AcquireServingUse(i, g)
      PROVE  AdmissionsFollowGenerations'
  <2> DEFINE id == ids'.use
  <2>1. g \in Nat /\ g = gen(i) /\ incarnations' = incarnations
    BY <1>4, LimitsAssumption DEF AcquireServingUse, GenerationCurrent
  <2>2. /\ id = ids.use + 1
        /\ DOMAIN active_uses' = DOMAIN active_uses \cup {id}
        /\ active_uses'[id] =
             [incarnation |-> i, readiness_generation |-> g, released |-> FALSE]
        /\ \A u \in DOMAIN active_uses : active_uses'[u] = active_uses[u]
    BY <1>4, <2>1, AcquireAdds
  <2>3. \A u \in DOMAIN active_uses :
          /\ u \in Nat /\ u < id /\ u # id
          /\ active_uses[u].readiness_generation \in Nat
          /\ active_uses[u].readiness_generation <= gen(active_uses[u].incarnation)
          /\ \A v \in DOMAIN active_uses :
               u < v /\ active_uses[v].incarnation = active_uses[u].incarnation =>
                 active_uses[u].readiness_generation <= active_uses[v].readiness_generation
    BY <1>1, <2>2 DEF ActiveUse, AdmissionsFollowGenerations
  <2>4. id \in Nat /\ ~(id < id)
    BY <1>1, <2>2
  <2>5. /\ active_uses'[id].incarnation = i /\ active_uses'[id].readiness_generation = g
        /\ \A u \in DOMAIN active_uses : ~(id < u)
    BY <2>2, <2>3, <2>4
  <2> HIDE DEF id
  <2>6. ASSUME NEW u \in DOMAIN active_uses'
        PROVE  /\ active_uses'[u].readiness_generation <=
                    incarnations[active_uses'[u].incarnation].readiness_generation
               /\ \A v \in DOMAIN active_uses' :
                    u < v /\ active_uses'[v].incarnation = active_uses'[u].incarnation =>
                      active_uses'[u].readiness_generation <=
                        active_uses'[v].readiness_generation
    <3>1. CASE u = id
      BY <2>1, <2>2, <2>4, <2>5, <3>1
    <3>2. CASE u \in DOMAIN active_uses
      BY <2>1, <2>2, <2>3, <2>5, <3>2
    <3> QED BY <2>2, <3>1, <3>2
  <2> QED BY <2>1, <2>6 DEF AdmissionsFollowGenerations
<1>5. ASSUME NEW i \in DOMAIN incarnations, NEW u \in DOMAIN active_uses,
             ReleaseServingUse(u, i)
      PROVE  AdmissionsFollowGenerations'
  <2>1. /\ DOMAIN active_uses' = DOMAIN active_uses
        /\ \A v \in DOMAIN active_uses :
             /\ active_uses'[v].incarnation = active_uses[v].incarnation
             /\ active_uses'[v].readiness_generation = active_uses[v].readiness_generation
    BY <1>5, ReleaseMarks
  <2> QED BY <1>3, <2>1
<1>6. CASE active_uses' = active_uses
  BY <1>3, <1>6
<1> QED BY <1>4, <1>5, <1>6, ServingSteps
        DEF RequestDrain, AcknowledgeBackendCleanup, CommitCutover, useVars

\* Readiness generations count from 1 and stay within their bound.
GenerationsBounded ==
  \A i \in DOMAIN incarnations :
    incarnations[i].readiness_generation \in 1 .. MaxReadinessGeneration

LEMMA GenerationsStep ==
  ASSUME TypeOK, GenerationsBounded, [Next]_vars
  PROVE  GenerationsBounded'
<1> SUFFICES ASSUME NEW i \in DOMAIN incarnations'
             PROVE  incarnations'[i].readiness_generation \in 1 .. MaxReadinessGeneration
  BY DEF GenerationsBounded
<1>0. MaxReadinessGeneration \in Nat /\ MaxReadinessGeneration >= 1
  BY LimitsAssumption
<1>1. incarnations' \in [DOMAIN incarnations' -> Incarnation]
  BY IncarnationsGrow DEF IncarnationsType
<1>2. incarnations'[i].readiness_generation \in Nat
  BY <1>1 DEF Incarnation
<1>3. CASE i \in DOMAIN incarnations /\ \E w \in Worker, b \in Boot : FenceWorker(w, b)
  <2>1. incarnations'[i].readiness_generation = incarnations[i].readiness_generation
    BY <1>3, TypeWellFormed, FenceEffect
  <2> QED BY <1>3, <2>1 DEF GenerationsBounded
<1>4. CASE i \in DOMAIN incarnations /\ ~ \E w \in Worker, b \in Boot : FenceWorker(w, b)
  <2>1. Evolved(incarnations[i], incarnations'[i])
    BY <1>4, IncarnationsEvolve
  <2>2. incarnations[i].readiness_generation \in 1 .. MaxReadinessGeneration
    BY <1>4 DEF GenerationsBounded
  <2> QED BY <1>0, <1>2, <2>1, <2>2 DEF Evolved
<1>5. CASE i \notin DOMAIN incarnations
  <2>1. PICK p \in DOMAIN permits, e \in Engine : RegisterIncarnation(p, e)
    BY <1>5, IncarnationsKept
  <2>2. incarnations'[i].readiness_generation = 1
    BY <1>5, <2>1, RegisterNew
  <2> QED BY <1>0, <2>2
<1> QED BY <1>3, <1>4, <1>5

LEMMA GenerationsCorrect == Spec => []GenerationsBounded
<1>1. Init => GenerationsBounded
  BY DEF Init, NoMap, GenerationsBounded
<1>2. TypeOK /\ GenerationsBounded /\ [Next]_vars => GenerationsBounded'
  BY GenerationsStep
<1> QED BY <1>1, <1>2, TypeCorrect, PTL DEF Spec

\* acquire_serving_use compares the caller's readiness generation with the
\* incarnation's, and no operation lowers that: a superseded generation never
\* admits again, on any number of incarnations and uses.
THEOREM AdmissionsCorrect == Spec => []AdmissionsFollowGenerations
<1>1. Init => AdmissionsFollowGenerations
  BY DEF Init, AdmissionsFollowGenerations, NoMap
<1>2. TypeOK /\ AdmissionsFollowGenerations /\ [Next]_vars => AdmissionsFollowGenerations'
  BY AdmissionsStep
<1> QED BY <1>1, <1>2, TypeCorrect, PTL DEF Spec

\* The incarnations of a worker boot that registered in epoch ep, and the
\* permits that were consumed for them.
RegisteredBy(w, b, ep) ==
  {i \in DOMAIN incarnations :
     incarnations[i].worker = w /\ incarnations[i].boot = b /\ incarnations[i].epoch = ep}

Consumed(w, b, ep) ==
  {p \in DOMAIN permits :
     /\ permits[p].worker = w /\ permits[p].boot = b /\ permits[p].epoch = ep
     /\ permits[p].consumed}

\* The same in every epoch, past or to come: this is what is inductive.
PermitsBalance ==
  \A w \in Worker, b \in Boot, ep \in Nat :
    Cardinality(RegisteredBy(w, b, ep)) = Cardinality(Consumed(w, b, ep))

LEMMA RecordsFinite ==
  ASSUME TypeOK, NEW w, NEW b, NEW ep
  PROVE  IsFiniteSet(RegisteredBy(w, b, ep)) /\ IsFiniteSet(Consumed(w, b, ep))
<1>1. IsFiniteSet(1 .. ids.incarnation) /\ IsFiniteSet(1 .. ids.permit)
  BY FS_Interval DEF TypeOK, AuthorityType
<1>2. RegisteredBy(w, b, ep) \subseteq 1 .. ids.incarnation
  BY DEF TypeOK, IncarnationsType, RegisteredBy
<1>3. Consumed(w, b, ep) \subseteq 1 .. ids.permit
  BY DEF TypeOK, PermitsType, Consumed
<1> QED BY <1>1, <1>2, <1>3, FS_Subset

\* No operation but a registration changes who registered when.
LEMMA RegisteredSame ==
  ASSUME TypeOK, [Next]_vars,
         ~ \E p \in DOMAIN permits, e \in Engine : RegisterIncarnation(p, e),
         NEW w, NEW b, NEW ep
  PROVE  RegisteredBy(w, b, ep)' = RegisteredBy(w, b, ep)
<1>1. DOMAIN incarnations' = DOMAIN incarnations
  BY IncarnationsKept
<1>2. ASSUME NEW i \in DOMAIN incarnations
      PROVE  /\ incarnations'[i].worker = incarnations[i].worker
             /\ incarnations'[i].boot = incarnations[i].boot
             /\ incarnations'[i].epoch = incarnations[i].epoch
  <2>1. CASE \E v \in Worker, c \in Boot : FenceWorker(v, c)
    BY <2>1, TypeWellFormed, FenceEffect
  <2>2. CASE ~ \E v \in Worker, c \in Boot : FenceWorker(v, c)
    BY <2>2, IncarnationsEvolve DEF Evolved
  <2> QED BY <2>1, <2>2
<1> QED BY <1>1, <1>2 DEF RegisteredBy

\* A permit that is issued is not consumed.
LEMMA ConsumedSame ==
  ASSUME TypeOK, [Next]_vars,
         ~ \E p \in DOMAIN permits, e \in Engine : RegisterIncarnation(p, e),
         NEW w, NEW b, NEW ep
  PROVE  Consumed(w, b, ep)' = Consumed(w, b, ep)
<1>1. CASE UNCHANGED permits
  BY <1>1 DEF Consumed
<1>2. ASSUME NEW v \in Worker, NEW c \in Boot, IssueRegistrationPermit(v, c)
      PROVE  Consumed(w, b, ep)' = Consumed(w, b, ep)
  <2>1. PICK id, new : permits' = Put(permits, id, new) /\ ~new.consumed
                       /\ id \notin DOMAIN permits
    <3> DEFINE new == [worker |-> v, boot |-> c, epoch |-> authority.epoch,
                       consumed |-> FALSE]
    <3>1. permits' = Put(permits, ids.permit + 1, new) /\ ~new.consumed
      BY <1>2 DEF IssueRegistrationPermit
    <3>2. ids.permit + 1 \notin DOMAIN permits
      BY DEF TypeOK, AuthorityType, PermitsType
    <3> HIDE DEF new
    <3> QED BY <3>1, <3>2
  <2> QED BY <2>1 DEF Consumed, Put
<1> QED BY <1>1, <1>2, PermitSteps

LEMMA PermitsBalanceStep ==
  ASSUME TypeOK, PermitsBalance, [Next]_vars
  PROVE  PermitsBalance'
<1> SUFFICES ASSUME NEW w \in Worker, NEW b \in Boot, NEW ep \in Nat
             PROVE  Cardinality(RegisteredBy(w, b, ep)') = Cardinality(Consumed(w, b, ep)')
  BY DEF PermitsBalance
<1>1. Cardinality(RegisteredBy(w, b, ep)) = Cardinality(Consumed(w, b, ep))
  BY DEF PermitsBalance
<1>2. CASE ~ \E p \in DOMAIN permits, e \in Engine : RegisterIncarnation(p, e)
  BY <1>1, <1>2, RegisteredSame, ConsumedSame
<1>3. ASSUME NEW p \in DOMAIN permits, NEW e \in Engine, RegisterIncarnation(p, e)
      PROVE  Cardinality(RegisteredBy(w, b, ep)') = Cardinality(Consumed(w, b, ep)')
  <2> DEFINE mine == permits[p].worker = w /\ permits[p].boot = b /\ permits[p].epoch = ep
  <2>1. PICK id \in Nat :
          /\ id \notin DOMAIN incarnations
          /\ DOMAIN incarnations' = DOMAIN incarnations \cup {id}
          /\ \A i \in DOMAIN incarnations : incarnations'[i] = incarnations[i]
          /\ incarnations'[id].worker = permits[p].worker
          /\ incarnations'[id].boot = permits[p].boot
          /\ incarnations'[id].epoch = authority.epoch
          /\ PermitAdmits(permits[p])
    BY <1>3, RegisterNew
  <2>2. permits[p].epoch = authority.epoch /\ ~permits[p].consumed
    BY <2>1 DEF PermitAdmits
  <2>3. /\ DOMAIN permits' = DOMAIN permits
        /\ permits'[p].worker = permits[p].worker /\ permits'[p].boot = permits[p].boot
        /\ permits'[p].epoch = permits[p].epoch /\ permits'[p].consumed
        /\ \A q \in DOMAIN permits : q # p => permits'[q] = permits[q]
    <3>1. permits' = [permits EXCEPT ![p] = [permits[p] EXCEPT !.consumed = TRUE]]
      BY <1>3 DEF RegisterIncarnation
    <3>2. permits \in [DOMAIN permits -> Permit]
      BY DEF TypeOK, PermitsType
    <3> QED BY <3>1, <3>2 DEF Permit
  <2>4. CASE ~mine
    <3>1. RegisteredBy(w, b, ep)' = RegisteredBy(w, b, ep)
      BY <2>1, <2>2, <2>4 DEF RegisteredBy
    <3>2. Consumed(w, b, ep)' = Consumed(w, b, ep)
      BY <2>2, <2>3, <2>4 DEF Consumed
    <3> QED BY <1>1, <3>1, <3>2
  <2>5. CASE mine
    <3>1. RegisteredBy(w, b, ep)' = RegisteredBy(w, b, ep) \cup {id}
          /\ id \notin RegisteredBy(w, b, ep)
      BY <2>1, <2>2, <2>5 DEF RegisteredBy
    <3>2. Consumed(w, b, ep)' = Consumed(w, b, ep) \cup {p} /\ p \notin Consumed(w, b, ep)
      BY <2>2, <2>3, <2>5 DEF Consumed
    <3>3. IsFiniteSet(RegisteredBy(w, b, ep)) /\ IsFiniteSet(Consumed(w, b, ep))
      BY RecordsFinite
    <3>4. Cardinality(RegisteredBy(w, b, ep)') = Cardinality(RegisteredBy(w, b, ep)) + 1
      BY <3>1, <3>3, FS_AddElement
    <3>5. Cardinality(Consumed(w, b, ep)') = Cardinality(Consumed(w, b, ep)) + 1
      BY <3>2, <3>3, FS_AddElement
    <3> QED BY <1>1, <3>4, <3>5
  <2> QED BY <2>4, <2>5
<1> QED BY <1>2, <1>3

\* register_incarnation consumes a permit of its own for every incarnation, in
\* the epoch the permit was issued in.
THEOREM PermitsCorrect == Spec => []PermitsAreSpentOnce
<1>1. Init => PermitsBalance
  BY FS_EmptySet DEF Init, NoMap, PermitsBalance, RegisteredBy, Consumed
<1>2. TypeOK /\ PermitsBalance /\ [Next]_vars => PermitsBalance'
  BY PermitsBalanceStep
<1>3. TypeOK /\ PermitsBalance => PermitsAreSpentOnce
  BY DEF TypeOK, AuthorityType, PermitsBalance, PermitsAreSpentOnce, RegisteredBy, Consumed
<1> QED BY <1>1, <1>2, <1>3, TypeCorrect, PTL DEF Spec
=============================================================================
