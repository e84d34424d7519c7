-------------------------- MODULE ResidencyProofs --------------------------
(***************************************************************************)
(* Properties of Residency for every choice of engines, workers, slots,     *)
(* categories and limits.                                                   *)
(***************************************************************************)
EXTENDS Residency, FiniteSetTheorems, TLAPS

\* What a map holds after an assignment through operator[].
LEMMA PutFacts ==
  ASSUME NEW f, NEW k, NEW v
  PROVE  /\ DOMAIN Put(f, k, v) = DOMAIN f \cup {k}
         /\ Put(f, k, v)[k] = v
         /\ \A x \in DOMAIN f : x # k => Put(f, k, v)[x] = f[x]
BY DEF Put

LEMMA PutType ==
  ASSUME NEW S, NEW f, f \in [DOMAIN f -> S], NEW k, NEW v \in S
  PROVE  Put(f, k, v) \in [DOMAIN Put(f, k, v) -> S]
BY DEF Put

\* Replacing one value of a map by another of its type.
LEMMA ReplaceType ==
  ASSUME NEW S, NEW f, f \in [DOMAIN f -> S], NEW k \in DOMAIN f, NEW v \in S
  PROVE  /\ DOMAIN [f EXCEPT ![k] = v] = DOMAIN f
         /\ [f EXCEPT ![k] = v] \in [DOMAIN f -> S]
OBVIOUS

\* The field updates the runtime makes keep an incarnation an incarnation.
LEMMA IncarnationUpdates ==
  ASSUME NEW inc \in Incarnation
  PROVE  /\ [inc EXCEPT !.lifecycle = "RUNNING", !.health = "HEALTHY"] \in Incarnation
         /\ [inc EXCEPT !.recovery = "NOMINAL", !.is_current = TRUE,
                        !.lifecycle = "RUNNING",
                        !.readiness_generation = inc.readiness_generation + 1] \in Incarnation
         /\ [inc EXCEPT !.health = "FENCED", !.lifecycle = "LOST",
                        !.activation = "FENCED", !.registration = "FENCED",
                        !.is_current = FALSE] \in Incarnation
         /\ [inc EXCEPT !.recovery = "REVALIDATING", !.is_current = FALSE] \in Incarnation
         /\ [inc EXCEPT !.readiness_generation = inc.readiness_generation + 1] \in Incarnation
         /\ [inc EXCEPT !.activation = "ACTIVE", !.is_current = TRUE] \in Incarnation
         /\ [inc EXCEPT !.lifecycle = "DRAINING", !.activation = "DRAINING"] \in Incarnation
         /\ [inc EXCEPT !.activation = "FENCED", !.is_current = FALSE] \in Incarnation
         /\ [inc EXCEPT !.activation = "STANDBY", !.is_current = TRUE] \in Incarnation
         /\ [inc EXCEPT !.lifecycle = "RETIRED", !.health = "LOST",
                        !.is_current = FALSE] \in Incarnation
<1>0. inc.readiness_generation + 1 \in Nat
  BY DEF Incarnation
<1>1. [inc EXCEPT !.lifecycle = "RUNNING", !.health = "HEALTHY"] \in Incarnation
  BY DEF Incarnation, Lifecycle, Health, Recovery, Registration, Activation
<1>2. [inc EXCEPT !.recovery = "NOMINAL", !.is_current = TRUE, !.lifecycle = "RUNNING",
                  !.readiness_generation = inc.readiness_generation + 1] \in Incarnation
  <2> DEFINE n == inc.readiness_generation + 1
  <2>1. n \in Nat
    BY <1>0
  <2> HIDE DEF n
  <2>2. [inc EXCEPT !.recovery = "NOMINAL", !.is_current = TRUE, !.lifecycle = "RUNNING",
                    !.readiness_generation = n] \in Incarnation
    BY <2>1 DEF Incarnation, Lifecycle, Recovery
  <2> QED BY <2>2 DEF n
<1>3. [inc EXCEPT !.health = "FENCED", !.lifecycle = "LOST", !.activation = "FENCED", !.registration = "FENCED", !.is_current = FALSE] \in Incarnation
  BY DEF Incarnation, Lifecycle, Health, Recovery, Registration, Activation
<1>4. [inc EXCEPT !.recovery = "REVALIDATING", !.is_current = FALSE] \in Incarnation
  BY DEF Incarnation, Lifecycle, Health, Recovery, Registration, Activation
<1>5. [inc EXCEPT !.readiness_generation = inc.readiness_generation + 1] \in Incarnation
  BY DEF Incarnation, Lifecycle, Health, Recovery, Registration, Activation
<1>6. [inc EXCEPT !.activation = "ACTIVE", !.is_current = TRUE] \in Incarnation
  BY DEF Incarnation, Lifecycle, Health, Recovery, Registration, Activation
<1>7. [inc EXCEPT !.lifecycle = "DRAINING", !.activation = "DRAINING"] \in Incarnation
  BY DEF Incarnation, Lifecycle, Health, Recovery, Registration, Activation
<1>8. [inc EXCEPT !.activation = "FENCED", !.is_current = FALSE] \in Incarnation
  BY DEF Incarnation, Lifecycle, Health, Recovery, Registration, Activation
<1>9. [inc EXCEPT !.activation = "STANDBY", !.is_current = TRUE] \in Incarnation
  BY DEF Incarnation, Lifecycle, Health, Recovery, Registration, Activation
<1>10. [inc EXCEPT !.lifecycle = "RETIRED", !.health = "LOST", !.is_current = FALSE] \in Incarnation
  BY DEF Incarnation, Lifecycle, Health, Recovery, Registration, Activation
<1> QED BY <1>1, <1>2, <1>3, <1>4, <1>5, <1>6, <1>7, <1>8, <1>9, <1>10

\* The drain state read for an incarnation, with or without an entry.
LEMMA DrainOfType == ASSUME DrainsType, NEW i PROVE DrainOf(i) \in DrainState
BY DEF DrainsType, DrainOf, NoDrain, DrainState, DrainPhase

LEMMA TypeInit == Init => TypeOK
BY DEF Init, TypeOK, AuthorityType, PermitsType, IncarnationsType, EvidenceType,
       CurrentType, SlotsType, UsesType, DrainsType, ReplacementsType, NoMap


\* Which operations change the permits.
LEMMA PermitSteps ==
  ASSUME [Next]_vars
  PROVE  \/ UNCHANGED permits
         \/ \E w \in Worker, b \in Boot : IssueRegistrationPermit(w, b)
         \/ \E p \in DOMAIN permits, e \in Engine : RegisterIncarnation(p, e)
BY DEF Next, Operations, vars, regVars, useVars, FenceWorker, AdvanceEpoch, UpdateEngineConfig,
       MarkRunning, Revalidate, InvalidateComponents, PublishReady, PublishComponent, EvidenceExpires,
       AcquireServingUse, Activate, RequestDrain, AcknowledgeBackendCleanup,
       BeginReplacement, ReleaseServingUse, CommitCutover, RetireOld

\* Identities are only handed out upwards.
LEMMA IdsStep ==
  ASSUME AuthorityType, [Next]_vars
  PROVE  /\ ids' \in [incarnation : Nat, permit : Nat, use : Nat, replacement : Nat]
         /\ ids'.incarnation >= ids.incarnation /\ ids'.permit >= ids.permit
         /\ ids'.use >= ids.use /\ ids'.replacement >= ids.replacement
<1>1. \/ ids' = ids
      \/ ids' = [ids EXCEPT !.permit = ids.permit + 1]
      \/ ids' = [ids EXCEPT !.incarnation = ids.incarnation + 1]
      \/ ids' = [ids EXCEPT !.use = ids.use + 1]
      \/ ids' = [ids EXCEPT !.replacement = ids.replacement + 1]
  BY DEF Next, Operations, vars, regVars, useVars, IssueRegistrationPermit, FenceWorker,
         RegisterIncarnation, AdvanceEpoch, UpdateEngineConfig, MarkRunning, Revalidate,
         InvalidateComponents, PublishReady, PublishComponent, EvidenceExpires, AcquireServingUse,
         Activate, RequestDrain, AcknowledgeBackendCleanup, BeginReplacement,
         ReleaseServingUse, CommitCutover, RetireOld
<1> QED BY <1>1 DEF AuthorityType

LEMMA AuthorityStep == ASSUME AuthorityType, [Next]_vars PROVE AuthorityType'
<1>1. \/ authority' = authority
      \/ authority' = [epoch |-> authority.epoch + 1,
                       generation |-> authority.generation + 1]
  BY DEF Next, Operations, vars, regVars, useVars, IssueRegistrationPermit, FenceWorker,
         RegisterIncarnation, AdvanceEpoch, UpdateEngineConfig, MarkRunning, Revalidate,
         InvalidateComponents, PublishReady, PublishComponent, EvidenceExpires, AcquireServingUse,
         Activate, RequestDrain, AcknowledgeBackendCleanup, BeginReplacement,
         ReleaseServingUse, CommitCutover, RetireOld
<1>2. \/ config_generation' = config_generation
      \/ \E e \in Engine, g \in 1 .. MaxConfigGeneration :
           config_generation' = [config_generation EXCEPT ![e] = g]
  BY DEF Next, Operations, vars, regVars, useVars, IssueRegistrationPermit, FenceWorker,
         RegisterIncarnation, AdvanceEpoch, UpdateEngineConfig, MarkRunning, Revalidate,
         InvalidateComponents, PublishReady, PublishComponent, EvidenceExpires, AcquireServingUse,
         Activate, RequestDrain, AcknowledgeBackendCleanup, BeginReplacement,
         ReleaseServingUse, CommitCutover, RetireOld
<1>3. \/ fenced' = fenced
      \/ \E w \in Worker, b \in Boot : fenced' = [fenced EXCEPT ![w] = fenced[w] \cup {b}]
  BY DEF Next, Operations, vars, regVars, useVars, IssueRegistrationPermit, FenceWorker,
         RegisterIncarnation, AdvanceEpoch, UpdateEngineConfig, MarkRunning, Revalidate,
         InvalidateComponents, PublishReady, PublishComponent, EvidenceExpires, AcquireServingUse,
         Activate, RequestDrain, AcknowledgeBackendCleanup, BeginReplacement,
         ReleaseServingUse, CommitCutover, RetireOld
<1>4. authority' \in [epoch : Nat, generation : Nat]
  BY <1>1 DEF AuthorityType
<1>5. config_generation' \in [Engine -> Nat]
  BY <1>2, LimitsAssumption DEF AuthorityType
<1>6. fenced' \in [Worker -> SUBSET Boot]
  BY <1>3 DEF AuthorityType
<1> QED BY <1>4, <1>5, <1>6, IdsStep DEF AuthorityType

LEMMA PermitsStep ==
  ASSUME AuthorityType, PermitsType, [Next]_vars
  PROVE  PermitsType'
<1>1. CASE UNCHANGED permits
  BY <1>1, IdsStep DEF PermitsType, AuthorityType
<1>2. ASSUME NEW w \in Worker, NEW b \in Boot, IssueRegistrationPermit(w, b)
      PROVE  PermitsType'
  <2> DEFINE id == ids.permit + 1
             p == [worker |-> w, boot |-> b, epoch |-> authority.epoch,
                   consumed |-> FALSE]
  <2>1. permits' = Put(permits, id, p) /\ ids' = [ids EXCEPT !.permit = id]
    BY <1>2 DEF IssueRegistrationPermit
  <2>2. p \in Permit
    BY DEF Permit, AuthorityType
  <2>3. ids'.permit = id
    BY <2>1 DEF AuthorityType
  <2>4. id \in 1 .. id /\ 1 .. ids.permit \subseteq 1 .. id
    BY DEF AuthorityType
  <2> HIDE DEF p, id
  <2>5. permits' \in [DOMAIN permits' -> Permit]
    BY <2>1, <2>2, PutType DEF PermitsType
  <2>6. DOMAIN permits' = DOMAIN permits \cup {id}
    BY <2>1, PutFacts
  <2> QED BY <2>3, <2>4, <2>5, <2>6 DEF PermitsType
<1>3. ASSUME NEW p \in DOMAIN permits, NEW e \in Engine, RegisterIncarnation(p, e)
      PROVE  PermitsType'
  <2>1. permits' = [permits EXCEPT ![p] = [permits[p] EXCEPT !.consumed = TRUE]]
    BY <1>3 DEF RegisterIncarnation
  <2>2. [permits[p] EXCEPT !.consumed = TRUE] \in Permit
    BY DEF PermitsType, Permit
  <2>3. DOMAIN permits' = DOMAIN permits /\ permits' \in [DOMAIN permits -> Permit]
    BY <2>1, <2>2, ReplaceType DEF PermitsType
  <2> QED BY <2>3, IdsStep DEF PermitsType, AuthorityType
<1> QED BY <1>1, <1>2, <1>3, PermitSteps

\* A registration adds an incarnation; everything else keeps their set.
LEMMA RegisterAdds ==
  ASSUME TypeOK, NEW p \in DOMAIN permits, NEW e \in Engine, RegisterIncarnation(p, e)
  PROVE  /\ IncarnationsType' /\ EvidenceType' /\ CurrentType'
         /\ DOMAIN incarnations \subseteq DOMAIN incarnations'
<1> DEFINE id == ids.incarnation + 1
           inc == [engine |-> e, worker |-> permits[p].worker, boot |-> permits[p].boot,
                   epoch |-> authority.epoch, lifecycle |-> "STARTING",
                   health |-> "UNKNOWN", recovery |-> "NOMINAL",
                   registration |-> "REGISTERED", activation |-> "INACTIVE",
                   is_current |-> ~HasCurrent(e), readiness_generation |-> 1]
<1>1. /\ incarnations' = Put(incarnations, id, inc)
      /\ verified' = Put(verified, id, EvidenceUnder(id))
      /\ \/ current_by_engine' = current_by_engine
         \/ current_by_engine' = Put(current_by_engine, e, id)
      /\ ids' = [ids EXCEPT !.incarnation = id]
  BY DEF RegisterIncarnation
<1>2. HasCurrent(e) \in BOOLEAN
  BY DEF HasCurrent, Dead
<1>3. permits[p] \in Permit /\ authority.epoch \in Nat
  BY DEF TypeOK, PermitsType, AuthorityType
<1>4. inc \in Incarnation
  BY <1>2, <1>3 DEF Incarnation, Lifecycle, Health, Recovery, Registration, Activation,
                    Permit
<1>5. ids'.incarnation = id /\ id \in 1 .. id /\ 1 .. ids.incarnation \subseteq 1 .. id
  BY <1>1 DEF TypeOK, AuthorityType
<1> HIDE DEF inc, id
<1>6. DOMAIN incarnations' = DOMAIN incarnations \cup {id}
  BY <1>1, PutFacts
<1>7. incarnations' \in [DOMAIN incarnations' -> Incarnation]
  BY <1>1, <1>4, PutType DEF TypeOK, IncarnationsType
<1>8. IncarnationsType'
  BY <1>5, <1>6, <1>7 DEF TypeOK, IncarnationsType
<1>9. DOMAIN verified' = DOMAIN incarnations' /\ verified' \in [DOMAIN verified' -> SUBSET Category]
  <2>1. DOMAIN verified = DOMAIN incarnations /\ verified \in [DOMAIN verified -> SUBSET Category]
    BY DEF TypeOK, EvidenceType
  <2>2. EvidenceUnder(id) \in SUBSET Category
    BY <2>1 DEF EvidenceUnder
  <2>3. DOMAIN verified' = DOMAIN verified \cup {id}
    BY <1>1 DEF Put
  <2>4. verified' \in [DOMAIN verified' -> SUBSET Category]
    BY <1>1, <2>1, <2>2, PutType
  <2> QED BY <1>6, <2>1, <2>3, <2>4
<1>10. CurrentType'
  <2>1. CASE current_by_engine' = current_by_engine
    BY <2>1, <1>6 DEF TypeOK, CurrentType
  <2>2. CASE current_by_engine' = Put(current_by_engine, e, id)
    BY <2>2, <1>6 DEF TypeOK, CurrentType, Put
  <2> QED BY <1>1, <2>1, <2>2
<1> QED BY <1>6, <1>8, <1>9, <1>10 DEF EvidenceType

\* The part of TypeOK that says nothing of the identities handed out, and so is
\* true after a restart too, where they are handed out anew.
WellFormed ==
  /\ incarnations \in [DOMAIN incarnations -> Incarnation]
  /\ \A r \in DOMAIN replacement_plans :
       /\ replacement_plans[r].old \in DOMAIN incarnations
       /\ replacement_plans[r].candidate \in DOMAIN incarnations

LEMMA TypeWellFormed == TypeOK => WellFormed
BY DEF TypeOK, IncarnationsType, ReplacementsType, WellFormed

\* No operation but a registration changes which incarnations exist, and each
\* leaves them well formed.
LEMMA IncarnationsUpdated ==
  ASSUME WellFormed, [Next]_vars,
         ~ \E p \in DOMAIN permits, e \in Engine : RegisterIncarnation(p, e)
  PROVE  /\ DOMAIN incarnations' = DOMAIN incarnations
         /\ incarnations' \in [DOMAIN incarnations -> Incarnation]
<1> DEFINE Good == /\ DOMAIN incarnations' = DOMAIN incarnations
                   /\ incarnations' \in [DOMAIN incarnations -> Incarnation]
<1>0. incarnations \in [DOMAIN incarnations -> Incarnation]
  BY DEF WellFormed
<1>1. ASSUME NEW i \in DOMAIN incarnations, NEW inc \in Incarnation,
             incarnations' = [incarnations EXCEPT ![i] = inc]
      PROVE  Good
  BY <1>0, <1>1, ReplaceType
<1>2. ASSUME NEW w \in Worker, NEW b \in Boot, FenceWorker(w, b) PROVE Good
  BY <1>0, <1>2, IncarnationUpdates DEF FenceWorker
<1>3. ASSUME AdvanceEpoch PROVE Good
  BY <1>0, <1>3, IncarnationUpdates DEF AdvanceEpoch
<1>4. ASSUME NEW e \in Engine, NEW g \in 1 .. MaxConfigGeneration, UpdateEngineConfig(e, g)
      PROVE  Good
  BY <1>0, <1>4, IncarnationUpdates DEF UpdateEngineConfig
<1>5. ASSUME NEW i \in DOMAIN incarnations, MarkRunning(i) PROVE Good
  BY <1>0, <1>1, <1>5, IncarnationUpdates DEF MarkRunning
<1>6. ASSUME NEW i \in DOMAIN incarnations, Revalidate(i) PROVE Good
  <2> DEFINE inc == [incarnations[i] EXCEPT
                       !.recovery = "NOMINAL", !.is_current = TRUE, !.lifecycle = "RUNNING",
                       !.readiness_generation = incarnations[i].readiness_generation + 1]
  <2>1. incarnations' = [incarnations EXCEPT ![i] = inc]
    BY <1>6 DEF Revalidate
  <2>2. inc \in Incarnation
    BY <1>0, IncarnationUpdates
  <2> HIDE DEF inc
  <2> QED BY <1>1, <2>1, <2>2
<1>7. ASSUME NEW i \in DOMAIN incarnations, InvalidateComponents(i) PROVE Good
  <2> DEFINE inc == [incarnations[i] EXCEPT
                       !.readiness_generation = incarnations[i].readiness_generation + 1]
  <2>1. incarnations' = [incarnations EXCEPT ![i] = inc]
    BY <1>7 DEF InvalidateComponents
  <2>2. inc \in Incarnation
    BY <1>0, IncarnationUpdates
  <2> HIDE DEF inc
  <2> QED BY <1>1, <2>1, <2>2
<1>8. ASSUME NEW i \in DOMAIN incarnations, NEW c \in Category, PublishComponent(i, c)
      PROVE  Good
  BY <1>0, <1>1, <1>8, IncarnationUpdates DEF PublishComponent
<1>9. ASSUME NEW i \in DOMAIN incarnations, NEW g, NEW s, NEW profiled,
             Activate(i, g, s, profiled)
      PROVE  Good
  BY <1>0, <1>1, <1>9, IncarnationUpdates DEF Activate
<1>10. ASSUME NEW i \in DOMAIN incarnations, RequestDrain(i) PROVE Good
  BY <1>0, <1>1, <1>10, IncarnationUpdates DEF RequestDrain
<1>11. ASSUME NEW r \in DOMAIN replacement_plans, CommitCutover(r) PROVE Good
  <2> DEFINE old == replacement_plans[r].old
             cand == replacement_plans[r].candidate
             closed == [incarnations EXCEPT ![old] =
                         [incarnations[old] EXCEPT !.activation = "FENCED",
                                                   !.is_current = FALSE]]
  <2>1. old \in DOMAIN incarnations /\ cand \in DOMAIN incarnations
    BY DEF WellFormed
  <2>2. incarnations' = [closed EXCEPT ![cand] =
          [closed[cand] EXCEPT !.activation = "STANDBY", !.is_current = TRUE]]
    BY <1>11 DEF CommitCutover
  <2>3. DOMAIN closed = DOMAIN incarnations /\ closed \in [DOMAIN incarnations -> Incarnation]
    BY <1>0, <2>1, IncarnationUpdates, ReplaceType
  <2> HIDE DEF closed
  <2> QED BY <2>1, <2>2, <2>3, IncarnationUpdates, ReplaceType
<1>12. ASSUME NEW r \in DOMAIN replacement_plans, RetireOld(r) PROVE Good
  <2>1. replacement_plans[r].old \in DOMAIN incarnations
    BY DEF WellFormed
  <2> QED BY <1>0, <1>1, <1>12, <2>1, IncarnationUpdates DEF RetireOld
<1>13. ASSUME NEW i \in DOMAIN incarnations, PublishReady(i) PROVE Good
  <2> DEFINE inc == [incarnations[i] EXCEPT
                       !.readiness_generation = incarnations[i].readiness_generation + 1]
  <2>1. incarnations' = [incarnations EXCEPT ![i] = inc]
    BY <1>13 DEF PublishReady
  <2>2. inc \in Incarnation
    BY <1>0, IncarnationUpdates
  <2> HIDE DEF inc
  <2> QED BY <1>1, <2>1, <2>2
<1>14. ASSUME UNCHANGED incarnations PROVE Good
  BY <1>0, <1>14
<1> HIDE DEF Good
<1>15. Good
  <2>1. \/ UNCHANGED incarnations
        \/ \E w \in Worker, b \in Boot : FenceWorker(w, b)
        \/ AdvanceEpoch
        \/ \E e \in Engine, g \in 1 .. MaxConfigGeneration : UpdateEngineConfig(e, g)
        \/ \E i \in DOMAIN incarnations :
             \/ MarkRunning(i) \/ Revalidate(i) \/ InvalidateComponents(i)
             \/ PublishReady(i) \/ RequestDrain(i)
        \/ \E i \in DOMAIN incarnations, c \in Category : PublishComponent(i, c)
        \/ \E i \in DOMAIN incarnations, g \in 1 .. MaxReadinessGeneration,
             s \in Slot \cup {NoSlot}, profiled \in BOOLEAN : Activate(i, g, s, profiled)
        \/ \E r \in DOMAIN replacement_plans : CommitCutover(r) \/ RetireOld(r)
    BY DEF Next, Operations, vars, IssueRegistrationPermit, EvidenceExpires,
           AcquireServingUse, AcknowledgeBackendCleanup, BeginReplacement,
           ReleaseServingUse
  <2>2. CASE \E i \in DOMAIN incarnations :
               \/ MarkRunning(i) \/ Revalidate(i) \/ InvalidateComponents(i)
               \/ PublishReady(i) \/ RequestDrain(i)
    BY <2>2, <1>5, <1>6, <1>7, <1>10, <1>13
  <2>3. CASE \E r \in DOMAIN replacement_plans : CommitCutover(r) \/ RetireOld(r)
    BY <2>3, <1>11, <1>12
  <2>4. CASE \E i \in DOMAIN incarnations, g \in 1 .. MaxReadinessGeneration,
               s \in Slot \cup {NoSlot}, profiled \in BOOLEAN : Activate(i, g, s, profiled)
    BY <2>4, <1>9
  <2>5. CASE \E w \in Worker, b \in Boot : FenceWorker(w, b)
    BY <2>5, <1>2
  <2>6. CASE \E e \in Engine, g \in 1 .. MaxConfigGeneration : UpdateEngineConfig(e, g)
    BY <2>6, <1>4
  <2>7. CASE \E i \in DOMAIN incarnations, c \in Category : PublishComponent(i, c)
    BY <2>7, <1>8
  <2> QED BY <1>3, <1>14, <2>1, <2>2, <2>3, <2>4, <2>5, <2>6, <2>7
<1> QED BY <1>15 DEF Good

LEMMA IncarnationsKept ==
  ASSUME TypeOK, [Next]_vars,
         ~ \E p \in DOMAIN permits, e \in Engine : RegisterIncarnation(p, e)
  PROVE  /\ DOMAIN incarnations' = DOMAIN incarnations
         /\ incarnations' \in [DOMAIN incarnations -> Incarnation]
BY TypeWellFormed, IncarnationsUpdated

\* Incarnations are never erased.
LEMMA IncarnationsGrow ==
  ASSUME TypeOK, [Next]_vars
  PROVE  IncarnationsType' /\ DOMAIN incarnations \subseteq DOMAIN incarnations'
<1>1. CASE \E p \in DOMAIN permits, e \in Engine : RegisterIncarnation(p, e)
  BY <1>1, RegisterAdds
<1>2. CASE ~ \E p \in DOMAIN permits, e \in Engine : RegisterIncarnation(p, e)
  <2>1. /\ DOMAIN incarnations' = DOMAIN incarnations
        /\ incarnations' \in [DOMAIN incarnations -> Incarnation]
    BY <1>2, IncarnationsKept
  <2>2. 1 .. ids.incarnation \subseteq 1 .. ids'.incarnation
    BY IdsStep DEF TypeOK, AuthorityType
  <2> QED BY <2>1, <2>2 DEF TypeOK, IncarnationsType
<1> QED BY <1>1, <1>2

LEMMA EvidenceStep ==
  ASSUME TypeOK, [Next]_vars
  PROVE  EvidenceType'
<1>1. CASE \E p \in DOMAIN permits, e \in Engine : RegisterIncarnation(p, e)
  BY <1>1, RegisterAdds
<1>2. CASE ~ \E p \in DOMAIN permits, e \in Engine : RegisterIncarnation(p, e)
  <2>1. \/ verified' = verified
        \/ \E i \in DOMAIN incarnations : InvalidateComponents(i)
        \/ \E i \in DOMAIN incarnations, c \in Category :
             PublishComponent(i, c) \/ EvidenceExpires(i, c)
    BY <1>2 DEF Next, Operations, vars, regVars, useVars, IssueRegistrationPermit,
         FenceWorker, AdvanceEpoch, UpdateEngineConfig, MarkRunning, Revalidate,
         PublishReady, AcquireServingUse, Activate, RequestDrain,
         AcknowledgeBackendCleanup, BeginReplacement, ReleaseServingUse, CommitCutover,
         RetireOld
  <2>2. DOMAIN incarnations' = DOMAIN incarnations
    BY <1>2, IncarnationsKept
  <2>3. verified' \in [DOMAIN incarnations -> SUBSET Category]
    BY <2>1 DEF TypeOK, EvidenceType, InvalidateComponents, PublishComponent,
                EvidenceExpires
  <2> QED BY <2>2, <2>3 DEF EvidenceType
<1> QED BY <1>1, <1>2

LEMMA CurrentStep ==
  ASSUME TypeOK, [Next]_vars
  PROVE  CurrentType'
<1>1. CASE \E p \in DOMAIN permits, e \in Engine : RegisterIncarnation(p, e)
  BY <1>1, RegisterAdds
<1>2. CASE ~ \E p \in DOMAIN permits, e \in Engine : RegisterIncarnation(p, e)
  <2>1. \/ current_by_engine' = current_by_engine
        \/ \E i \in DOMAIN incarnations :
             current_by_engine' = Put(current_by_engine, incarnations[i].engine, i)
        \/ \E r \in DOMAIN replacement_plans : LET i == replacement_plans[r].candidate IN
             current_by_engine' = Put(current_by_engine, incarnations[i].engine, i)
    BY <1>2 DEF Next, Operations, vars, regVars, useVars, IssueRegistrationPermit, FenceWorker,
         AdvanceEpoch, UpdateEngineConfig, MarkRunning, Revalidate,
         InvalidateComponents, PublishReady, PublishComponent, EvidenceExpires, AcquireServingUse,
         Activate, RequestDrain, AcknowledgeBackendCleanup, BeginReplacement,
         ReleaseServingUse, CommitCutover, RetireOld
  <2>2. \A r \in DOMAIN replacement_plans :
          replacement_plans[r].candidate \in DOMAIN incarnations
    BY DEF TypeOK, ReplacementsType
  <2>3. DOMAIN incarnations' = DOMAIN incarnations
    BY <1>2, IncarnationsKept
  <2>4. CASE current_by_engine' = current_by_engine
    BY <2>3, <2>4 DEF TypeOK, CurrentType
  <2>5. ASSUME NEW i \in DOMAIN incarnations,
               current_by_engine' = Put(current_by_engine, incarnations[i].engine, i)
        PROVE  CurrentType'
    <3>1. incarnations[i].engine \in Engine
      BY DEF TypeOK, IncarnationsType, Incarnation
    <3> QED BY <2>3, <2>5, <3>1 DEF TypeOK, CurrentType, Put
  <2> QED BY <2>1, <2>2, <2>4, <2>5
<1> QED BY <1>1, <1>2

LEMMA SlotsStep ==
  ASSUME TypeOK, [Next]_vars
  PROVE  SlotsType'
<1>1. \/ slots' = slots
      \/ slots' = NoMap
      \/ \E i \in DOMAIN incarnations, s \in Slot : slots' = Put(slots, s, i)
  BY DEF Next, Operations, vars, regVars, useVars, IssueRegistrationPermit, FenceWorker,
         RegisterIncarnation, AdvanceEpoch, UpdateEngineConfig, MarkRunning, Revalidate,
         InvalidateComponents, PublishReady, PublishComponent, EvidenceExpires, AcquireServingUse,
         Activate, RequestDrain, AcknowledgeBackendCleanup, BeginReplacement,
         ReleaseServingUse, CommitCutover, RetireOld
<1>2. DOMAIN incarnations \subseteq DOMAIN incarnations'
  BY IncarnationsGrow
<1>3. CASE slots' = slots
  BY <1>2, <1>3 DEF TypeOK, SlotsType
<1>4. CASE slots' = NoMap
  BY <1>4 DEF SlotsType, NoMap
<1>5. ASSUME NEW i \in DOMAIN incarnations, NEW s \in Slot, slots' = Put(slots, s, i)
      PROVE  SlotsType'
  BY <1>2, <1>5 DEF TypeOK, SlotsType, Put
<1> QED BY <1>1, <1>3, <1>4, <1>5

\* Which operations touch the serving uses and the drains.
LEMMA ServingSteps ==
  ASSUME [Next]_vars
  PROVE  \/ UNCHANGED <<active_uses, active_use_count, drains>>
         \/ \E i \in DOMAIN incarnations, g \in 1 .. MaxReadinessGeneration :
              AcquireServingUse(i, g)
         \/ \E i \in DOMAIN incarnations, u \in DOMAIN active_uses :
              ReleaseServingUse(u, i)
         \/ \E i \in DOMAIN incarnations : RequestDrain(i) \/ AcknowledgeBackendCleanup(i)
         \/ \E r \in DOMAIN replacement_plans : CommitCutover(r)
<1>1. CASE UNCHANGED vars
  BY <1>1 DEF vars
<1>2. ASSUME NEW i \in DOMAIN incarnations, PublishReady(i)
      PROVE  UNCHANGED <<active_uses, active_use_count, drains>>
  BY <1>2 DEF PublishReady, useVars
<1>3. CASE Operations
  BY <1>3 DEF Operations, regVars, useVars, IssueRegistrationPermit, FenceWorker,
         RegisterIncarnation, AdvanceEpoch, UpdateEngineConfig, MarkRunning, Revalidate,
         InvalidateComponents, PublishComponent, EvidenceExpires, Activate,
         BeginReplacement, RetireOld
<1> QED BY <1>1, <1>2, <1>3 DEF Next

\* What an admission adds, apart from what guards it.
LEMMA AcquireAdds ==
  ASSUME TypeOK, NEW i \in DOMAIN incarnations, NEW g \in Nat, AcquireServingUse(i, g)
  PROVE  /\ ids'.use = ids.use + 1
         /\ ids'.use \notin DOMAIN active_uses
         /\ DOMAIN active_uses' = DOMAIN active_uses \cup {ids'.use}
         /\ active_uses' \in [DOMAIN active_uses' -> ActiveUse]
         /\ active_uses'[ids'.use] =
              [incarnation |-> i, readiness_generation |-> g, released |-> FALSE]
         /\ \A u \in DOMAIN active_uses : active_uses'[u] = active_uses[u]
<1> DEFINE id == ids.use + 1
           use == [incarnation |-> i, readiness_generation |-> g, released |-> FALSE]
<1>1. active_uses' = Put(active_uses, id, use) /\ ids' = [ids EXCEPT !.use = id]
  BY DEF AcquireServingUse
<1>2. i \in Nat
  BY DEF TypeOK, IncarnationsType, AuthorityType
<1>3. use \in ActiveUse
  BY <1>2 DEF ActiveUse
<1>4. ids'.use = id /\ id \notin 1 .. ids.use
  BY <1>1 DEF TypeOK, AuthorityType
<1>5. id \notin DOMAIN active_uses
  BY <1>4 DEF TypeOK, UsesType
<1>6. ids'.use = ids.use + 1
  BY <1>4
<1>7. active_uses \in [DOMAIN active_uses -> ActiveUse]
  BY DEF TypeOK, UsesType
<1>8. use = [incarnation |-> i, readiness_generation |-> g, released |-> FALSE]
  OBVIOUS
<1> HIDE DEF use, id
<1>9. active_uses' \in [DOMAIN active_uses' -> ActiveUse]
  BY <1>1, <1>3, <1>7, PutType
<1>10. /\ DOMAIN active_uses' = DOMAIN active_uses \cup {id}
       /\ active_uses'[id] = use
       /\ \A u \in DOMAIN active_uses : active_uses'[u] = active_uses[u]
  BY <1>1, <1>5 DEF Put
<1> QED BY <1>4, <1>5, <1>6, <1>8, <1>9, <1>10

\* A release only marks its use.
LEMMA ReleaseMarks ==
  ASSUME TypeOK, NEW u \in DOMAIN active_uses, NEW i, ReleaseServingUse(u, i)
  PROVE  /\ DOMAIN active_uses' = DOMAIN active_uses
         /\ active_uses' \in [DOMAIN active_uses -> ActiveUse]
         /\ active_uses[u].incarnation = i /\ ~active_uses[u].released
         /\ active_uses'[u].released /\ active_uses'[u].incarnation = i
         /\ active_uses'[u].readiness_generation = active_uses[u].readiness_generation
         /\ \A v \in DOMAIN active_uses : v # u => active_uses'[v] = active_uses[v]
<1>1. /\ active_uses' = [active_uses EXCEPT ![u] = [active_uses[u] EXCEPT !.released = TRUE]]
      /\ ~active_uses[u].released /\ active_uses[u].incarnation = i
  BY DEF ReleaseServingUse
<1>2. active_uses \in [DOMAIN active_uses -> ActiveUse]
  BY DEF TypeOK, UsesType
<1>3. [active_uses[u] EXCEPT !.released = TRUE] \in ActiveUse
  BY <1>2 DEF ActiveUse
<1>4. /\ DOMAIN active_uses' = DOMAIN active_uses
      /\ active_uses' \in [DOMAIN active_uses -> ActiveUse]
  BY <1>1, <1>2, <1>3, ReplaceType
<1>5. active_uses'[u] = [active_uses[u] EXCEPT !.released = TRUE]
  BY <1>1, <1>2
<1>6. \A v \in DOMAIN active_uses : v # u => active_uses'[v] = active_uses[v]
  BY <1>1, <1>2
<1>7. /\ active_uses'[u].released
      /\ active_uses'[u].incarnation = active_uses[u].incarnation
      /\ active_uses'[u].readiness_generation = active_uses[u].readiness_generation
  BY <1>2, <1>5 DEF ActiveUse
<1> QED BY <1>1, <1>4, <1>6, <1>7

LEMMA UsesStep ==
  ASSUME TypeOK, [Next]_vars
  PROVE  UsesType'
<1>1. DOMAIN incarnations \subseteq DOMAIN incarnations'
  BY IncarnationsGrow
<1>2. ids.use \in Nat /\ ids'.use \in Nat /\ ids'.use >= ids.use
  BY IdsStep DEF TypeOK, AuthorityType
<1>3. CASE UNCHANGED <<active_uses, active_use_count, drains>>
  BY <1>1, <1>2, <1>3 DEF TypeOK, UsesType
<1>4. ASSUME NEW i \in DOMAIN incarnations, NEW g \in 1 .. MaxReadinessGeneration,
             AcquireServingUse(i, g)
      PROVE  UsesType'
  <2>1. g \in Nat
    BY LimitsAssumption
  <2>2. /\ ids'.use = ids.use + 1
        /\ DOMAIN active_uses' = DOMAIN active_uses \cup {ids'.use}
        /\ active_uses' \in [DOMAIN active_uses' -> ActiveUse]
        /\ active_uses'[ids'.use] =
             [incarnation |-> i, readiness_generation |-> g, released |-> FALSE]
        /\ \A u \in DOMAIN active_uses : active_uses'[u] = active_uses[u]
    BY <1>4, <2>1, AcquireAdds
  <2>3. active_use_count' \in Nat
    BY <1>4 DEF AcquireServingUse, TypeOK, UsesType
  <2> QED BY <1>1, <1>2, <2>2, <2>3 DEF TypeOK, UsesType
<1>5. ASSUME NEW i \in DOMAIN incarnations, NEW u \in DOMAIN active_uses,
             ReleaseServingUse(u, i)
      PROVE  UsesType'
  <2>1. active_use_count' \in Nat
    BY <1>5 DEF ReleaseServingUse, CountAfterRelease, TypeOK, UsesType
  <2> QED BY <1>1, <1>2, <1>5, <2>1, ReleaseMarks DEF TypeOK, UsesType
<1>6. CASE UNCHANGED <<active_uses, active_use_count>>
  BY <1>1, <1>2, <1>6 DEF TypeOK, UsesType
<1> QED BY <1>3, <1>4, <1>5, <1>6, ServingSteps
        DEF RequestDrain, AcknowledgeBackendCleanup, CommitCutover, useVars

\* What each operation makes of the drains: the entry of one incarnation is
\* written, and never with its admission fence lifted.
LEMMA ReplaceIsPut ==
  ASSUME NEW f, NEW S, f \in [DOMAIN f -> S], NEW k \in DOMAIN f, NEW v
  PROVE  [f EXCEPT ![k] = v] = Put(f, k, v)
BY DEF Put

LEMMA ReleaseDrains ==
  ASSUME TypeOK, NEW u \in DOMAIN active_uses, NEW i, ReleaseServingUse(u, i)
  PROVE  \/ drains' = drains /\ (\/ active_use_count = 0
                                 \/ i \notin DOMAIN drains
                                 \/ ~drains[i].admission_fenced
                                 \/ OpenUsesOf(i) \ {u} # {})
         \/ \E d \in DrainState :
              /\ i \in DOMAIN drains /\ drains[i].admission_fenced
              /\ OpenUsesOf(i) \ {u} = {}
              /\ drains' = Put(drains, i, d)
              /\ d.admission_fenced
              /\ d.backend_cleanup_ack = drains[i].backend_cleanup_ack
              /\ d.phase = IF d.backend_cleanup_ack THEN "DRAINED"
                                                    ELSE "BACKEND_CLEANUP_PENDING"
<1> DEFINE ph == IF drains[i].backend_cleanup_ack THEN "DRAINED" ELSE "BACKEND_CLEANUP_PENDING"
           d == [drains[i] EXCEPT !.phase = ph]
<1>1. drains' = IF active_use_count = 0 THEN drains
                ELSE DrainAfterRelease(i, OpenUsesOf(i) \ {u})
  BY DEF ReleaseServingUse
<1>2. CASE /\ active_use_count # 0 /\ i \in DOMAIN drains /\ drains[i].admission_fenced
           /\ OpenUsesOf(i) \ {u} = {}
  <2>1. drains' = [drains EXCEPT ![i] = d]
    BY <1>1, <1>2 DEF DrainAfterRelease, DrainOf
  <2>2. drains \in [DOMAIN drains -> DrainState] /\ ph \in DrainPhase
    BY DEF TypeOK, DrainsType, DrainPhase
  <2>3. d \in DrainState /\ d.phase = ph /\ d.admission_fenced = drains[i].admission_fenced
        /\ d.backend_cleanup_ack = drains[i].backend_cleanup_ack
    BY <1>2, <2>2 DEF DrainState
  <2>4. drains' = Put(drains, i, d)
    <3> HIDE DEF d
    <3> QED BY <1>2, <2>1, <2>2, ReplaceIsPut
  <2> QED BY <1>2, <2>3, <2>4
<1>3. CASE ~(/\ active_use_count # 0 /\ i \in DOMAIN drains /\ drains[i].admission_fenced
             /\ OpenUsesOf(i) \ {u} = {})
  BY <1>1, <1>3 DEF DrainAfterRelease, DrainOf
<1> QED BY <1>2, <1>3

LEMMA RequestDrains ==
  ASSUME TypeOK, NEW i \in DOMAIN incarnations, RequestDrain(i)
  PROVE  \E d \in DrainState :
           /\ drains' = Put(drains, i, d)
           /\ d.admission_fenced
           /\ d.phase = RequestedPhase(i)
<1> DEFINE d == [DrainOf(i) EXCEPT !.admission_fenced = TRUE, !.phase = RequestedPhase(i)]
<1>1. drains' = Put(drains, i, d)
  BY DEF RequestDrain
<1>2. DrainOf(i) \in DrainState
  BY DrainOfType DEF TypeOK
<1>3. RequestedPhase(i) \in DrainPhase
  BY DEF RequestedPhase, DrainPhase
<1>4. d \in DrainState /\ d.admission_fenced /\ d.phase = RequestedPhase(i)
  BY <1>2, <1>3 DEF DrainState
<1> QED BY <1>1, <1>4

LEMMA AcknowledgeDrains ==
  ASSUME TypeOK, NEW i \in DOMAIN incarnations, AcknowledgeBackendCleanup(i)
  PROVE  \E d \in DrainState :
           /\ i \in DOMAIN drains
           /\ drains' = Put(drains, i, d)
           /\ d.admission_fenced = drains[i].admission_fenced
           /\ d.backend_cleanup_ack
           /\ d.phase = PhaseAfterAck(i)
<1> DEFINE d == [drains[i] EXCEPT !.backend_cleanup_ack = TRUE, !.phase = PhaseAfterAck(i)]
<1>1. i \in DOMAIN drains /\ drains' = [drains EXCEPT ![i] = d]
  BY DEF AcknowledgeBackendCleanup
<1>2. drains \in [DOMAIN drains -> DrainState]
  BY DEF TypeOK, DrainsType
<1>3. PhaseAfterAck(i) \in DrainPhase
  BY <1>1, <1>2 DEF PhaseAfterAck, DrainPhase, DrainState
<1>4. /\ d \in DrainState /\ d.admission_fenced = drains[i].admission_fenced
      /\ d.backend_cleanup_ack /\ d.phase = PhaseAfterAck(i)
  BY <1>1, <1>2, <1>3 DEF DrainState
<1>5. drains' = Put(drains, i, d)
  <2> HIDE DEF d
  <2> QED BY <1>1, <1>2, ReplaceIsPut
<1> QED BY <1>1, <1>4, <1>5

LEMMA CutoverDrains ==
  ASSUME TypeOK, NEW r \in DOMAIN replacement_plans, CommitCutover(r)
  PROVE  \E d \in DrainState :
           /\ replacement_plans[r].old \in DOMAIN incarnations
           /\ drains' = Put(drains, replacement_plans[r].old, d)
           /\ d.admission_fenced
           /\ d.backend_cleanup_ack = DrainOf(replacement_plans[r].old).backend_cleanup_ack
           /\ d.phase = DrainOf(replacement_plans[r].old).phase
<1> DEFINE i == replacement_plans[r].old
           d == [DrainOf(i) EXCEPT !.admission_fenced = TRUE]
<1>1. drains' = Put(drains, i, d)
  BY DEF CommitCutover, DrainAtCutover
<1>2. DrainOf(i) \in DrainState
  BY DrainOfType DEF TypeOK
<1>3. i \in DOMAIN incarnations
  BY DEF TypeOK, ReplacementsType
<1>4. /\ d \in DrainState /\ d.admission_fenced /\ d.phase = DrainOf(i).phase
      /\ d.backend_cleanup_ack = DrainOf(i).backend_cleanup_ack
  BY <1>2 DEF DrainState
<1> QED BY <1>1, <1>3, <1>4

LEMMA DrainsStep ==
  ASSUME TypeOK, [Next]_vars
  PROVE  DrainsType'
<1>1. DOMAIN incarnations \subseteq DOMAIN incarnations'
  BY IncarnationsGrow
<1>2. ASSUME NEW i \in DOMAIN incarnations, NEW d \in DrainState, drains' = Put(drains, i, d)
      PROVE  DrainsType'
  <2>1. DOMAIN drains' = DOMAIN drains \cup {i}
    BY <1>2 DEF Put
  <2>2. drains' \in [DOMAIN drains' -> DrainState]
    BY <1>2, PutType DEF TypeOK, DrainsType
  <2> QED BY <1>1, <2>1, <2>2 DEF TypeOK, DrainsType
<1>3. CASE drains' = drains
  BY <1>1, <1>3 DEF TypeOK, DrainsType
<1>4. ASSUME NEW i \in DOMAIN incarnations, NEW u \in DOMAIN active_uses,
             ReleaseServingUse(u, i)
      PROVE  DrainsType'
  BY <1>2, <1>3, <1>4, ReleaseDrains
<1>5. ASSUME NEW i \in DOMAIN incarnations, RequestDrain(i)
      PROVE  DrainsType'
  BY <1>2, <1>5, RequestDrains
<1>6. ASSUME NEW i \in DOMAIN incarnations, AcknowledgeBackendCleanup(i)
      PROVE  DrainsType'
  BY <1>2, <1>6, AcknowledgeDrains
<1>7. ASSUME NEW r \in DOMAIN replacement_plans, CommitCutover(r)
      PROVE  DrainsType'
  BY <1>2, <1>7, CutoverDrains
<1> QED BY <1>3, <1>4, <1>5, <1>6, <1>7, ServingSteps DEF AcquireServingUse

LEMMA ReplacementsStep ==
  ASSUME TypeOK, [Next]_vars
  PROVE  ReplacementsType'
<1>1. DOMAIN incarnations \subseteq DOMAIN incarnations'
  BY IncarnationsGrow
<1>2. ids.replacement \in Nat /\ ids'.replacement \in Nat /\ ids'.replacement >= ids.replacement
  BY IdsStep DEF TypeOK, AuthorityType
<1>3. replacement_plans \in [DOMAIN replacement_plans -> ReplacementPlan]
  BY DEF TypeOK, ReplacementsType
<1>4. CASE UNCHANGED replacement_plans
  BY <1>1, <1>2, <1>4 DEF TypeOK, ReplacementsType
<1>5. ASSUME NEW old \in DOMAIN incarnations, NEW cand \in DOMAIN incarnations,
             BeginReplacement(old, cand)
      PROVE  ReplacementsType'
  <2> DEFINE id == ids.replacement + 1
             plan == [old |-> old, candidate |-> cand, epoch |-> authority.epoch,
                      phase |-> "PREPARING"]
  <2>1. replacement_plans' = Put(replacement_plans, id, plan)
        /\ ids' = [ids EXCEPT !.replacement = id]
    BY <1>5 DEF BeginReplacement
  <2>2. old \in Nat /\ cand \in Nat /\ authority.epoch \in Nat
    BY DEF TypeOK, IncarnationsType, AuthorityType
  <2>3. plan \in ReplacementPlan /\ plan.old = old /\ plan.candidate = cand
    BY <2>2 DEF ReplacementPlan
  <2>4. ids'.replacement = id /\ id \in 1 .. id /\ 1 .. ids.replacement \subseteq 1 .. id
    BY <2>1 DEF TypeOK, AuthorityType
  <2> HIDE DEF id, plan
  <2>5. replacement_plans' \in [DOMAIN replacement_plans' -> ReplacementPlan]
    BY <1>3, <2>1, <2>3, PutType
  <2>6. /\ DOMAIN replacement_plans' = DOMAIN replacement_plans \cup {id}
        /\ replacement_plans'[id] = plan
        /\ \A r \in DOMAIN replacement_plans :
             r # id => replacement_plans'[r] = replacement_plans[r]
    BY <2>1 DEF Put
  <2> QED BY <1>1, <2>3, <2>4, <2>5, <2>6 DEF TypeOK, ReplacementsType
<1>6. ASSUME NEW r \in DOMAIN replacement_plans, NEW ph \in {"CUTOVER", "COMPLETE"},
             replacement_plans' = [replacement_plans EXCEPT ![r] =
                                     [replacement_plans[r] EXCEPT !.phase = ph]]
      PROVE  ReplacementsType'
  <2> DEFINE plan == [replacement_plans[r] EXCEPT !.phase = ph]
  <2>1. /\ plan \in ReplacementPlan /\ plan.old = replacement_plans[r].old
        /\ plan.candidate = replacement_plans[r].candidate
    BY <1>3 DEF ReplacementPlan
  <2> HIDE DEF plan
  <2>2. replacement_plans' = [replacement_plans EXCEPT ![r] = plan]
    BY <1>6 DEF plan
  <2>3. /\ DOMAIN replacement_plans' = DOMAIN replacement_plans
        /\ replacement_plans' \in [DOMAIN replacement_plans -> ReplacementPlan]
    BY <1>3, <2>1, <2>2, ReplaceType
  <2>4. \A q \in DOMAIN replacement_plans :
          /\ replacement_plans'[q].old = replacement_plans[q].old
          /\ replacement_plans'[q].candidate = replacement_plans[q].candidate
    BY <1>3, <2>1, <2>2
  <2> QED BY <1>1, <1>2, <2>3, <2>4 DEF TypeOK, ReplacementsType
<1>7. \/ UNCHANGED replacement_plans
      \/ \E i, cand \in DOMAIN incarnations : BeginReplacement(i, cand)
      \/ \E r \in DOMAIN replacement_plans, ph \in {"CUTOVER", "COMPLETE"} :
             replacement_plans' = [replacement_plans EXCEPT ![r] =
                                     [replacement_plans[r] EXCEPT !.phase = ph]]
  BY DEF Next, Operations, vars, regVars, useVars, IssueRegistrationPermit, FenceWorker,
         RegisterIncarnation, AdvanceEpoch, UpdateEngineConfig, MarkRunning, Revalidate,
         InvalidateComponents, PublishReady, PublishComponent, EvidenceExpires, AcquireServingUse,
         Activate, RequestDrain, AcknowledgeBackendCleanup,
         ReleaseServingUse, CommitCutover, RetireOld
<1> QED BY <1>4, <1>5, <1>6, <1>7

\* Every operation keeps the shape of the state.
LEMMA TypeStep == TypeOK /\ [Next]_vars => TypeOK'
<1> SUFFICES ASSUME TypeOK, [Next]_vars PROVE TypeOK'
  OBVIOUS
<1>1. AuthorityType' /\ PermitsType'
  BY AuthorityStep, PermitsStep DEF TypeOK
<1>2. IncarnationsType' /\ EvidenceType' /\ CurrentType' /\ SlotsType'
  BY IncarnationsGrow, EvidenceStep, CurrentStep, SlotsStep
<1>3. UsesType' /\ DrainsType' /\ ReplacementsType'
  BY UsesStep, DrainsStep, ReplacementsStep
<1> QED BY <1>1, <1>2, <1>3 DEF TypeOK

\* The runtime never stores a reference to an incarnation that does not exist,
\* whatever sequence of operations it is given (runtime.cpp's maps).
THEOREM TypeCorrect == Spec => []TypeOK
<1> QED BY TypeInit, TypeStep, PTL DEF Spec
=============================================================================
