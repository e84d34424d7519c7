--------------------------- MODULE RecoveryProofs ---------------------------
(***************************************************************************)
(* What the coordinator restores, for every choice of engines, workers,     *)
(* slots, categories and limits, and for any number of restarts.            *)
(*                                                                          *)
(* Residency's type invariant does not survive a second restart: the        *)
(* identity counters resume at the same value, below identities that were   *)
(* restored.  So the invariant here asks less of the identities.            *)
(***************************************************************************)
EXTENDS Recovery, ServingProofs

\* The shape of the runtime's tables, whatever identities were handed out.
Shape ==
  /\ AuthorityType /\ PermitsType /\ EvidenceType /\ WellFormed
  /\ DOMAIN incarnations \subseteq Nat
  /\ replacement_plans \in [DOMAIN replacement_plans -> ReplacementPlan]
  /\ life \in Nat /\ life >= 1

\* A file that can be read, or will be once it is closed, has that shape too,
\* and no incarnation in it is of an epoch after the saved one.
SavedShape ==
  file = "whole" \/ saving =>
    /\ saved.authority \in [epoch : Nat, generation : Nat]
    /\ saved.config_generation \in [Engine -> Nat]
    /\ DOMAIN saved.incarnations \subseteq Nat
    /\ saved.incarnations \in [DOMAIN saved.incarnations -> Incarnation]
    /\ saved.replacement_plans \in [DOMAIN saved.replacement_plans -> ReplacementPlan]
    /\ \A r \in DOMAIN saved.replacement_plans :
         /\ saved.replacement_plans[r].old \in DOMAIN saved.incarnations
         /\ saved.replacement_plans[r].candidate \in DOMAIN saved.incarnations
    /\ \A i \in DOMAIN saved.incarnations :
         saved.incarnations[i].epoch <= saved.authority.epoch

\* No incarnation is of a later epoch, those from the file are of an earlier
\* one; one that recovers is not current, one that is fenced is not active.
AuthorityIsHonest ==
  /\ restored \subseteq DOMAIN incarnations
  /\ \A i \in restored : incarnations[i].epoch < authority.epoch
  /\ \A i \in DOMAIN incarnations :
       /\ incarnations[i].epoch <= authority.epoch
       /\ Withdrawn(incarnations[i])
       /\ incarnations[i].registration = "FENCED" => incarnations[i].activation # "ACTIVE"

RecoveryInv == Shape /\ SavedShape /\ AuthorityIsHonest

-----------------------------------------------------------------------------
(* One operation of the runtime *)

Registers == \E p \in DOMAIN permits, e \in Engine : RegisterIncarnation(p, e)

Fences == \E w \in Worker, b \in Boot : FenceWorker(w, b)

\* What a registration stores, under an identity that may be taken.
LEMMA RegisterPuts ==
  ASSUME AuthorityType, PermitsType, Registers
  PROVE  /\ ids'.incarnation = ids.incarnation + 1
         /\ authority' = authority /\ replacement_plans' = replacement_plans
         /\ active_uses' = active_uses
         /\ verified' = Put(verified, ids'.incarnation, EvidenceUnder(ids'.incarnation))
         /\ \E inc \in Incarnation :
              /\ incarnations' = Put(incarnations, ids'.incarnation, inc)
              /\ inc.epoch = authority.epoch /\ inc.registration = "REGISTERED"
              /\ inc.recovery = "NOMINAL" /\ inc.activation = "INACTIVE"
<1>1. PICK p \in DOMAIN permits, e \in Engine : RegisterIncarnation(p, e)
  BY DEF Registers
<1> DEFINE id == ids.incarnation + 1
           inc == [engine |-> e, worker |-> permits[p].worker, boot |-> permits[p].boot,
                   epoch |-> authority.epoch, lifecycle |-> "STARTING",
                   health |-> "UNKNOWN", recovery |-> "NOMINAL",
                   registration |-> "REGISTERED", activation |-> "INACTIVE",
                   is_current |-> ~HasCurrent(e), readiness_generation |-> 1]
<1>2. /\ incarnations' = Put(incarnations, id, inc)
      /\ verified' = Put(verified, id, EvidenceUnder(id))
      /\ ids' = [ids EXCEPT !.incarnation = id]
      /\ authority' = authority /\ replacement_plans' = replacement_plans
      /\ active_uses' = active_uses
  BY <1>1 DEF RegisterIncarnation, useVars
<1>3. HasCurrent(e) \in BOOLEAN
  BY DEF HasCurrent, Dead
<1>4. permits[p] \in Permit /\ authority.epoch \in Nat
  BY DEF PermitsType, AuthorityType
<1>5. inc \in Incarnation
  BY <1>3, <1>4 DEF Incarnation, Lifecycle, Health, Recovery, Registration, Activation,
                    Permit
<1>6. ids'.incarnation = id
  BY <1>2 DEF AuthorityType
<1>7. /\ inc.epoch = authority.epoch /\ inc.registration = "REGISTERED"
      /\ inc.recovery = "NOMINAL" /\ inc.activation = "INACTIVE"
  OBVIOUS
<1>8. id = ids.incarnation + 1
  OBVIOUS
<1> HIDE DEF inc, id
<1> QED BY <1>2, <1>5, <1>6, <1>7, <1>8

\* Only a registration hands out an identity of an incarnation.
LEMMA RegistrationsNumber ==
  ASSUME AuthorityType, [Next]_vars, ~Registers
  PROVE  ids'.incarnation = ids.incarnation
<1>1. \/ ids' = ids
      \/ ids' = [ids EXCEPT !.permit = ids.permit + 1]
      \/ ids' = [ids EXCEPT !.use = ids.use + 1]
      \/ ids' = [ids EXCEPT !.replacement = ids.replacement + 1]
  BY DEF Registers, Next, Operations, vars, regVars, useVars, IssueRegistrationPermit,
         FenceWorker, AdvanceEpoch, UpdateEngineConfig, MarkRunning, Revalidate,
         InvalidateComponents, PublishReady, PublishComponent, EvidenceExpires,
         AcquireServingUse, Activate, RequestDrain, AcknowledgeBackendCleanup,
         BeginReplacement, ReleaseServingUse, CommitCutover, RetireOld
<1> QED BY <1>1 DEF AuthorityType

\* Incarnations are never erased, and stay incarnations.
LEMMA IncarnationsStay ==
  ASSUME Shape, [Next]_vars
  PROVE  /\ DOMAIN incarnations \subseteq DOMAIN incarnations'
         /\ DOMAIN incarnations' \subseteq Nat
         /\ incarnations' \in [DOMAIN incarnations' -> Incarnation]
         /\ DOMAIN incarnations' = DOMAIN incarnations
              \cup (IF ids'.incarnation = ids.incarnation THEN {} ELSE {ids'.incarnation})
<1>1. CASE Registers
  <2>1. PICK inc \in Incarnation : incarnations' = Put(incarnations, ids'.incarnation, inc)
    BY <1>1, RegisterPuts DEF Shape
  <2>2. ids'.incarnation \in Nat /\ ids'.incarnation # ids.incarnation
    <3>1. ids'.incarnation = ids.incarnation + 1
      BY <1>1, RegisterPuts DEF Shape
    <3> QED BY <3>1 DEF Shape, AuthorityType
  <2>3. incarnations' \in [DOMAIN incarnations' -> Incarnation]
    BY <2>1, PutType DEF Shape, WellFormed
  <2>4. DOMAIN incarnations' = DOMAIN incarnations \cup {ids'.incarnation}
    BY <2>1 DEF Put
  <2> QED BY <2>2, <2>3, <2>4 DEF Shape
<1>2. CASE ~Registers
  <2>1. /\ DOMAIN incarnations' = DOMAIN incarnations
        /\ incarnations' \in [DOMAIN incarnations -> Incarnation]
    BY <1>2, IncarnationsUpdated DEF Shape, Registers
  <2>2. ids'.incarnation = ids.incarnation
    BY <1>2, RegistrationsNumber DEF Shape
  <2> QED BY <2>1, <2>2 DEF Shape
<1> QED BY <1>1, <1>2


LEMMA PlansStay ==
  ASSUME Shape, [Next]_vars
  PROVE  /\ replacement_plans' \in [DOMAIN replacement_plans' -> ReplacementPlan]
         /\ \A r \in DOMAIN replacement_plans' :
              /\ replacement_plans'[r].old \in DOMAIN incarnations
              /\ replacement_plans'[r].candidate \in DOMAIN incarnations
<1> DEFINE Good == /\ replacement_plans' \in [DOMAIN replacement_plans' -> ReplacementPlan]
                   /\ \A r \in DOMAIN replacement_plans' :
                        /\ replacement_plans'[r].old \in DOMAIN incarnations
                        /\ replacement_plans'[r].candidate \in DOMAIN incarnations
<1>0. /\ replacement_plans \in [DOMAIN replacement_plans -> ReplacementPlan]
      /\ \A r \in DOMAIN replacement_plans :
           /\ replacement_plans[r].old \in DOMAIN incarnations
           /\ replacement_plans[r].candidate \in DOMAIN incarnations
  BY DEF Shape, WellFormed
<1>1. CASE UNCHANGED replacement_plans
  BY <1>0, <1>1
<1>2. ASSUME NEW old \in DOMAIN incarnations, NEW cand \in DOMAIN incarnations,
             BeginReplacement(old, cand)
      PROVE  Good
  <2> DEFINE id == ids.replacement + 1
             plan == [old |-> old, candidate |-> cand, epoch |-> authority.epoch,
                      phase |-> "PREPARING"]
  <2>1. replacement_plans' = Put(replacement_plans, id, plan)
    BY <1>2 DEF BeginReplacement
  <2>2. old \in Nat /\ cand \in Nat /\ authority.epoch \in Nat
    BY DEF Shape, AuthorityType
  <2>3. plan \in ReplacementPlan /\ plan.old = old /\ plan.candidate = cand
    BY <2>2 DEF ReplacementPlan
  <2> HIDE DEF id, plan
  <2>4. replacement_plans' \in [DOMAIN replacement_plans' -> ReplacementPlan]
    BY <1>0, <2>1, <2>3, PutType
  <2>5. /\ DOMAIN replacement_plans' = DOMAIN replacement_plans \cup {id}
        /\ replacement_plans'[id] = plan
        /\ \A r \in DOMAIN replacement_plans :
             r # id => replacement_plans'[r] = replacement_plans[r]
    BY <2>1 DEF Put
  <2> QED BY <1>0, <2>3, <2>4, <2>5
<1>3. ASSUME NEW r \in DOMAIN replacement_plans, NEW ph \in {"CUTOVER", "COMPLETE"},
             replacement_plans' = [replacement_plans EXCEPT ![r] =
                                     [replacement_plans[r] EXCEPT !.phase = ph]]
      PROVE  Good
  <2> DEFINE plan == [replacement_plans[r] EXCEPT !.phase = ph]
  <2>1. /\ plan \in ReplacementPlan /\ plan.old = replacement_plans[r].old
        /\ plan.candidate = replacement_plans[r].candidate
    BY <1>0 DEF ReplacementPlan
  <2> HIDE DEF plan
  <2>2. replacement_plans' = [replacement_plans EXCEPT ![r] = plan]
    BY <1>3 DEF plan
  <2>3. /\ DOMAIN replacement_plans' = DOMAIN replacement_plans
        /\ replacement_plans' \in [DOMAIN replacement_plans -> ReplacementPlan]
    BY <1>0, <2>1, <2>2, ReplaceType
  <2>4. \A q \in DOMAIN replacement_plans :
          /\ replacement_plans'[q].old = replacement_plans[q].old
          /\ replacement_plans'[q].candidate = replacement_plans[q].candidate
    BY <1>0, <2>1, <2>2
  <2> QED BY <1>0, <2>3, <2>4
<1>4. \/ UNCHANGED replacement_plans
      \/ \E i, cand \in DOMAIN incarnations : BeginReplacement(i, cand)
      \/ \E r \in DOMAIN replacement_plans, ph \in {"CUTOVER", "COMPLETE"} :
             replacement_plans' = [replacement_plans EXCEPT ![r] =
                                     [replacement_plans[r] EXCEPT !.phase = ph]]
  BY DEF Next, Operations, vars, regVars, useVars, IssueRegistrationPermit, FenceWorker,
         RegisterIncarnation, AdvanceEpoch, UpdateEngineConfig, MarkRunning, Revalidate,
         InvalidateComponents, PublishReady, PublishComponent, EvidenceExpires, AcquireServingUse,
         Activate, RequestDrain, AcknowledgeBackendCleanup,
         ReleaseServingUse, CommitCutover, RetireOld
<1> HIDE DEF Good
<1>5. Good
  BY <1>1, <1>2, <1>3, <1>4 DEF Good
<1> QED BY <1>5 DEF Good

\* What a step makes of the evidence under an identity: a registration leaves
\* it alone, or finds none.
LEMMA EvidenceStays ==
  ASSUME Shape, [Next]_vars
  PROVE  EvidenceType'
<1>0. verified \in [DOMAIN incarnations -> SUBSET Category]
  BY DEF Shape, EvidenceType
<1>1. CASE Registers
  <2>1. PICK id, inc : /\ incarnations' = Put(incarnations, id, inc)
                       /\ verified' = Put(verified, id, EvidenceUnder(id))
    BY <1>1, RegisterPuts DEF Shape
  <2>2. EvidenceUnder(id) \in SUBSET Category
    BY <1>0 DEF EvidenceUnder
  <2>3. verified' \in [DOMAIN verified' -> SUBSET Category]
    BY <1>0, <2>1, <2>2, PutType
  <2>4. DOMAIN verified' = DOMAIN incarnations'
    BY <1>0, <2>1 DEF Put
  <2> QED BY <2>3, <2>4 DEF EvidenceType
<1>2. CASE ~Registers
  <2>1. \/ verified' = verified
        \/ \E i \in DOMAIN incarnations : InvalidateComponents(i)
        \/ \E i \in DOMAIN incarnations, c \in Category :
             PublishComponent(i, c) \/ EvidenceExpires(i, c)
    BY <1>2 DEF Registers, Next, Operations, vars, regVars, useVars,
         IssueRegistrationPermit, FenceWorker, AdvanceEpoch, UpdateEngineConfig,
         MarkRunning, Revalidate, PublishReady, AcquireServingUse, Activate, RequestDrain,
         AcknowledgeBackendCleanup, BeginReplacement, ReleaseServingUse, CommitCutover,
         RetireOld
  <2>2. DOMAIN incarnations' = DOMAIN incarnations
    BY <1>2, IncarnationsUpdated DEF Shape, Registers
  <2>3. verified' \in [DOMAIN incarnations -> SUBSET Category]
    BY <1>0, <2>1 DEF InvalidateComponents, PublishComponent, EvidenceExpires
  <2> QED BY <2>2, <2>3 DEF EvidenceType
<1> QED BY <1>1, <1>2

LEMMA ShapeStep ==
  ASSUME Shape, [Next]_vars, life' = life
  PROVE  Shape'
<1>1. AuthorityType' /\ PermitsType'
  BY AuthorityStep, PermitsStep DEF Shape
<1>2. EvidenceType' /\ WellFormed' /\ DOMAIN incarnations' \subseteq Nat
  BY EvidenceStays, IncarnationsStay, PlansStay DEF WellFormed
<1>3. replacement_plans' \in [DOMAIN replacement_plans' -> ReplacementPlan]
  BY PlansStay
<1> QED BY <1>1, <1>2, <1>3 DEF Shape

\* The epoch only advances.
LEMMA EpochGrows ==
  ASSUME AuthorityType, [Next]_vars
  PROVE  authority'.epoch >= authority.epoch /\ authority.epoch \in Nat /\ authority'.epoch \in Nat
<1>1. \/ authority' = authority
      \/ authority' = [epoch |-> authority.epoch + 1,
                       generation |-> authority.generation + 1]
  BY DEF Next, Operations, vars, regVars, useVars, IssueRegistrationPermit, FenceWorker,
         RegisterIncarnation, AdvanceEpoch, UpdateEngineConfig, MarkRunning, Revalidate,
         InvalidateComponents, PublishReady, PublishComponent, EvidenceExpires, AcquireServingUse,
         Activate, RequestDrain, AcknowledgeBackendCleanup, BeginReplacement,
         ReleaseServingUse, CommitCutover, RetireOld
<1> QED BY <1>1 DEF AuthorityType


\* The identity a step registers, as Operation reads it off the counter.
Registered == IF ids'.incarnation = ids.incarnation THEN {} ELSE {ids'.incarnation}

\* What a step makes of an incarnation it does not register.
LEMMA OthersEvolve ==
  ASSUME Shape, [Next]_vars, NEW i \in DOMAIN incarnations, i \notin Registered
  PROVE  LET old == incarnations[i]
             new == incarnations'[i]
         IN  /\ new.epoch = old.epoch
             /\ Withdrawn(old) => Withdrawn(new)
             /\ new.activation = "ACTIVE" =>
                  /\ new.registration = old.registration
                  /\ old.activation = "ACTIVE" \/ old.registration # "FENCED"
<1>0. incarnations[i] \in Incarnation
  BY DEF Shape, WellFormed
<1>1. CASE Registers
  <2>1. PICK inc : incarnations' = Put(incarnations, ids'.incarnation, inc)
    BY <1>1, RegisterPuts DEF Shape
  <2>2. ids'.incarnation # ids.incarnation
    <3>1. ids'.incarnation = ids.incarnation + 1
      BY <1>1, RegisterPuts DEF Shape
    <3> QED BY <3>1 DEF Shape, AuthorityType
  <2>3. incarnations'[i] = incarnations[i]
    BY <2>1, <2>2 DEF Registered, Put
  <2> QED BY <2>3
<1>2. CASE Fences
  <2>1. PICK w \in Worker, b \in Boot : FenceWorker(w, b)
    BY <1>2 DEF Fences
  <2>2. LET old == incarnations[i]
            new == incarnations'[i]
        IN  /\ new.epoch = old.epoch /\ (Withdrawn(old) => Withdrawn(new))
            /\ IF old.worker = w /\ old.boot = b
               THEN new.registration = "FENCED" /\ new.activation = "FENCED"
               ELSE new = old
    BY <2>1, FenceEffect DEF Shape
  <2> QED BY <2>2
<1>3. CASE ~Registers /\ ~Fences
  <2>1. Evolved(incarnations[i], incarnations'[i])
    BY <1>3, UpdatesEvolve DEF Shape, Registers, Fences
  <2> QED BY <2>1 DEF Evolved
<1> QED BY <1>1, <1>2, <1>3

\* What a registered incarnation starts as.
LEMMA NewcomerIs ==
  ASSUME Shape, [Next]_vars, NEW i \in Registered
  PROVE  /\ Registers /\ i = ids'.incarnation /\ authority' = authority
         /\ incarnations'[i].epoch = authority.epoch
         /\ incarnations'[i].registration = "REGISTERED"
         /\ incarnations'[i].recovery = "NOMINAL"
         /\ incarnations'[i].activation = "INACTIVE"
<1>1. Registers /\ i = ids'.incarnation
  BY RegistrationsNumber DEF Registered, Shape
<1>2. PICK inc \in Incarnation :
        /\ incarnations' = Put(incarnations, ids'.incarnation, inc)
        /\ inc.epoch = authority.epoch /\ inc.registration = "REGISTERED"
        /\ inc.recovery = "NOMINAL" /\ inc.activation = "INACTIVE"
  BY <1>1, RegisterPuts DEF Shape
<1>3. authority' = authority
  BY <1>1, RegisterPuts DEF Shape
<1>4. incarnations'[i] = inc
  BY <1>1, <1>2 DEF Put
<1> QED BY <1>1, <1>2, <1>3, <1>4

LEMMA HonestStep ==
  ASSUME Shape, AuthorityIsHonest, [Next]_vars, restored' = restored \ Registered
  PROVE  AuthorityIsHonest'
<1>1. DOMAIN incarnations' = DOMAIN incarnations \cup Registered
  BY IncarnationsStay DEF Registered
<1>2. /\ authority'.epoch >= authority.epoch
      /\ authority.epoch \in Nat /\ authority'.epoch \in Nat
  BY EpochGrows DEF Shape
<1>3. \A i \in DOMAIN incarnations : incarnations[i].epoch \in Nat
  BY DEF Shape, WellFormed, Incarnation
<1>4. ASSUME NEW i \in DOMAIN incarnations, i \notin Registered
      PROVE  /\ incarnations'[i].epoch <= authority'.epoch
             /\ i \in restored => incarnations'[i].epoch < authority'.epoch
             /\ Withdrawn(incarnations'[i])
             /\ incarnations'[i].registration = "FENCED" =>
                  incarnations'[i].activation # "ACTIVE"
  BY <1>2, <1>3, <1>4, OthersEvolve DEF AuthorityIsHonest
<1>5. ASSUME NEW i \in Registered
      PROVE  /\ incarnations'[i].epoch <= authority'.epoch
             /\ Withdrawn(incarnations'[i])
             /\ incarnations'[i].registration = "FENCED" =>
                  incarnations'[i].activation # "ACTIVE"
  BY <1>2, NewcomerIs DEF Withdrawn
<1>6. restored' \subseteq DOMAIN incarnations'
  BY <1>1 DEF AuthorityIsHonest
<1>7. \A i \in restored' : incarnations'[i].epoch < authority'.epoch
  BY <1>4 DEF AuthorityIsHonest
<1>8. \A i \in DOMAIN incarnations' :
        /\ incarnations'[i].epoch <= authority'.epoch
        /\ Withdrawn(incarnations'[i])
        /\ incarnations'[i].registration = "FENCED" => incarnations'[i].activation # "ACTIVE"
  BY <1>1, <1>4, <1>5
<1> QED BY <1>6, <1>7, <1>8 DEF AuthorityIsHonest, Withdrawn

LEMMA OperationKeeps == RecoveryInv /\ Operation => RecoveryInv'
<1> SUFFICES ASSUME RecoveryInv, Operation PROVE RecoveryInv'
  OBVIOUS
<1>1. /\ Next /\ restored' = restored \ Registered
      /\ UNCHANGED <<file, saved, saving, life>>
  BY DEF Operation, Registered
<1>2. Shape'
  BY <1>1, ShapeStep DEF RecoveryInv
<1>3. AuthorityIsHonest'
  BY <1>1, HonestStep DEF RecoveryInv
<1>4. SavedShape'
  BY <1>1 DEF RecoveryInv, SavedShape
<1> QED BY <1>2, <1>3, <1>4 DEF RecoveryInv

-----------------------------------------------------------------------------
(* Saving and restarting *)

LEMMA ShapeSame ==
  ASSUME Shape, AuthorityIsHonest, UNCHANGED <<vars, life, restored>>
  PROVE  Shape' /\ AuthorityIsHonest'
<1>1. UNCHANGED <<authority, config_generation, incarnations, verified, permits, fenced,
                  replacement_plans, ids, life, restored>>
  BY DEF vars
<1>2. Shape'
  BY <1>1 DEF Shape, AuthorityType, PermitsType, EvidenceType, WellFormed
<1>3. AuthorityIsHonest'
  BY <1>1 DEF AuthorityIsHonest, Withdrawn
<1> QED BY <1>2, <1>3

LEMMA FileKeeps == RecoveryInv /\ (OpenFile \/ CloseFile) => RecoveryInv'
<1> SUFFICES ASSUME RecoveryInv, OpenFile \/ CloseFile PROVE RecoveryInv'
  OBVIOUS
<1>1. Shape' /\ AuthorityIsHonest'
  BY ShapeSame DEF RecoveryInv, OpenFile, CloseFile
<1>2. CASE OpenFile
  <2>1. /\ saved'.authority = authority /\ saved'.config_generation = config_generation
        /\ saved'.incarnations = incarnations
        /\ saved'.replacement_plans = replacement_plans
    BY <1>2 DEF OpenFile, Serialize
  <2>2. /\ authority \in [epoch : Nat, generation : Nat]
        /\ config_generation \in [Engine -> Nat]
    BY DEF RecoveryInv, Shape, AuthorityType
  <2>3. /\ DOMAIN incarnations \subseteq Nat
        /\ incarnations \in [DOMAIN incarnations -> Incarnation]
        /\ replacement_plans \in [DOMAIN replacement_plans -> ReplacementPlan]
        /\ \A r \in DOMAIN replacement_plans :
             /\ replacement_plans[r].old \in DOMAIN incarnations
             /\ replacement_plans[r].candidate \in DOMAIN incarnations
        /\ \A i \in DOMAIN incarnations : incarnations[i].epoch <= authority.epoch
    BY DEF RecoveryInv, Shape, WellFormed, AuthorityIsHonest
  <2>4. SavedShape'
    BY <2>1, <2>2, <2>3 DEF SavedShape
  <2> QED BY <1>1, <2>4 DEF RecoveryInv
<1>3. CASE CloseFile
  <2>1. saving /\ saved' = saved
    BY <1>3 DEF CloseFile
  <2>2. SavedShape'
    BY <2>1 DEF RecoveryInv, SavedShape
  <2> QED BY <1>1, <2>2 DEF RecoveryInv
<1> QED BY <1>2, <1>3


\* What load makes of a saved incarnation.
LEMMA RestoredIs ==
  ASSUME NEW inc \in Incarnation
  PROVE  /\ RestoredIncarnation(inc) \in Incarnation
         /\ RestoredIncarnation(inc).epoch = inc.epoch
         /\ ~RestoredIncarnation(inc).is_current
         /\ RestoredIncarnation(inc).activation = "INACTIVE"
BY DEF RestoredIncarnation, Incarnation, Recovery, Activation

LEMMA LoadKeeps ==
  ASSUME RecoveryInv, Restart, Load
  PROVE  RecoveryInv'
<1>1. /\ file = "whole" /\ file' = file /\ saved' = saved
      /\ saving' = FALSE /\ life' = life + 1
  BY DEF Restart, Load, Readable
<1>2. /\ authority' = [epoch |-> saved.authority.epoch + 1,
                       generation |-> saved.authority.generation + 1]
      /\ config_generation' = saved.config_generation
      /\ replacement_plans' = saved.replacement_plans
      /\ permits' = NoMap /\ fenced' = [w \in Worker |-> {}]
  BY DEF Restart, Load
<1>3. /\ incarnations' = [i \in DOMAIN saved.incarnations |->
                            RestoredIncarnation(saved.incarnations[i])]
      /\ verified' = [i \in DOMAIN saved.incarnations |-> {}]
      /\ ids' = [k \in DOMAIN ids |-> RecoveredIds]
      /\ restored' = DOMAIN saved.incarnations
  BY DEF Load, RestoredEvidence
<1>4. /\ saved.authority \in [epoch : Nat, generation : Nat]
      /\ saved.config_generation \in [Engine -> Nat]
      /\ DOMAIN saved.incarnations \subseteq Nat
      /\ \A i \in DOMAIN saved.incarnations :
           /\ saved.incarnations[i] \in Incarnation
           /\ saved.incarnations[i].epoch <= saved.authority.epoch
      /\ saved.replacement_plans \in [DOMAIN saved.replacement_plans -> ReplacementPlan]
      /\ \A r \in DOMAIN saved.replacement_plans :
           /\ saved.replacement_plans[r].old \in DOMAIN saved.incarnations
           /\ saved.replacement_plans[r].candidate \in DOMAIN saved.incarnations
  BY <1>1 DEF RecoveryInv, SavedShape
<1>5. DOMAIN incarnations' = DOMAIN saved.incarnations
  BY <1>3
<1>6. \A i \in DOMAIN incarnations' :
        /\ incarnations'[i] \in Incarnation
        /\ incarnations'[i].epoch = saved.incarnations[i].epoch
        /\ ~incarnations'[i].is_current /\ incarnations'[i].activation = "INACTIVE"
  BY <1>3, <1>4, <1>5, RestoredIs
<1>7. AuthorityType'
  <2>1. ids' \in [incarnation : Nat, permit : Nat, use : Nat, replacement : Nat]
    BY <1>3, RecoveryAssumption DEF RecoveryInv, Shape, AuthorityType
  <2>2. authority' \in [epoch : Nat, generation : Nat]
    BY <1>2, <1>4
  <2>3. fenced' \in [Worker -> SUBSET Boot]
    BY <1>2
  <2> QED BY <1>2, <1>4, <2>1, <2>2, <2>3 DEF AuthorityType
<1>8. PermitsType' /\ EvidenceType'
  BY <1>2, <1>3, <1>5 DEF PermitsType, EvidenceType, NoMap
<1>9. WellFormed'
  <2>1. incarnations' \in [DOMAIN incarnations' -> Incarnation]
    BY <1>3, <1>4, <1>5, RestoredIs
  <2> QED BY <1>2, <1>4, <1>5, <2>1 DEF WellFormed
<1>10. Shape'
  BY <1>1, <1>2, <1>4, <1>5, <1>7, <1>8, <1>9 DEF RecoveryInv, Shape
<1>11. authority'.epoch = saved.authority.epoch + 1 /\ saved.authority.epoch \in Nat
  BY <1>2, <1>4
<1>12. \A i \in DOMAIN saved.incarnations : saved.incarnations[i].epoch \in Nat
  BY <1>4 DEF Incarnation
<1>13. AuthorityIsHonest'
  <2>1. \A i \in DOMAIN incarnations' : incarnations'[i].epoch < authority'.epoch
    BY <1>4, <1>5, <1>6, <1>11, <1>12
  <2>2. \A i \in DOMAIN incarnations' : incarnations'[i].epoch \in Nat
    BY <1>5, <1>6, <1>12
  <2>3. \A i \in DOMAIN incarnations' :
          /\ incarnations'[i].epoch <= authority'.epoch
          /\ ~incarnations'[i].is_current
          /\ incarnations'[i].activation # "ACTIVE"
    BY <1>6, <1>11, <2>1, <2>2
  <2>4. restored' = DOMAIN incarnations'
    BY <1>3, <1>5
  <2> QED BY <2>1, <2>3, <2>4 DEF AuthorityIsHonest, Withdrawn
<1>14. SavedShape'
  BY <1>1 DEF RecoveryInv, SavedShape
<1> QED BY <1>10, <1>13, <1>14 DEF RecoveryInv

LEMMA AfreshKeeps ==
  ASSUME RecoveryInv, Restart, StartAfresh
  PROVE  RecoveryInv'
<1>1. /\ file # "whole" /\ file' = file /\ saving' = FALSE /\ life' = life + 1
      /\ permits' = NoMap /\ fenced' = [w \in Worker |-> {}]
  BY DEF Restart, StartAfresh, Readable
<1>2. /\ authority' = [epoch |-> 1, generation |-> 1]
      /\ config_generation' = [e \in Engine |-> 1]
      /\ incarnations' = NoMap /\ verified' = NoMap /\ replacement_plans' = NoMap
      /\ ids' = [k \in DOMAIN ids |-> 0] /\ restored' = {}
  BY DEF StartAfresh
<1>3. ids' \in [incarnation : Nat, permit : Nat, use : Nat, replacement : Nat]
  BY <1>2 DEF RecoveryInv, Shape, AuthorityType
<1>4. DOMAIN NoMap = {} /\ \A S : NoMap \in [{} -> S]
  BY DEF NoMap
<1>5. AuthorityType' /\ PermitsType' /\ EvidenceType' /\ WellFormed'
  BY <1>1, <1>2, <1>3, <1>4 DEF AuthorityType, PermitsType, EvidenceType, WellFormed
<1>6. Shape'
  BY <1>1, <1>2, <1>4, <1>5 DEF RecoveryInv, Shape
<1>7. AuthorityIsHonest'
  BY <1>2, <1>4 DEF AuthorityIsHonest
<1>8. SavedShape'
  BY <1>1 DEF SavedShape
<1> QED BY <1>6, <1>7, <1>8 DEF RecoveryInv

LEMMA RecoveryInvariant == RecSpec => []RecoveryInv
<1>1. RecInit => RecoveryInv
  <2> SUFFICES ASSUME RecInit PROVE RecoveryInv
    OBVIOUS
  <2>1. TypeOK
    BY TypeInit DEF RecInit
  <2>2. DOMAIN incarnations = {} /\ DOMAIN replacement_plans = {}
    BY DEF RecInit, Init, NoMap
  <2>3. Shape
    BY <2>1, <2>2, TypeWellFormed DEF Shape, TypeOK, RecInit, ReplacementsType
  <2>4. SavedShape /\ AuthorityIsHonest
    BY <2>2 DEF RecInit, SavedShape, AuthorityIsHonest
  <2> QED BY <2>3, <2>4 DEF RecoveryInv
<1>2. RecoveryInv /\ [RecNext]_<<vars, recVars>> => RecoveryInv'
  <2> SUFFICES ASSUME RecoveryInv, [RecNext]_<<vars, recVars>> PROVE RecoveryInv'
    OBVIOUS
  <2>1. CASE Operation
    BY <2>1, OperationKeeps
  <2>2. CASE OpenFile \/ CloseFile
    BY <2>2, FileKeeps
  <2>3. CASE Restart
    BY <2>3, LoadKeeps, AfreshKeeps DEF Restart
  <2>4. CASE UNCHANGED <<vars, recVars>>
    <3>1. Shape' /\ AuthorityIsHonest'
      BY <2>4, ShapeSame DEF RecoveryInv, recVars
    <3>2. SavedShape'
      BY <2>4 DEF RecoveryInv, SavedShape, recVars
    <3> QED BY <3>1, <3>2 DEF RecoveryInv
  <2> QED BY <2>1, <2>2, <2>3, <2>4 DEF RecNext
<1> QED BY <1>1, <1>2, PTL DEF RecSpec

\* load: whatever was saved, and however often the coordinator restarts, what it
\* restores is of an earlier epoch and not current until it is revalidated,
\* activated or cut over to.
THEOREM RestoredCorrect == RecSpec => []RestoredHoldsNoAuthority
<1>1. RecoveryInv => RestoredHoldsNoAuthority
  BY DEF RecoveryInv, AuthorityIsHonest, Withdrawn, RestoredHoldsNoAuthority
<1> QED BY <1>1, RecoveryInvariant, PTL

\* publish_component and activate read the fence off the incarnation, which is
\* saved, so a fence holds in every life although the list of fenced boots is lost.
THEOREM FenceRestartCorrect == RecSpec => FenceOutlivesRestart
<1> DEFINE Holds == \A i \in DOMAIN incarnations :
              incarnations[i].registration = "FENCED" /\ life' = life =>
                /\ published'[i] \subseteq published[i]
                /\ incarnations'[i].activation # "ACTIVE"
<1>1. RecoveryInv /\ [RecNext]_<<vars, recVars>> => [Holds]_<<vars, recVars>>
  <2> SUFFICES ASSUME RecoveryInv, RecNext,
                      NEW i \in DOMAIN incarnations,
                      incarnations[i].registration = "FENCED", life' = life
               PROVE  /\ published'[i] \subseteq published[i]
                      /\ incarnations'[i].activation # "ACTIVE"
    OBVIOUS
  <2>1. incarnations[i].activation # "ACTIVE"
    BY DEF RecoveryInv, AuthorityIsHonest
  <2>2. CASE OpenFile \/ CloseFile
    BY <2>1, <2>2 DEF OpenFile, CloseFile, vars
  <2>3. CASE Restart
    BY <2>3 DEF Restart, RecoveryInv, Shape
  <2>4. CASE Operation
    <3>1. /\ Next /\ i \in DOMAIN incarnations'
          /\ published'[i] = IF i \in Registered THEN {}
                             ELSE published[i] \cup (verified'[i] \ verified[i])
      BY <2>4, IncarnationsStay DEF Operation, Registered, RecoveryInv
    <3>2. CASE i \in Registered
      BY <3>1, <3>2, NewcomerIs DEF RecoveryInv
    <3>3. CASE i \notin Registered
      <4>1. incarnations'[i].activation # "ACTIVE"
        BY <2>1, <3>1, <3>3, OthersEvolve DEF RecoveryInv
      <4>2. verified'[i] \subseteq verified[i]
        <5>1. CASE Registers
          <6>1. ids'.incarnation # ids.incarnation
            <7>1. ids'.incarnation = ids.incarnation + 1
              BY <5>1, RegisterPuts DEF RecoveryInv, Shape
            <7> QED BY <7>1 DEF RecoveryInv, Shape, AuthorityType
          <6>2. PICK S : verified' = Put(verified, ids'.incarnation, S)
            BY <5>1, RegisterPuts DEF RecoveryInv, Shape
          <6> QED BY <3>3, <6>1, <6>2 DEF Registered, Put, RecoveryInv, Shape, EvidenceType
        <5>2. CASE ~Registers
          BY <3>1, <5>2, FencedEvidenceShrinks DEF RecoveryInv, Shape, Registers
        <5> QED BY <5>1, <5>2
      <4> QED BY <3>1, <3>3, <4>1, <4>2
    <3> QED BY <3>2, <3>3
  <2> QED BY <2>2, <2>3, <2>4 DEF RecNext
<1> QED BY <1>1, RecoveryInvariant, PTL DEF RecSpec, FenceOutlivesRestart


-----------------------------------------------------------------------------
(* Serving on evidence of this life *)

\* An incarnation that is not from the file has an identity handed out in this
\* life; what is verified was published in it, and so was what uses rest on.
EvidenceIsFresh ==
  /\ DOMAIN incarnations \ restored \subseteq 1 .. ids.incarnation
  /\ \A i \in DOMAIN incarnations : verified[i] \subseteq published[i]
  /\ active_uses \in [DOMAIN active_uses -> ActiveUse]
  /\ \A u \in DOMAIN active_uses :
       /\ active_uses[u].incarnation \in DOMAIN incarnations
       /\ Required \subseteq published[active_uses[u].incarnation]

\* A use that is there after a step was there before it, on the same
\* incarnation, or is admitted by it on one that is ready.
LEMMA UsesStay ==
  ASSUME Shape, EvidenceIsFresh, [Next]_vars
  PROVE  /\ active_uses' \in [DOMAIN active_uses' -> ActiveUse]
         /\ \A u \in DOMAIN active_uses' :
              \/ \E v \in DOMAIN active_uses :
                   active_uses'[u].incarnation = active_uses[v].incarnation
              \/ /\ active_uses'[u].incarnation \in DOMAIN incarnations
                 /\ Ready(active_uses'[u].incarnation)
<1> DEFINE Good == /\ active_uses' \in [DOMAIN active_uses' -> ActiveUse]
                   /\ \A u \in DOMAIN active_uses' :
                        \/ \E v \in DOMAIN active_uses :
                             active_uses'[u].incarnation = active_uses[v].incarnation
                        \/ /\ active_uses'[u].incarnation \in DOMAIN incarnations
                           /\ Ready(active_uses'[u].incarnation)
<1>0. active_uses \in [DOMAIN active_uses -> ActiveUse]
  BY DEF EvidenceIsFresh
<1>1. CASE UNCHANGED active_uses
  BY <1>0, <1>1
<1>2. ASSUME NEW i \in DOMAIN incarnations, NEW g \in 1 .. MaxReadinessGeneration,
             AcquireServingUse(i, g)
      PROVE  Good
  <2> DEFINE id == ids.use + 1
             use == [incarnation |-> i, readiness_generation |-> g, released |-> FALSE]
  <2>1. active_uses' = Put(active_uses, id, use) /\ Ready(i)
    BY <1>2 DEF AcquireServingUse
  <2>2. use \in ActiveUse /\ use.incarnation = i
    BY LimitsAssumption DEF ActiveUse, Shape
  <2> HIDE DEF id, use
  <2>3. active_uses' \in [DOMAIN active_uses' -> ActiveUse]
    BY <1>0, <2>1, <2>2, PutType
  <2>4. /\ DOMAIN active_uses' = DOMAIN active_uses \cup {id}
        /\ active_uses'[id] = use
        /\ \A u \in DOMAIN active_uses : u # id => active_uses'[u] = active_uses[u]
    BY <2>1 DEF Put
  <2> QED BY <2>1, <2>2, <2>3, <2>4
<1>3. ASSUME NEW i \in DOMAIN incarnations, NEW u \in DOMAIN active_uses,
             ReleaseServingUse(u, i)
      PROVE  Good
  <2> DEFINE use == [active_uses[u] EXCEPT !.released = TRUE]
  <2>1. active_uses' = [active_uses EXCEPT ![u] = use]
    BY <1>3 DEF ReleaseServingUse
  <2>2. use \in ActiveUse /\ use.incarnation = active_uses[u].incarnation
    BY <1>0 DEF ActiveUse
  <2> HIDE DEF use
  <2>3. /\ DOMAIN active_uses' = DOMAIN active_uses
        /\ active_uses' \in [DOMAIN active_uses -> ActiveUse]
    BY <1>0, <2>1, <2>2, ReplaceType
  <2>4. \A v \in DOMAIN active_uses :
          active_uses'[v].incarnation = active_uses[v].incarnation
    BY <1>0, <2>1, <2>2
  <2> QED BY <2>3, <2>4
<1>4. \/ UNCHANGED active_uses
      \/ \E i \in DOMAIN incarnations, g \in 1 .. MaxReadinessGeneration :
           AcquireServingUse(i, g)
      \/ \E i \in DOMAIN incarnations, u \in DOMAIN active_uses : ReleaseServingUse(u, i)
  BY ServingSteps DEF RequestDrain, AcknowledgeBackendCleanup, CommitCutover, useVars
<1> HIDE DEF Good
<1>5. Good
  BY <1>1, <1>2, <1>3, <1>4 DEF Good
<1> QED BY <1>5 DEF Good

LEMMA FreshOperation ==
  ASSUME Shape, AuthorityIsHonest, EvidenceIsFresh, Operation, restored' = restored
  PROVE  EvidenceIsFresh'
<1>1. /\ Next /\ restored' = restored \ Registered
      /\ published' = [i \in DOMAIN incarnations' |->
           IF i \in Registered THEN {} ELSE published[i] \cup (verified'[i] \ verified[i])]
  BY DEF Operation, Registered
<1>2. DOMAIN incarnations' = DOMAIN incarnations \cup Registered
  BY <1>1, IncarnationsStay DEF Registered
<1>3. /\ ids.incarnation \in Nat /\ ids'.incarnation \in Nat
      /\ ids'.incarnation >= ids.incarnation
  BY <1>1, IdsStep DEF Shape, AuthorityType
<1>4. Registered \cap DOMAIN incarnations = {}
  <2> SUFFICES ASSUME NEW i \in Registered, i \in DOMAIN incarnations PROVE FALSE
    OBVIOUS
  <2>1. i \notin restored
    BY <1>1
  <2>2. i \in 1 .. ids.incarnation
    BY <2>1 DEF EvidenceIsFresh
  <2>3. i = ids'.incarnation /\ ids'.incarnation = ids.incarnation + 1
    BY <1>1, NewcomerIs, RegisterPuts DEF Shape
  <2> QED BY <1>3, <2>2, <2>3
<1>5. DOMAIN incarnations' \ restored' \subseteq 1 .. ids'.incarnation
  <2>1. \A i \in Registered : i \in 1 .. ids'.incarnation
    <3> SUFFICES ASSUME NEW i \in Registered PROVE i \in 1 .. ids'.incarnation
      OBVIOUS
    <3>1. i = ids'.incarnation /\ ids'.incarnation = ids.incarnation + 1
      BY <1>1, NewcomerIs, RegisterPuts DEF Shape
    <3> QED BY <1>3, <3>1
  <2>2. 1 .. ids.incarnation \subseteq 1 .. ids'.incarnation
    BY <1>3
  <2> QED BY <1>2, <2>1, <2>2 DEF EvidenceIsFresh
<1>6. \A i \in DOMAIN incarnations : published[i] \subseteq published'[i]
  BY <1>1, <1>2, <1>4
<1>7. ASSUME NEW i \in DOMAIN incarnations' PROVE verified'[i] \subseteq published'[i]
  <2>1. CASE i \in Registered
    <3>1. /\ Registers /\ i = ids'.incarnation
      BY <1>1, <2>1, NewcomerIs
    <3>2. verified' = Put(verified, i, EvidenceUnder(i))
      BY <3>1, RegisterPuts DEF Shape
    <3>3. i \notin DOMAIN verified
      BY <1>4, <2>1 DEF Shape, EvidenceType
    <3>4. verified'[i] = {}
      BY <3>2, <3>3 DEF Put, EvidenceUnder
    <3> QED BY <3>4
  <2>2. CASE i \notin Registered
    BY <1>1, <1>2, <2>2 DEF EvidenceIsFresh
  <2> QED BY <2>1, <2>2
<1>8. ASSUME NEW u \in DOMAIN active_uses'
      PROVE  /\ active_uses'[u].incarnation \in DOMAIN incarnations'
             /\ Required \subseteq published'[active_uses'[u].incarnation]
  <2>1. CASE \E v \in DOMAIN active_uses :
               active_uses'[u].incarnation = active_uses[v].incarnation
    BY <1>2, <1>6, <2>1 DEF EvidenceIsFresh
  <2>2. CASE /\ active_uses'[u].incarnation \in DOMAIN incarnations
             /\ Ready(active_uses'[u].incarnation)
    BY <1>2, <1>6, <2>2 DEF EvidenceIsFresh, Ready
  <2> QED BY <1>1, <2>1, <2>2, UsesStay
<1>9. active_uses' \in [DOMAIN active_uses' -> ActiveUse]
  BY <1>1, UsesStay
<1> QED BY <1>5, <1>7, <1>8, <1>9 DEF EvidenceIsFresh

LEMMA FreshRestart ==
  ASSUME Restart
  PROVE  EvidenceIsFresh'
<1>1. active_uses' = NoMap
  BY DEF Restart
<1>2. DOMAIN active_uses' = {} /\ active_uses' \in [DOMAIN active_uses' -> ActiveUse]
  BY <1>1 DEF NoMap
<1>3. CASE Load
  <2>1. /\ DOMAIN incarnations' = DOMAIN saved.incarnations
        /\ restored' = DOMAIN saved.incarnations
        /\ verified' = [i \in DOMAIN saved.incarnations |-> {}]
    BY <1>3 DEF Load, RestoredEvidence
  <2> QED BY <1>2, <2>1 DEF EvidenceIsFresh
<1>4. CASE StartAfresh
  <2>1. DOMAIN incarnations' = {}
    BY <1>4 DEF StartAfresh, NoMap
  <2> QED BY <1>2, <2>1 DEF EvidenceIsFresh
<1> QED BY <1>3, <1>4 DEF Restart

\* load and acquire_serving_use: as long as no registration takes the identity of
\* a restored incarnation, a use rests on evidence published in this life of the
\* coordinator, however often it restarted.  (The condition is what the counters
\* are meant to guarantee; it fails after a second restart, and the evidence kept
\* under the identity is then taken for the newcomer's.)
THEOREM FreshEvidenceCorrect ==
  RecSpec /\ RestoredIdentitiesAreKept => []ServedOnFreshEvidence
<1> DEFINE Kept == life' = life => restored' = restored
<1>1. RecInit => EvidenceIsFresh
  BY DEF RecInit, Init, NoMap, EvidenceIsFresh
<1>2. RecoveryInv /\ EvidenceIsFresh /\ [RecNext]_<<vars, recVars>> /\ [Kept]_<<vars, recVars>>
        => EvidenceIsFresh'
  <2> SUFFICES ASSUME RecoveryInv, EvidenceIsFresh, [RecNext]_<<vars, recVars>>,
                      [Kept]_<<vars, recVars>>
               PROVE  EvidenceIsFresh'
    OBVIOUS
  <2>1. CASE Operation
    <3>1. restored' = restored
      BY <2>1 DEF Operation, recVars
    <3> QED BY <2>1, <3>1, FreshOperation DEF RecoveryInv
  <2>2. CASE Restart
    BY <2>2, FreshRestart
  <2>3. CASE UNCHANGED <<vars, restored, published>>
    BY <2>3 DEF EvidenceIsFresh, vars
  <2> QED BY <2>1, <2>2, <2>3 DEF RecNext, OpenFile, CloseFile, recVars
<1>3. EvidenceIsFresh => ServedOnFreshEvidence
  BY DEF EvidenceIsFresh, ServedOnFreshEvidence
<1> QED BY <1>1, <1>2, <1>3, RecoveryInvariant, PTL DEF RecSpec, RestoredIdentitiesAreKept


-----------------------------------------------------------------------------
(* Identities over one restart *)

\* Before the first restart identities stay within the limit that the counters
\* resume above; after it, what was restored lies below them.
IdentitiesApart ==
  /\ life <= 2
  /\ life = 1 => /\ TypeOK /\ IdentitiesBounded /\ restored = {}
                 /\ file = "whole" \/ saving =>
                      DOMAIN saved.incarnations \subseteq 1 .. MaxIncarnations
  /\ restored \subseteq 1 .. ids.incarnation

LEMMA ApartOperation ==
  ASSUME Shape, IdentitiesApart, Operation
  PROVE  IdentitiesApart' /\ restored' = restored
<1>1. /\ Next /\ restored' = restored \ Registered
      /\ UNCHANGED <<file, saved, saving, life>>
  BY DEF Operation, Registered
<1>2. /\ ids.incarnation \in Nat /\ ids'.incarnation \in Nat
      /\ ids'.incarnation >= ids.incarnation
  BY <1>1, IdsStep DEF Shape, AuthorityType
<1>3. \A i \in Registered : i \notin 1 .. ids.incarnation
  <2> SUFFICES ASSUME NEW i \in Registered PROVE i \notin 1 .. ids.incarnation
    OBVIOUS
  <2>1. i = ids'.incarnation /\ ids'.incarnation = ids.incarnation + 1
    BY <1>1, NewcomerIs, RegisterPuts DEF Shape
  <2> QED BY <1>2, <2>1
<1>4. restored' = restored
  BY <1>1, <1>3 DEF IdentitiesApart
<1>5. 1 .. ids.incarnation \subseteq 1 .. ids'.incarnation
  BY <1>2
<1>6. CASE life = 1
  <2>1. TypeOK' /\ IdentitiesBounded'
    BY <1>1, <1>6, TypeStep, IdentitiesStep DEF IdentitiesApart
  <2> QED BY <1>1, <1>4, <1>5, <1>6, <2>1 DEF IdentitiesApart
<1>7. CASE life # 1
  BY <1>1, <1>4, <1>5, <1>7 DEF IdentitiesApart
<1> QED BY <1>6, <1>7

LEMMA ApartRestart ==
  ASSUME Shape, IdentitiesApart, MaxLives <= 2, Restart
  PROVE  IdentitiesApart'
<1>1. life = 1 /\ life' = 2
  BY RecoveryAssumption DEF Shape, Restart
<1>2. CASE Load
  <2>1. /\ file = "whole" /\ restored' = DOMAIN saved.incarnations
        /\ ids' = [k \in DOMAIN ids |-> RecoveredIds]
    BY <1>2 DEF Load, Readable
  <2>2. ids'.incarnation = RecoveredIds
    BY <2>1 DEF Shape, AuthorityType
  <2>3. restored' \subseteq 1 .. MaxIncarnations
    BY <1>1, <2>1 DEF IdentitiesApart
  <2>4. 1 .. MaxIncarnations \subseteq 1 .. RecoveredIds
    BY RecoveryAssumption, LimitsAssumption
  <2> QED BY <1>1, <2>2, <2>3, <2>4 DEF IdentitiesApart
<1>3. CASE StartAfresh
  BY <1>1, <1>3 DEF StartAfresh, IdentitiesApart
<1> QED BY <1>2, <1>3 DEF Restart

LEMMA ApartFile ==
  ASSUME IdentitiesApart, OpenFile \/ CloseFile
  PROVE  IdentitiesApart'
<1>1. UNCHANGED <<vars, life, restored>>
  BY DEF OpenFile, CloseFile
<1>2. ids' = ids /\ (TypeOK => TypeOK') /\ (IdentitiesBounded => IdentitiesBounded')
  <2>1. TypeOK => TypeOK'
    BY <1>1, TypeStep
  <2>2. IdentitiesBounded => IdentitiesBounded'
    BY <1>1 DEF IdentitiesBounded, vars
  <2> QED BY <1>1, <2>1, <2>2 DEF vars
<1>3. CASE OpenFile
  <2>1. saved'.incarnations = incarnations
    BY <1>3 DEF OpenFile, Serialize
  <2>2. life = 1 => DOMAIN saved'.incarnations \subseteq 1 .. MaxIncarnations
    <3>1. life = 1 => /\ DOMAIN incarnations = 1 .. ids.incarnation /\ ids.incarnation \in Nat
                      /\ ids.incarnation <= MaxIncarnations
      BY DEF IdentitiesApart, IdentitiesBounded, TypeOK, AuthorityType
    <3> QED BY <2>1, <3>1, LimitsAssumption
  <2> QED BY <1>1, <1>2, <2>2 DEF IdentitiesApart
<1>4. CASE CloseFile
  <2>1. saving /\ saved' = saved
    BY <1>4 DEF CloseFile
  <2> QED BY <1>1, <1>2, <2>1 DEF IdentitiesApart
<1> QED BY <1>3, <1>4

\* runtime.cpp, in load, promises that a fresh registration never collides with a
\* restored identity.  That is so for one restart, whatever was saved and whatever
\* the limit on incarnations the counters resume above; claim_identity has the second.
THEOREM IdentitiesKeptCorrect ==
  ASSUME MaxLives <= 2
  PROVE  RecSpec => RestoredIdentitiesAreKept
<1> DEFINE Kept == life' = life => restored' = restored
<1>1. RecInit => IdentitiesApart
  <2> SUFFICES ASSUME RecInit PROVE IdentitiesApart
    OBVIOUS
  <2>1. TypeOK
    BY TypeInit DEF RecInit
  <2>2. IdentitiesBounded
    BY LimitsAssumption DEF RecInit, Init, IdentitiesBounded, NoMap
  <2> QED BY <2>1, <2>2 DEF RecInit, IdentitiesApart
<1>2. RecoveryInv /\ IdentitiesApart /\ [RecNext]_<<vars, recVars>>
        => IdentitiesApart' /\ [Kept]_<<vars, recVars>>
  <2> SUFFICES ASSUME RecoveryInv, IdentitiesApart, [RecNext]_<<vars, recVars>>
               PROVE  IdentitiesApart' /\ [Kept]_<<vars, recVars>>
    OBVIOUS
  <2>1. CASE Operation
    BY <2>1, ApartOperation DEF RecoveryInv
  <2>2. CASE OpenFile \/ CloseFile
    BY <2>2, ApartFile DEF OpenFile, CloseFile
  <2>3. CASE Restart
    <3>1. life' # life
      BY <2>3 DEF Restart, RecoveryInv, Shape
    <3> QED BY <2>3, <3>1, ApartRestart DEF RecoveryInv
  <2>4. CASE UNCHANGED <<vars, recVars>>
    <3>1. TypeOK => TypeOK'
      BY <2>4, TypeStep
    <3>2. IdentitiesBounded => IdentitiesBounded'
      BY <2>4 DEF IdentitiesBounded, vars
    <3>3. UNCHANGED <<file, saved, saving, life, restored, ids>>
      BY <2>4 DEF vars, recVars
    <3> QED BY <2>4, <3>1, <3>2, <3>3 DEF IdentitiesApart
  <2> QED BY <2>1, <2>2, <2>3, <2>4 DEF RecNext
<1> QED BY <1>1, <1>2, RecoveryInvariant, PTL DEF RecSpec, RestoredIdentitiesAreKept

\* So over one restart the evidence a use rests on is fresh without further ado.
THEOREM FreshAfterOneRestart ==
  ASSUME MaxLives <= 2
  PROVE  RecSpec => []ServedOnFreshEvidence
<1> QED BY IdentitiesKeptCorrect, FreshEvidenceCorrect, PTL
=============================================================================
