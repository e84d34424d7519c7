----------------------------- MODULE Residency -----------------------------
(***************************************************************************)
(* The EngineResidency runtime (src/src/runtime.cpp): which incarnation of  *)
(* an engine is authoritative, what it is prepared to serve, and which      *)
(* serving uses are admitted on it.                                         *)
(*                                                                          *)
(* Every public operation of the runtime holds one mutex from entry to      *)
(* return, so each is one atomic action.  A rejected call throws before it  *)
(* changes anything, so a rejection is an action that is not enabled.       *)
(* Callers are unconstrained: any operation may be called at any time with  *)
(* any arguments, as in the library's public API.                           *)
(***************************************************************************)
EXTENDS Integers, FiniteSets

CONSTANTS Engine,       \* the engines that are defined
          Worker,       \* worker identities
          Slot,         \* exclusive activation slots
          NoSlot,       \* an activation request without a slot
          Category,     \* component categories evidence is published for
          Required      \* the categories the readiness profile requires

\* Limits the code enforces (RuntimeOptions).
CONSTANTS MaxIncarnations, MaxPermits, MaxActiveUses

\* Bounds of the model on counters that the code lets grow.
CONSTANTS MaxBoot, MaxEpoch, MaxReadinessGeneration, MaxConfigGeneration,
          MaxUseId, MaxReplacementId

ASSUME NamesAssumption == NoSlot \notin Slot /\ Required \subseteq Category

ASSUME LimitsAssumption ==
  /\ MaxIncarnations \in Nat /\ MaxPermits \in Nat /\ MaxActiveUses \in Nat
  /\ MaxBoot \in Nat /\ MaxEpoch \in Nat /\ MaxReadinessGeneration \in Nat \ {0}
  /\ MaxConfigGeneration \in Nat /\ MaxUseId \in Nat /\ MaxReplacementId \in Nat

VARIABLES
  authority,           \* current epoch and authority generation
  config_generation,   \* the configuration generation of each engine
  incarnations,        \* incarnation id -> incarnation
  current_by_engine,   \* engine -> the incarnation last made current
  verified,            \* incarnation id -> categories whose best evidence satisfies
  permits,             \* permit id -> registration permit
  fenced,              \* worker -> boots that are fenced
  active_uses,         \* use id -> serving use
  active_use_count,    \* the counter checked against MaxActiveUses
  drains,              \* incarnation id -> drain state, once one exists
  slots,               \* slot -> assigned incarnation, once one exists
  replacement_plans,   \* replacement id -> plan
  ids                  \* the last identity handed out, per kind

vars == <<authority, config_generation, incarnations, current_by_engine, verified,
          permits, fenced, active_uses, active_use_count, drains, slots,
          replacement_plans, ids>>

regVars == <<permits, fenced>>
useVars == <<active_uses, active_use_count>>

-----------------------------------------------------------------------------
Boot == 1 .. MaxBoot

Lifecycle  == {"STARTING", "RUNNING", "DRAINING", "LOST", "FAILED", "RETIRED"}
Health     == {"UNKNOWN", "HEALTHY", "LOST", "FENCED"}
Recovery   == {"NOMINAL", "REVALIDATING", "AWAITING_AUTHORITY"}
Registration == {"REGISTERED", "FENCED"}
Activation == {"INACTIVE", "STANDBY", "ACTIVE", "DRAINING", "FENCED"}
DrainPhase == {"NONE", "REQUESTED", "ACTIVE_USE_REMAINING",
               "BACKEND_CLEANUP_PENDING", "DRAINED"}

Incarnation ==
  [engine : Engine, worker : Worker, boot : Boot, epoch : Nat,
   lifecycle : Lifecycle, health : Health, recovery : Recovery,
   registration : Registration, activation : Activation,
   is_current : BOOLEAN, readiness_generation : Nat]

Permit == [worker : Worker, boot : Boot, epoch : Nat, consumed : BOOLEAN]

ActiveUse == [incarnation : Nat, readiness_generation : Nat, released : BOOLEAN]

DrainState == [phase : DrainPhase, admission_fenced : BOOLEAN,
               backend_cleanup_ack : BOOLEAN]

ReplacementPlan == [old : Nat, candidate : Nat, epoch : Nat,
                    phase : {"PREPARING", "CUTOVER", "COMPLETE"}]

\* Assignment through a map's operator[]: overwrites or inserts.
Put(f, k, v) == [x \in DOMAIN f \cup {k} |-> IF x = k THEN v ELSE f[x]]

NoMap == [x \in {} |-> x]

NoDrain == [phase |-> "NONE", admission_fenced |-> FALSE,
            backend_cleanup_ack |-> FALSE]

\* drain_state: an incarnation without an entry reads as not draining.
DrainOf(i) == IF i \in DOMAIN drains THEN drains[i] ELSE NoDrain

Dead(inc) == inc.lifecycle \in {"LOST", "FAILED", "RETIRED"}

\* READY or DEGRADED: the best evidence of every required category satisfies.
\* The evaluation looks at evidence only, never at the incarnation's recovery.
Ready(i) == Required \subseteq verified[i]

OpenUses == {u \in DOMAIN active_uses : ~active_uses[u].released}

OpenUsesOf(i) == {u \in OpenUses : active_uses[u].incarnation = i}

AuthorityType ==
  /\ authority \in [epoch : Nat, generation : Nat]
  /\ config_generation \in [Engine -> Nat]
  /\ fenced \in [Worker -> SUBSET Boot]
  /\ ids \in [incarnation : Nat, permit : Nat, use : Nat, replacement : Nat]

PermitsType ==
  /\ DOMAIN permits \subseteq 1 .. ids.permit
  /\ permits \in [DOMAIN permits -> Permit]

IncarnationsType ==
  /\ DOMAIN incarnations \subseteq 1 .. ids.incarnation
  /\ incarnations \in [DOMAIN incarnations -> Incarnation]

EvidenceType == verified \in [DOMAIN incarnations -> SUBSET Category]

CurrentType ==
  /\ DOMAIN current_by_engine \subseteq Engine
  /\ \A e \in DOMAIN current_by_engine : current_by_engine[e] \in DOMAIN incarnations

SlotsType ==
  /\ DOMAIN slots \subseteq Slot
  /\ \A s \in DOMAIN slots : slots[s] \in DOMAIN incarnations

UsesType ==
  /\ DOMAIN active_uses \subseteq 1 .. ids.use
  /\ active_uses \in [DOMAIN active_uses -> ActiveUse]
  /\ \A u \in DOMAIN active_uses : active_uses[u].incarnation \in DOMAIN incarnations
  /\ active_use_count \in Nat

DrainsType ==
  /\ DOMAIN drains \subseteq DOMAIN incarnations
  /\ drains \in [DOMAIN drains -> DrainState]

ReplacementsType ==
  /\ DOMAIN replacement_plans \subseteq 1 .. ids.replacement
  /\ replacement_plans \in [DOMAIN replacement_plans -> ReplacementPlan]
  /\ \A r \in DOMAIN replacement_plans :
       /\ replacement_plans[r].old \in DOMAIN incarnations
       /\ replacement_plans[r].candidate \in DOMAIN incarnations

\* The shape of the state; every stored reference is to an incarnation that
\* exists, as no operation of the runtime erases one.
TypeOK ==
  /\ AuthorityType /\ PermitsType /\ IncarnationsType /\ EvidenceType /\ CurrentType
  /\ SlotsType /\ UsesType /\ DrainsType /\ ReplacementsType

Init ==
  /\ authority = [epoch |-> 1, generation |-> 1]
  /\ config_generation = [e \in Engine |-> 1]
  /\ incarnations = NoMap /\ current_by_engine = NoMap /\ verified = NoMap
  /\ permits = NoMap /\ fenced = [w \in Worker |-> {}]
  /\ active_uses = NoMap /\ active_use_count = 0
  /\ drains = NoMap /\ slots = NoMap /\ replacement_plans = NoMap
  /\ ids = [incarnation |-> 0, permit |-> 0, use |-> 0, replacement |-> 0]

-----------------------------------------------------------------------------
(* Registration and authority *)

IssueRegistrationPermit(w, b) ==
  LET id == ids.permit + 1 IN
  /\ b \notin fenced[w]
  /\ Cardinality(DOMAIN permits) < MaxPermits
  /\ permits' = Put(permits, id,
       [worker |-> w, boot |-> b, epoch |-> authority.epoch, consumed |-> FALSE])
  /\ ids' = [ids EXCEPT !.permit = id]
  /\ UNCHANGED <<authority, config_generation, incarnations, current_by_engine,
                 verified, fenced, useVars, drains, slots, replacement_plans>>

\* The engine has a current incarnation that is not dead.
HasCurrent(e) ==
  /\ e \in DOMAIN current_by_engine
  /\ current_by_engine[e] \in DOMAIN incarnations
  /\ ~Dead(incarnations[current_by_engine[e]])

\* Wrong variant: the permit's epoch is not compared with the current one.
Wrong_PermitOfAnyEpoch(permit) ==
  ~permit.consumed /\ permit.boot \notin fenced[permit.worker]

\* A permit admits one registration, in its own epoch, of a boot not fenced
\* since it was issued.
PermitAdmits(permit) ==
  /\ ~permit.consumed
  /\ permit.epoch = authority.epoch
  /\ permit.boot \notin fenced[permit.worker]

\* Evidence is kept by identity; a registration leaves what is there alone.
EvidenceUnder(id) == IF id \in DOMAIN verified THEN verified[id] ELSE {}

RegisterIncarnation(p, e) ==
  LET permit == permits[p]
      id     == ids.incarnation + 1
  IN
  /\ PermitAdmits(permit)
  /\ \A i \in DOMAIN incarnations :
       \/ incarnations[i].worker # permit.worker
       \/ incarnations[i].boot # permit.boot
       \/ Dead(incarnations[i])
  /\ Cardinality(DOMAIN incarnations) < MaxIncarnations
  /\ incarnations' = Put(incarnations, id,
       [engine |-> e, worker |-> permit.worker, boot |-> permit.boot,
        epoch |-> authority.epoch, lifecycle |-> "STARTING", health |-> "UNKNOWN",
        recovery |-> "NOMINAL", registration |-> "REGISTERED",
        activation |-> "INACTIVE", is_current |-> ~HasCurrent(e),
        readiness_generation |-> 1])
  /\ verified' = Put(verified, id, EvidenceUnder(id))
  /\ current_by_engine' = IF HasCurrent(e) THEN current_by_engine
                                           ELSE Put(current_by_engine, e, id)
  /\ permits' = [permits EXCEPT ![p] = [@ EXCEPT !.consumed = TRUE]]
  /\ ids' = [ids EXCEPT !.incarnation = id]
  /\ UNCHANGED <<authority, config_generation, fenced, useVars, drains, slots,
                 replacement_plans>>

MarkRunning(i) ==
  /\ incarnations' = [incarnations EXCEPT ![i] =
       [@ EXCEPT !.lifecycle = "RUNNING", !.health = "HEALTHY"]]
  /\ UNCHANGED <<authority, config_generation, current_by_engine, verified, regVars,
                 useVars, drains, slots, replacement_plans, ids>>

Revalidate(i) ==
  /\ incarnations[i].readiness_generation < MaxReadinessGeneration
  /\ incarnations' = [incarnations EXCEPT ![i] =
       [@ EXCEPT !.recovery = "NOMINAL", !.is_current = TRUE, !.lifecycle = "RUNNING",
                 !.readiness_generation = incarnations[i].readiness_generation + 1]]
  /\ current_by_engine' = Put(current_by_engine, incarnations[i].engine, i)
  /\ UNCHANGED <<authority, config_generation, verified, regVars, useVars, drains,
                 slots, replacement_plans, ids>>

\* Fences one boot of a worker, and every incarnation that boot registered.
FenceWorker(w, b) ==
  /\ fenced' = [fenced EXCEPT ![w] = @ \cup {b}]
  /\ incarnations' = [i \in DOMAIN incarnations |->
       IF incarnations[i].worker = w /\ incarnations[i].boot = b
       THEN [incarnations[i] EXCEPT !.health = "FENCED", !.lifecycle = "LOST",
                                    !.activation = "FENCED",
                                    !.registration = "FENCED",
                                    !.is_current = FALSE]
       ELSE incarnations[i]]
  /\ UNCHANGED <<authority, config_generation, current_by_engine, verified, permits,
                 useVars, drains, slots, replacement_plans, ids>>

AdvanceEpoch ==
  /\ authority.epoch < MaxEpoch
  /\ authority' = [epoch |-> authority.epoch + 1,
                   generation |-> authority.generation + 1]
  /\ incarnations' = [i \in DOMAIN incarnations |->
       IF incarnations[i].lifecycle = "RUNNING"
       THEN [incarnations[i] EXCEPT !.recovery = "REVALIDATING", !.is_current = FALSE]
       ELSE incarnations[i]]
  /\ slots' = NoMap
  /\ UNCHANGED <<config_generation, current_by_engine, verified, regVars, useVars,
                 drains, replacement_plans, ids>>

UpdateEngineConfig(e, g) ==
  /\ g > config_generation[e]
  /\ \A i \in DOMAIN incarnations : incarnations[i].engine = e =>
       incarnations[i].readiness_generation < MaxReadinessGeneration
  /\ config_generation' = [config_generation EXCEPT ![e] = g]
  /\ incarnations' = [i \in DOMAIN incarnations |->
       IF incarnations[i].engine = e
       THEN [incarnations[i] EXCEPT !.readiness_generation = @ + 1]
       ELSE incarnations[i]]
  /\ UNCHANGED <<authority, current_by_engine, verified, regVars, useVars, drains,
                 slots, replacement_plans, ids>>

-----------------------------------------------------------------------------
(* Component evidence *)

\* Wrong variant: a fence is read off the health alone.
Wrong_FencedByHealth(inc) == inc.health = "FENCED"

IsFenced(inc) == inc.registration = "FENCED" \/ inc.health = "FENCED"

\* Wrong variant: only the health of the incarnation bars it from publishing.
Wrong_MayPublish(inc) == inc.health # "FENCED"

\* Wrong variant: only the list of fenced boots, which is not saved, bars it.
Wrong_MayPublishByBoot(inc) == inc.boot \notin fenced[inc.worker]

MayPublish(inc) == ~IsFenced(inc) /\ inc.boot \notin fenced[inc.worker]

\* A worker publishes evidence for one category.  It may satisfy the profile
\* or not, and it is ignored when its clock reading ties with the evidence
\* already held: best_evidence keeps the earlier of the two.
PublishComponent(i, c) ==
  LET inc == incarnations[i] IN
  /\ MayPublish(inc)
  /\ \E best \in {verified[i] \cup {c}, verified[i] \ {c}, verified[i]} :
       verified' = [verified EXCEPT ![i] = best]
  /\ incarnations' =
       IF c \in {"BACKEND", "DEVICE_CONTEXT"} /\ inc.lifecycle = "STARTING"
       THEN [incarnations EXCEPT ![i] =
              [@ EXCEPT !.lifecycle = "RUNNING", !.health = "HEALTHY"]]
       ELSE incarnations
  /\ UNCHANGED <<authority, config_generation, current_by_engine, regVars, useVars,
                 drains, slots, replacement_plans, ids>>

\* Time passes: the evidence of a category leaves its freshness window.
EvidenceExpires(i, c) ==
  /\ c \in verified[i]
  /\ verified' = [verified EXCEPT ![i] = @ \ {c}]
  /\ UNCHANGED <<authority, config_generation, incarnations, current_by_engine,
                 regVars, useVars, drains, slots, replacement_plans, ids>>

InvalidateComponents(i) ==
  /\ incarnations[i].readiness_generation < MaxReadinessGeneration
  /\ verified' = [verified EXCEPT ![i] = {}]
  /\ incarnations' = [incarnations EXCEPT ![i] =
       [@ EXCEPT !.readiness_generation = incarnations[i].readiness_generation + 1]]
  /\ UNCHANGED <<authority, config_generation, current_by_engine, regVars, useVars,
                 drains, slots, replacement_plans, ids>>

\* complete_preparation as the rest of the runtime sees it, when the evaluation
\* finds the incarnation ready: its readiness generation is renewed.  The plans
\* and attempts that lead to it are in Preparation.
PublishReady(i) ==
  /\ incarnations[i].is_current
  /\ Ready(i)
  /\ incarnations[i].readiness_generation < MaxReadinessGeneration
  /\ incarnations' = [incarnations EXCEPT ![i] =
       [@ EXCEPT !.readiness_generation = incarnations[i].readiness_generation + 1]]
  /\ UNCHANGED <<authority, config_generation, current_by_engine, verified, regVars,
                 useVars, drains, slots, replacement_plans, ids>>

-----------------------------------------------------------------------------
(* Activation *)

\* A holder that must not block the takeover of its slot.
HolderDead(inc) ==
  \/ inc.health \in {"FENCED", "LOST"}
  \/ Dead(inc)
  \/ inc.recovery \in {"REVALIDATING", "AWAITING_AUTHORITY"}

\* Wrong variant: a generation seen earlier is as good as the current one.
Wrong_SeenGeneration(i, g) == g <= incarnations[i].readiness_generation

\* The caller's readiness generation is still the incarnation's.
GenerationCurrent(i, g) == g = incarnations[i].readiness_generation

\* profiled: the request names a profile, and readiness is then checked.
Activate(i, g, s, profiled) ==
  LET inc == incarnations[i] IN
  /\ ~IsFenced(inc)
  /\ inc.lifecycle = "RUNNING"
  /\ GenerationCurrent(i, g)
  /\ profiled => Ready(i)
  /\ s \in DOMAIN slots => slots[s] = i \/ HolderDead(incarnations[slots[s]])
  /\ slots' = IF s = NoSlot THEN slots ELSE Put(slots, s, i)
  /\ incarnations' = [incarnations EXCEPT ![i] =
       [@ EXCEPT !.activation = "ACTIVE", !.is_current = TRUE]]
  /\ current_by_engine' = Put(current_by_engine, inc.engine, i)
  /\ UNCHANGED <<authority, config_generation, verified, regVars, useVars, drains,
                 replacement_plans, ids>>

-----------------------------------------------------------------------------
(* Serving use *)

\* Wrong variant: admission ends when the drain has completed.
Wrong_OpenUntilDrained(i) == DrainOf(i).phase # "DRAINED"

AdmissionOpen(i) == ~DrainOf(i).admission_fenced

\* g is the readiness generation the caller saw when it asked for readiness.
AcquireServingUse(i, g) ==
  LET inc == incarnations[i]
      id  == ids.use + 1
  IN
  /\ id <= MaxUseId
  /\ inc.is_current
  /\ inc.lifecycle = "RUNNING"
  /\ AdmissionOpen(i)
  /\ GenerationCurrent(i, g)
  /\ Ready(i)
  /\ active_use_count < MaxActiveUses
  /\ active_uses' = Put(active_uses, id,
       [incarnation |-> i, readiness_generation |-> g, released |-> FALSE])
  /\ active_use_count' = active_use_count + 1
  /\ ids' = [ids EXCEPT !.use = id]
  /\ UNCHANGED <<authority, config_generation, incarnations, current_by_engine,
                 verified, regVars, drains, slots, replacement_plans>>

\* Wrong variant: a release is counted twice.
Wrong_DoubleDecrement == active_use_count - 2

\* Wrong variant: the counter is left alone.
Wrong_NoDecrement == active_use_count

\* On an underflow the code throws with the use already marked released.
CountAfterRelease == IF active_use_count = 0 THEN 0 ELSE active_use_count - 1

\* Wrong variant: the first release ends the drain, whatever remains open.
Wrong_DrainAfterFirstRelease(i, remaining) ==
  IF i \in DOMAIN drains /\ DrainOf(i).admission_fenced
  THEN [drains EXCEPT ![i] =
         [@ EXCEPT !.phase = IF drains[i].backend_cleanup_ack
                             THEN "DRAINED" ELSE "BACKEND_CLEANUP_PENDING"]]
  ELSE drains

\* The drain entry of i after the open uses of i have become `remaining`.
DrainAfterRelease(i, remaining) ==
  IF i \in DOMAIN drains /\ DrainOf(i).admission_fenced /\ remaining = {}
  THEN [drains EXCEPT ![i] =
         [@ EXCEPT !.phase = IF drains[i].backend_cleanup_ack
                             THEN "DRAINED" ELSE "BACKEND_CLEANUP_PENDING"]]
  ELSE drains

\* The token names a use and the incarnation it was admitted on.
ReleaseServingUse(u, i) ==
  LET use == active_uses[u] IN
  /\ ~use.released
  /\ use.incarnation = i
  /\ active_uses' = [active_uses EXCEPT ![u] = [@ EXCEPT !.released = TRUE]]
  /\ active_use_count' = CountAfterRelease
  /\ drains' = IF active_use_count = 0 THEN drains
               ELSE DrainAfterRelease(i, OpenUsesOf(i) \ {u})
  /\ UNCHANGED <<authority, config_generation, incarnations, current_by_engine,
                 verified, regVars, slots, replacement_plans, ids>>

-----------------------------------------------------------------------------
(* Drain *)

\* Wrong variant: the uses still open are not looked at.
Wrong_RequestedPhase(i) == "BACKEND_CLEANUP_PENDING"

RequestedPhase(i) ==
  IF OpenUsesOf(i) = {} THEN "BACKEND_CLEANUP_PENDING" ELSE "ACTIVE_USE_REMAINING"

RequestDrain(i) ==
  /\ drains' = Put(drains, i,
       [DrainOf(i) EXCEPT !.admission_fenced = TRUE,
                          !.phase = RequestedPhase(i)])
  /\ incarnations' = [incarnations EXCEPT ![i] =
       [@ EXCEPT !.lifecycle = "DRAINING", !.activation = "DRAINING"]]
  /\ UNCHANGED <<authority, config_generation, current_by_engine, verified, regVars,
                 useVars, slots, replacement_plans, ids>>

\* Wrong variant: the acknowledgment alone completes the drain.
Wrong_PhaseAfterAck(i) == "DRAINED"

PhaseAfterAck(i) ==
  IF drains[i].admission_fenced /\ OpenUsesOf(i) = {} THEN "DRAINED"
                                                      ELSE drains[i].phase

AcknowledgeBackendCleanup(i) ==
  /\ i \in DOMAIN drains
  /\ drains' = [drains EXCEPT ![i] =
       [@ EXCEPT !.backend_cleanup_ack = TRUE, !.phase = PhaseAfterAck(i)]]
  /\ UNCHANGED <<authority, config_generation, incarnations, current_by_engine,
                 verified, regVars, useVars, slots, replacement_plans, ids>>

-----------------------------------------------------------------------------
(* Replacement *)

BeginReplacement(old, cand) ==
  LET id == ids.replacement + 1 IN
  /\ id <= MaxReplacementId
  /\ incarnations[cand].lifecycle = "RUNNING"
  /\ cand # old
  /\ replacement_plans' = Put(replacement_plans, id,
       [old |-> old, candidate |-> cand, epoch |-> authority.epoch,
        phase |-> "PREPARING"])
  /\ ids' = [ids EXCEPT !.replacement = id]
  /\ UNCHANGED <<authority, config_generation, incarnations, current_by_engine,
                 verified, regVars, useVars, drains, slots>>

\* Wrong variant: the cutover leaves the old incarnation open to new uses.
Wrong_CutoverLeavesOpen(i) == DrainOf(i)

\* The cutover fences the admission of the incarnation it replaces.
DrainAtCutover(i) == [DrainOf(i) EXCEPT !.admission_fenced = TRUE]

\* The old incarnation's drain entry is created here if it has none, with its
\* phase left as it was.
CommitCutover(r) ==
  LET old  == replacement_plans[r].old
      cand == replacement_plans[r].candidate
  IN
  /\ replacement_plans[r].phase = "PREPARING"
  /\ incarnations[cand].lifecycle = "RUNNING"
  /\ drains' = Put(drains, old, DrainAtCutover(old))
  /\ incarnations' = [incarnations EXCEPT
       ![old]  = [@ EXCEPT !.activation = "FENCED", !.is_current = FALSE],
       ![cand] = [@ EXCEPT !.activation = "STANDBY", !.is_current = TRUE]]
  /\ current_by_engine' = Put(current_by_engine, incarnations[cand].engine, cand)
  /\ replacement_plans' = [replacement_plans EXCEPT ![r] = [@ EXCEPT !.phase = "CUTOVER"]]
  /\ UNCHANGED <<authority, config_generation, verified, regVars, useVars, slots, ids>>

RetireOld(r) ==
  LET old == replacement_plans[r].old IN
  /\ incarnations' = [incarnations EXCEPT ![old] =
       [@ EXCEPT !.lifecycle = "RETIRED", !.health = "LOST", !.is_current = FALSE]]
  /\ replacement_plans' = [replacement_plans EXCEPT ![r] = [@ EXCEPT !.phase = "COMPLETE"]]
  /\ UNCHANGED <<authority, config_generation, current_by_engine, verified, regVars,
                 useVars, drains, slots, ids>>

-----------------------------------------------------------------------------
\* Every operation but complete_preparation.
Operations ==
  \/ \E w \in Worker, b \in Boot : IssueRegistrationPermit(w, b) \/ FenceWorker(w, b)
  \/ \E p \in DOMAIN permits, e \in Engine : RegisterIncarnation(p, e)
  \/ AdvanceEpoch
  \/ \E e \in Engine, g \in 1 .. MaxConfigGeneration : UpdateEngineConfig(e, g)
  \/ \E i \in DOMAIN incarnations :
       \/ MarkRunning(i)
       \/ Revalidate(i)
       \/ InvalidateComponents(i)
       \/ \E c \in Category : PublishComponent(i, c) \/ EvidenceExpires(i, c)
       \/ \E g \in 1 .. MaxReadinessGeneration :
            \/ AcquireServingUse(i, g)
            \/ \E s \in Slot \cup {NoSlot}, profiled \in BOOLEAN :
                 Activate(i, g, s, profiled)
       \/ RequestDrain(i)
       \/ AcknowledgeBackendCleanup(i)
       \/ \E cand \in DOMAIN incarnations : BeginReplacement(i, cand)
       \/ \E u \in DOMAIN active_uses : ReleaseServingUse(u, i)
  \/ \E r \in DOMAIN replacement_plans : CommitCutover(r) \/ RetireOld(r)

Next == Operations \/ \E i \in DOMAIN incarnations : PublishReady(i)

Spec == Init /\ [][Next]_vars

-----------------------------------------------------------------------------
(* What must hold *)

\* The active-use counter, which admission is capped by, counts exactly the
\* uses that are admitted and not yet released, on whatever incarnation and
\* however its admission was fenced since; so the cap bounds the real uses.
UseAccounting ==
  /\ active_use_count = Cardinality(OpenUses)
  /\ active_use_count <= MaxActiveUses

\* A drain phase never lies about the work in flight: DRAINED and
\* BACKEND_CLEANUP_PENDING mean that no use of the incarnation is open and
\* none can be admitted, DRAINED moreover that the backend acknowledged its
\* cleanup, and ACTIVE_USE_REMAINING that some use is still open.
DrainPhaseTruthful ==
  \A i \in DOMAIN drains :
    /\ drains[i].phase \in {"DRAINED", "BACKEND_CLEANUP_PENDING"} =>
         OpenUsesOf(i) = {} /\ drains[i].admission_fenced
    /\ drains[i].phase = "DRAINED" => drains[i].backend_cleanup_ack
    /\ drains[i].phase = "ACTIVE_USE_REMAINING" =>
         OpenUsesOf(i) # {} /\ drains[i].admission_fenced

\* Fencing a worker boot reaches everything that boot ever registers, also
\* under a permit issued before the fence, and no later operation takes the mark
\* away: an incarnation is marked fenced exactly when its boot is, and it is
\* never ACTIVE again (revalidate may still make it current).
FencedBootHoldsNothing ==
  \A i \in DOMAIN incarnations :
    LET inc == incarnations[i] IN
    /\ inc.registration = "FENCED" <=> inc.boot \in fenced[inc.worker]
    /\ inc.registration = "FENCED" => inc.activation # "ACTIVE"

\* Every incarnation was registered by a permit of its own, issued to that
\* worker boot in the epoch the registration took place in: no permit is used
\* twice and none survives an epoch.
PermitsAreSpentOnce ==
  \A w \in Worker, b \in Boot, ep \in 1 .. authority.epoch :
    Cardinality({i \in DOMAIN incarnations :
                   /\ incarnations[i].worker = w
                   /\ incarnations[i].boot = b
                   /\ incarnations[i].epoch = ep}) =
    Cardinality({p \in DOMAIN permits :
                   /\ permits[p].worker = w
                   /\ permits[p].boot = b
                   /\ permits[p].epoch = ep
                   /\ permits[p].consumed})

\* Once a readiness generation is superseded it admits nothing more: the uses
\* of an incarnation carry generations that never decrease in the order of
\* admission and never exceed the incarnation's own.
AdmissionsFollowGenerations ==
  \A u \in DOMAIN active_uses :
    LET use == active_uses[u] IN
    /\ use.readiness_generation <=
         incarnations[use.incarnation].readiness_generation
    /\ \A v \in DOMAIN active_uses :
         u < v /\ active_uses[v].incarnation = use.incarnation =>
           use.readiness_generation <= active_uses[v].readiness_generation

\* From the cutover on, the replaced incarnation is closed to new uses, even
\* if it is revalidated, activated or made a candidate again.
CutoverClosesOld ==
  \A r \in DOMAIN replacement_plans :
    replacement_plans[r].phase = "CUTOVER" =>
      DrainOf(replacement_plans[r].old).admission_fenced

\* Once a drain or a cutover has fenced the admission of an incarnation, the
\* fence stays and the set of its open uses only shrinks.
AdmissionFenceHolds ==
  [][\A i \in DOMAIN incarnations : DrainOf(i).admission_fenced =>
       /\ DrainOf(i)'.admission_fenced
       /\ OpenUsesOf(i)' \subseteq OpenUsesOf(i)]_vars

\* A fenced incarnation contributes no evidence: nothing it publishes, before
\* or after it is revived by an operator, turns a category verified.
FencedPublishesNothing ==
  [][\A i \in DOMAIN incarnations : incarnations[i].registration = "FENCED" =>
       verified'[i] \subseteq verified[i]]_vars

-----------------------------------------------------------------------------
(* Admission and drain implement the abstract gate *)

Gate == INSTANCE ServingGate WITH
  Target  <- 1 .. MaxIncarnations,
  Use     <- 1 .. MaxUseId,
  held    <- {<<active_uses[u].incarnation, u>> : u \in OpenUses},
  spent   <- DOMAIN active_uses,
  closed  <- {i \in DOMAIN drains : drains[i].admission_fenced},
  drained <- {i \in DOMAIN drains : drains[i].phase = "DRAINED"}

\* Whatever the runtime does, its uses and drains look to a caller like the
\* abstract gate.
ImplementsGate == Gate!GateSpec
=============================================================================
