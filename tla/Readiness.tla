----------------------------- MODULE Readiness -----------------------------
(***************************************************************************)
(* The evidence of one incarnation and the readiness evaluator               *)
(* (src/src/readiness/readiness.cpp, publish_component,                      *)
(* invalidate_incarnation_components, define_engine, define_profile and load *)
(* in src/src/runtime.cpp).  Residency knows only which categories are       *)
(* verified; this module has the evidence itself, its time stamps and ages,  *)
(* and the requirements it is held against, and shows that Residency's view  *)
(* of it is right (EvidenceView).                                            *)
(***************************************************************************)
EXTENDS Integers, Sequences, FiniteSets

CONSTANTS Category,       \* component categories
          Profiles,       \* readiness profiles: sets of requirements
          Definitions,    \* engine definitions: the generation of each family
          Publications,   \* what the worker may publish, before it is stamped
          AnySubject,     \* the empty subject selector
          NoKey,          \* a compatibility key that is not valid
          MaxEvidence,    \* max_component_evidence, as left to this incarnation
          MaxTime         \* bound on the clock

ASSUME ReadinessAssumption == MaxEvidence \in Nat /\ MaxTime \in Nat

ComponentState == {"ABSENT", "DISCOVERED", "AVAILABLE", "LOADING", "BOUND", "VERIFIED",
                   "FAILED", "STALE", "UNKNOWN", "REVALIDATION_REQUIRED"}

RequirementKind == {"REQUIRED", "OPTIONAL", "PERMITTED_FALLBACK", "UNSUPPORTED"}

GenerationFamily ==
  {"NONE", "MODEL", "ADAPTER", "KV_CAPACITY", "KV_STATE", "KERNEL", "GRAPH",
   "ALLOCATION", "RESOURCE_CLAIM", "DEPENDENCY", "COMPATIBILITY"}

Requirement ==
  [category : Category, subject : STRING \cup {AnySubject}, kind : RequirementKind,
   min_state : ComponentState, compatibility : STRING \cup {NoKey},
   family : GenerationFamily]

\* What of a record of evidence the evaluator looks at.
Evidence ==
  [category : Category, subject : STRING, state : ComponentState,
   compatibility : STRING, generation : [GenerationFamily -> Nat],
   observed : Nat, max_age : Nat]

\* Each component is required once.
ASSUME ProfileAssumption ==
  \A p \in Profiles :
    p \subseteq Requirement /\ \A r, q \in p : r.category = q.category => r = q

ASSUME EvidenceAssumption == Publications \subseteq Evidence

VARIABLES
  definition,    \* the engine definition
  profile,       \* the readiness profile
  evidence,      \* the evidence, in the order of publication
  now,           \* the clock of the runtime
  barrier        \* history: entries there were at the last invalidation or load

vars == <<definition, profile, evidence, now, barrier>>

Init ==
  /\ definition \in Definitions /\ profile \in Profiles
  /\ evidence = <<>> /\ now = 0 /\ barrier = 0

-----------------------------------------------------------------------------
(* The evaluator *)

Matches(r, e) ==
  e.category = r.category /\ (r.subject # AnySubject => e.subject = r.subject)

Matching(r, ev) == {k \in DOMAIN ev : Matches(r, ev[k])}

\* Wrong variant: the first report found is kept.
Wrong_BestEvidence(r, ev) ==
  CHOOSE k \in Matching(r, ev) : \A j \in Matching(r, ev) : k <= j

\* best_evidence: the entry with the latest stamp, of those the earliest one.
\* Every entry has evidence generation 1, so the generation never decides.
BestEvidence(r, ev) ==
  CHOOSE k \in Matching(r, ev) : \A j \in Matching(r, ev) :
    \/ ev[k].observed > ev[j].observed
    \/ ev[k].observed = ev[j].observed /\ k <= j

\* Wrong variant: the order of the enumeration, which ends in the failures.
Wrong_Rank(state) ==
  CASE state = "ABSENT" -> 0 [] state = "DISCOVERED" -> 1 [] state = "AVAILABLE" -> 2
    [] state = "LOADING" -> 3 [] state = "BOUND" -> 4 [] state = "VERIFIED" -> 5
    [] state = "FAILED" -> 6 [] state = "STALE" -> 7 [] state = "UNKNOWN" -> 8
    [] state = "REVALIDATION_REQUIRED" -> 9

Rank(state) ==
  CASE state = "ABSENT" -> 0 [] state = "DISCOVERED" -> 1 [] state = "AVAILABLE" -> 2
    [] state = "LOADING" -> 3 [] state = "BOUND" -> 4 [] state = "VERIFIED" -> 5
    [] state = "FAILED" -> -1 [] state = "STALE" -> -2 [] state = "UNKNOWN" -> -3
    [] state = "REVALIDATION_REQUIRED" -> -4

StateSatisfies(actual, required) == Rank(actual) >= Rank(required) /\ Rank(required) >= 0

Compatible(r, e) == r.compatibility # NoKey => r.compatibility = e.compatibility

\* The families the definition has a generation of are compared with it, and a
\* capacity must have been provisioned; no other family is looked at.
GenerationMismatch(r, e) ==
  \/ r.family \in DOMAIN definition /\ e.generation[r.family] # definition[r.family]
  \/ r.family = "KV_CAPACITY" /\ e.generation[r.family] = 0

\* Wrong variant: the age is compared with the window the wrong way round.
Wrong_IsFresh(e, t) ==
  e.max_age = 0 \/ (e.observed # 0 /\ t >= e.observed /\ t - e.observed >= e.max_age)

\* is_fresh: no window is never stale, no stamp never fresh, and neither is a
\* stamp that lies in the future.
IsFresh(e, t) ==
  e.max_age = 0 \/ (e.observed # 0 /\ t >= e.observed /\ t - e.observed <= e.max_age)

\* Wrong variant: the age is looked at before the state that was reported.
Wrong_Verdict(r, ev, t) ==
  LET e         == ev[BestEvidence(r, ev)]
      mandatory == r.kind # "OPTIONAL"
  IN IF r.kind = "UNSUPPORTED" THEN "incompatible"
     ELSE IF Matching(r, ev) = {} THEN IF mandatory THEN "missing" ELSE "satisfied"
     ELSE IF mandatory /\ ~IsFresh(e, t) THEN "stale"
     ELSE IF ~StateSatisfies(e.state, r.min_state)
          THEN IF mandatory THEN "missing" ELSE "satisfied"
     ELSE IF ~Compatible(r, e) \/ GenerationMismatch(r, e) THEN "incompatible"
     ELSE "satisfied"

\* evaluate_readiness, for one requirement.  What is optional may be missing or
\* stale, but not incompatible.
Verdict(r, ev, t) ==
  LET e         == ev[BestEvidence(r, ev)]
      mandatory == r.kind # "OPTIONAL"
  IN IF r.kind = "UNSUPPORTED" THEN "incompatible"
     ELSE IF Matching(r, ev) = {} \/ ~StateSatisfies(e.state, r.min_state)
          THEN IF mandatory THEN "missing" ELSE "satisfied"
     ELSE IF ~Compatible(r, e) \/ GenerationMismatch(r, e) THEN "incompatible"
     ELSE IF mandatory /\ ~IsFresh(e, t) THEN "stale"
     ELSE "satisfied"

Outcome(ev, t) ==
  LET verdicts == {Verdict(r, ev, t) : r \in profile}
  IN IF verdicts \cap {"incompatible", "missing"} # {} THEN "BLOCKED"
     ELSE IF "stale" \in verdicts THEN "STALE"
     ELSE IF \E r \in profile : r.kind = "PERMITTED_FALLBACK" THEN "DEGRADED"
     ELSE "READY"

\* activate, acquire_serving_use and complete_preparation ask for this.
Usable(ev, t) == Outcome(ev, t) \in {"READY", "DEGRADED"}

-----------------------------------------------------------------------------
(* What changes the evidence, and what it is held against *)

\* Wrong variant: the limit is passed by one.
Wrong_HasRoom == Len(evidence) <= MaxEvidence

\* Nothing is ever removed, so a worker that renews its evidence runs into this.
HasRoom == Len(evidence) < MaxEvidence

\* The stamp is the runtime's, whatever the worker sent.
PublishComponent(e) ==
  /\ HasRoom
  /\ evidence' = Append(evidence, [e EXCEPT !.observed = now])
  /\ UNCHANGED <<definition, profile, now, barrier>>

\* Wrong variant: what was saved comes back as it was.
Wrong_Withdrawn(ev) == ev

\* Every entry has to be revalidated; its stamp stays.
Withdrawn(ev) == [k \in DOMAIN ev |-> [ev[k] EXCEPT !.state = "REVALIDATION_REQUIRED"]]

InvalidateComponents ==
  /\ evidence' = Withdrawn(evidence)
  /\ barrier' = Len(evidence)
  /\ UNCHANGED <<definition, profile, now>>

\* The coordinator restarts and loads what it saved when n entries were there.
\* The clock of the new process is another one, and the stamps are kept.
Load(n) ==
  /\ evidence' = Withdrawn(SubSeq(evidence, 1, n))
  /\ barrier' = n
  /\ now' \in 0 .. MaxTime
  /\ UNCHANGED <<definition, profile>>

\* define_engine and define_profile overwrite; the evidence stays as it is.
DefineEngine(d) ==
  /\ definition' = d
  /\ UNCHANGED <<profile, evidence, now, barrier>>

DefineProfile(p) ==
  /\ profile' = p
  /\ UNCHANGED <<definition, evidence, now, barrier>>

Tick ==
  /\ now < MaxTime
  /\ now' = now + 1
  /\ UNCHANGED <<definition, profile, evidence, barrier>>

Next ==
  \/ \E e \in Publications : PublishComponent(e)
  \/ InvalidateComponents
  \/ \E n \in 0 .. Len(evidence) : Load(n)
  \/ \E d \in Definitions : DefineEngine(d)
  \/ \E p \in Profiles : DefineProfile(p)
  \/ Tick

Spec == Init /\ [][Next]_vars

-----------------------------------------------------------------------------
(* What must hold *)

\* The shape of the state.
TypeOK ==
  /\ definition \in Definitions /\ profile \in Profiles
  /\ evidence \in Seq(Evidence) /\ Len(evidence) <= MaxEvidence
  /\ now \in 0 .. MaxTime /\ barrier \in 0 .. Len(evidence)

Mandatory == {r \in profile : r.kind # "OPTIONAL"}

\* Entry e does what r asks for, now.
Meets(r, e) ==
  /\ StateSatisfies(e.state, r.min_state)
  /\ Compatible(r, e) /\ ~GenerationMismatch(r, e) /\ IsFresh(e, now)

\* An incarnation is usable only if each component it must have was published
\* again after the last invalidation and after the last restart, in a state and of a
\* generation that the definition in force asks for, and is still fresh.
InvalidationHolds ==
  Usable(evidence, now) =>
    \A r \in Mandatory : \E k \in barrier + 1 .. Len(evidence) :
      Matches(r, evidence[k]) /\ Meets(r, evidence[k])

\* The passing of time alone never makes an incarnation usable, also when the
\* clock of a restarted coordinator runs behind the stamps it has loaded and
\* catches up with them.
TimeOnlyDecays ==
  [][now' = now + 1 /\ evidence' = evidence =>
       (Usable(evidence, now)' => Usable(evidence, now))]_vars

\* A report stamped later than every report on the same component decides,
\* for better or worse: a renewal counts at once, and so does a failure.
RenewalDecides ==
  [][\A r \in Mandatory :
       LET n == Len(evidence) + 1 IN
       /\ Len(evidence') = n
       /\ r.kind # "UNSUPPORTED"
       /\ Matches(r, evidence'[n])
       /\ \A k \in Matching(r, evidence) : evidence[k].observed < now
       => (Verdict(r, evidence', now) = "satisfied" <=> Meets(r, evidence'[n]))]_vars

\* The evidence once the entry that decides r was published again, as it is.
Renewed(r) == Append(evidence, [evidence[BestEvidence(r, evidence)] EXCEPT !.observed = now])

\* STALE says that nothing is wrong but the age: whatever component is not
\* satisfied would be if the same report were made once more.  So neither a failure, nor an
\* incompatibility nor a missing component is ever reported as mere staleness.
\* (A report made at time 0 has no stamp, and is never fresh.)
StaleIsRenewable ==
  Outcome(evidence, now) = "STALE" /\ now > 0 =>
    \A r \in profile : \/ Verdict(r, evidence, now) = "satisfied"
                       \/ Verdict(r, Renewed(r), now) = "satisfied"

-----------------------------------------------------------------------------
View == INSTANCE EvidenceView WITH
  rules    <- <<definition, profile>>,
  verified <- {r.category : r \in {q \in Mandatory : Verdict(q, evidence, now) = "satisfied"}}

\* The components that must be there, however their evidence is stamped, aged,
\* invalidated and reloaded, look to the runtime like the abstract view that
\* Residency is built on.  Of an optional component this is not true: an
\* incompatible one blocks, and an invalidation lifts that block.
ImplementsEvidenceView == View!ViewSpec
=============================================================================
