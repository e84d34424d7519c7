-------------------------- MODULE ReadinessProofs --------------------------
(***************************************************************************)
(* What the readiness evaluator promises (Readiness), for every profile,    *)
(* every definition, every publication and every limit on the evidence.     *)
(***************************************************************************)
EXTENDS Readiness, SequenceTheorems, WellFoundedInduction, TLAPS

\* Stamps are readings of the clock.
StampsAreReadings == \A k \in 1 .. Len(evidence) : evidence[k].observed <= MaxTime

\* What was there at the last invalidation or restart is withdrawn.
OldIsWithdrawn == \A k \in 1 .. barrier : evidence[k].state = "REVALIDATION_REQUIRED"

\* What was published since carries a stamp of the clock that runs now.
NewIsNotAhead == \A k \in barrier + 1 .. Len(evidence) : evidence[k].observed <= now

\* The inductive invariant.
ReadinessInv == TypeOK /\ StampsAreReadings /\ OldIsWithdrawn /\ NewIsNotAhead

-----------------------------------------------------------------------------
(* Numbers *)

LEMMA SmallestOf ==
  ASSUME NEW S \in SUBSET Nat, S # {}
  PROVE  \E k \in S : \A j \in S : k <= j
<1> DEFINE R == {ss \in Nat \X Nat : ss[1] < ss[2]}
<1>1. IsWellFoundedOn(R, Nat)
  BY NatLessThanWellFounded DEF OpToRel
<1>2. \A x, y \in Nat : <<y, x>> \in R <=> y < x
  OBVIOUS
<1> HIDE DEF R
<1>3. PICK x \in S : \A y \in S : ~ (<<y, x>> \in R)
  BY <1>1, WFMin
<1>4. ASSUME NEW y \in S PROVE x <= y
  <2>1. ~ (<<y, x>> \in R) /\ x \in Nat /\ y \in Nat
    BY <1>3
  <2>2. <<y, x>> \in R <=> y < x
    BY <1>2, <2>1
  <2> QED BY <2>1, <2>2
<1> QED BY <1>4

-----------------------------------------------------------------------------
(* The evaluator *)

\* Entry k of the evidence goes before entry j.
GoesBefore(ev, k, j) ==
  \/ ev[k].observed > ev[j].observed
  \/ ev[k].observed = ev[j].observed /\ k <= j

\* Evidence whose stamps are no later than t.
StampedUntil(ev, t) ==
  /\ DOMAIN ev \subseteq Nat
  /\ \A k \in DOMAIN ev : ev[k].observed \in Nat /\ ev[k].observed <= t

\* best_evidence finds an entry whenever one matches, and no other goes before it.
LEMMA BestExists ==
  ASSUME NEW r, NEW ev, NEW t \in Nat, StampedUntil(ev, t), Matching(r, ev) # {}
  PROVE  /\ BestEvidence(r, ev) \in Matching(r, ev)
         /\ \A j \in Matching(r, ev) : GoesBefore(ev, BestEvidence(r, ev), j)
<1> DEFINE M == Matching(r, ev)
           Ages == {t - ev[k].observed : k \in M}
<1>0. \A k \in M : k \in Nat /\ ev[k].observed \in Nat /\ ev[k].observed <= t
  BY DEF StampedUntil, Matching
<1>1. \E a \in Ages : \A b \in Ages : a <= b
  <2>1. Ages \in SUBSET Nat
    BY <1>0
  <2>2. Ages # {}
    OBVIOUS
  <2> HIDE DEF Ages
  <2> QED BY <2>1, <2>2, SmallestOf
<1>2. PICK m \in M : \A j \in M : t - ev[m].observed <= t - ev[j].observed
  BY <1>1
<1> DEFINE Latest == {k \in M : ev[k].observed = ev[m].observed}
<1>3. \E k \in Latest : \A j \in Latest : k <= j
  <2>1. Latest \in SUBSET Nat /\ Latest # {}
    BY <1>0
  <2> HIDE DEF Latest
  <2> QED BY <2>1, SmallestOf
<1>4. PICK k \in Latest : \A j \in Latest : k <= j
  BY <1>3
<1>5. ASSUME NEW j \in M PROVE GoesBefore(ev, k, j)
  <2>1. ev[k].observed = ev[m].observed /\ t - ev[m].observed <= t - ev[j].observed
    BY <1>2, <1>4
  <2>2. ev[j].observed = ev[m].observed => k <= j
    BY <1>4
  <2> QED BY <1>0, <2>1, <2>2 DEF GoesBefore
<1>6. \E n \in M : \A j \in M : GoesBefore(ev, n, j)
  BY <1>4, <1>5
<1> QED BY <1>6 DEF BestEvidence, GoesBefore

\* There is only one such entry.
LEMMA BestIsUnique ==
  ASSUME NEW r, NEW ev, DOMAIN ev \subseteq Nat, \A k \in DOMAIN ev : ev[k].observed \in Nat,
         NEW k \in Matching(r, ev), \A j \in Matching(r, ev) : GoesBefore(ev, k, j)
  PROVE  BestEvidence(r, ev) = k
<1>1. \A n \in Matching(r, ev) : n \in Nat /\ ev[n].observed \in Nat
  BY DEF Matching
<1>2. ASSUME NEW n \in Matching(r, ev), \A j \in Matching(r, ev) : GoesBefore(ev, n, j)
      PROVE  n = k
  <2>1. GoesBefore(ev, n, k) /\ GoesBefore(ev, k, n)
    BY <1>2
  <2> QED BY <1>1, <2>1 DEF GoesBefore
<1>3. /\ BestEvidence(r, ev) \in Matching(r, ev)
      /\ \A j \in Matching(r, ev) : GoesBefore(ev, BestEvidence(r, ev), j)
  BY DEF BestEvidence, GoesBefore
<1> QED BY <1>2, <1>3

\* Evidence that has to be revalidated satisfies nothing.
LEMMA WithdrawnFails ==
  ASSUME NEW s \in ComponentState
  PROVE  ~StateSatisfies("REVALIDATION_REQUIRED", s)
<1>1. Rank("REVALIDATION_REQUIRED") = -4
  BY DEF Rank
<1>2. Rank(s) \in Int
  BY DEF Rank, ComponentState
<1> QED BY <1>1, <1>2 DEF StateSatisfies

\* What "satisfied" says of a component that must be there.
LEMMA SatisfiedMeans ==
  ASSUME NEW r, r.kind # "OPTIONAL", NEW ev, NEW t
  PROVE  LET e == ev[BestEvidence(r, ev)]
         IN  Verdict(r, ev, t) = "satisfied" <=>
               /\ r.kind # "UNSUPPORTED" /\ Matching(r, ev) # {}
               /\ StateSatisfies(e.state, r.min_state)
               /\ Compatible(r, e) /\ ~GenerationMismatch(r, e) /\ IsFresh(e, t)
BY DEF Verdict

\* The verdict on what is optional does not depend on the time.
LEMMA OptionalIgnoresTime ==
  ASSUME NEW r, r.kind = "OPTIONAL", NEW ev, NEW t, NEW u
  PROVE  Verdict(r, ev, t) = Verdict(r, ev, u)
BY DEF Verdict

LEMMA Verdicts ==
  ASSUME NEW r, NEW ev, NEW t
  PROVE  /\ Verdict(r, ev, t) \in {"satisfied", "stale", "missing", "incompatible"}
         /\ Verdict(r, ev, t) = "stale" =>
              LET e == ev[BestEvidence(r, ev)]
              IN  /\ r.kind # "OPTIONAL" /\ r.kind # "UNSUPPORTED" /\ Matching(r, ev) # {}
                  /\ StateSatisfies(e.state, r.min_state)
                  /\ Compatible(r, e) /\ ~GenerationMismatch(r, e) /\ ~IsFresh(e, t)
BY DEF Verdict

\* An incarnation is usable just when no requirement stands in the way.
LEMMA UsableMeans ==
  ASSUME NEW ev, NEW t
  PROVE  Usable(ev, t) <=> \A r \in profile : Verdict(r, ev, t) = "satisfied"
BY Verdicts DEF Usable, Outcome

\* STALE leaves nothing but stale components.
LEMMA StaleMeans ==
  ASSUME NEW ev, NEW t, Outcome(ev, t) = "STALE"
  PROVE  \A r \in profile : Verdict(r, ev, t) \in {"satisfied", "stale"}
BY Verdicts DEF Outcome

-----------------------------------------------------------------------------
(* Sequences of evidence *)

LEMMA WithdrawnFacts ==
  ASSUME NEW ev \in Seq(Evidence)
  PROVE  /\ Withdrawn(ev) \in Seq(Evidence) /\ Len(Withdrawn(ev)) = Len(ev)
         /\ \A k \in 1 .. Len(ev) :
              /\ Withdrawn(ev)[k].state = "REVALIDATION_REQUIRED"
              /\ Withdrawn(ev)[k].observed = ev[k].observed
<1> DEFINE w == Withdrawn(ev)
<1>1. Len(ev) \in Nat /\ DOMAIN ev = 1 .. Len(ev) /\ \A k \in 1 .. Len(ev) : ev[k] \in Evidence
  BY ElementOfSeq
<1>2. ASSUME NEW k \in 1 .. Len(ev)
      PROVE  /\ w[k] \in Evidence
             /\ w[k].state = "REVALIDATION_REQUIRED" /\ w[k].observed = ev[k].observed
  <2>1. w[k] = [ev[k] EXCEPT !.state = "REVALIDATION_REQUIRED"] /\ ev[k] \in Evidence
    BY <1>1 DEF Withdrawn
  <2> QED BY <2>1 DEF Evidence, ComponentState
<1>3. w = [k \in 1 .. Len(ev) |-> w[k]]
  BY <1>1 DEF Withdrawn
<1> HIDE DEF w
<1>4. w \in [1 .. Len(ev) -> Evidence]
  BY <1>2, <1>3
<1>5. w \in Seq(Evidence)
  BY <1>1, <1>4, SeqDef
<1>6. Len(w) = Len(ev)
  BY <1>1, <1>4, <1>5
<1> QED BY <1>2, <1>5, <1>6 DEF w

LEMMA PrefixFacts ==
  ASSUME NEW ev \in Seq(Evidence), NEW n \in 0 .. Len(ev)
  PROVE  /\ SubSeq(ev, 1, n) \in Seq(Evidence) /\ Len(SubSeq(ev, 1, n)) = n
         /\ \A k \in 1 .. n : SubSeq(ev, 1, n)[k] = ev[k]
<1>1. \A k \in 1 .. n : ev[k] \in Evidence
  BY ElementOfSeq
<1>2. /\ SubSeq(ev, 1, n) \in Seq(Evidence)
      /\ Len(SubSeq(ev, 1, n)) = IF 1 <= n THEN n - 1 + 1 ELSE 0
      /\ \A k \in 1 .. n - 1 + 1 : SubSeq(ev, 1, n)[k] = ev[1 + k - 1]
  BY <1>1, SubSeqProperties
<1> QED BY <1>2

\* A publication is stamped and put at the end.
LEMMA PublishFacts ==
  ASSUME TypeOK, NEW e \in Publications, PublishComponent(e)
  PROVE  LET n == Len(evidence) + 1
         IN  /\ evidence' \in Seq(Evidence) /\ Len(evidence') = n /\ n <= MaxEvidence
             /\ \A k \in 1 .. Len(evidence) : evidence'[k] = evidence[k]
             /\ evidence'[n] \in Evidence /\ evidence'[n].observed = now
             /\ evidence'[n].category = e.category
<1> DEFINE x == [e EXCEPT !.observed = now]
<1>1. x \in Evidence /\ x.observed = now /\ x.category = e.category
  <2>1. e \in Evidence
    BY EvidenceAssumption
  <2>2. now \in Nat
    BY ReadinessAssumption DEF TypeOK
  <2> QED BY <2>1, <2>2 DEF Evidence
<1>2. evidence \in Seq(Evidence) /\ evidence' = Append(evidence, x) /\ Len(evidence) < MaxEvidence
  BY DEF TypeOK, PublishComponent, HasRoom
<1> HIDE DEF x
<1> QED BY <1>1, <1>2, AppendProperties, ReadinessAssumption

LEMMA ReadinessInit == Init => ReadinessInv
<1> SUFFICES ASSUME Init PROVE ReadinessInv
  OBVIOUS
<1>1. evidence \in Seq(Evidence) /\ Len(evidence) = 0
  BY EmptySeq DEF Init
<1>2. /\ definition \in Definitions /\ profile \in Profiles /\ now = 0 /\ barrier = 0
  BY DEF Init
<1>3. TypeOK
  BY <1>1, <1>2, ReadinessAssumption DEF TypeOK
<1> QED BY <1>1, <1>2, <1>3 DEF ReadinessInv, StampsAreReadings, OldIsWithdrawn, NewIsNotAhead

LEMMA ReadinessStep == ReadinessInv /\ [Next]_vars => ReadinessInv'
<1> SUFFICES ASSUME ReadinessInv, [Next]_vars PROVE ReadinessInv'
  OBVIOUS
<1>0. /\ TypeOK /\ StampsAreReadings /\ OldIsWithdrawn /\ NewIsNotAhead
      /\ evidence \in Seq(Evidence) /\ Len(evidence) \in Nat /\ Len(evidence) <= MaxEvidence
      /\ now \in 0 .. MaxTime /\ barrier \in 0 .. Len(evidence)
      /\ definition \in Definitions /\ profile \in Profiles
      /\ MaxEvidence \in Nat /\ MaxTime \in Nat
  BY ReadinessAssumption DEF ReadinessInv, TypeOK
<1>1. ASSUME NEW e \in Publications, PublishComponent(e)
      PROVE  ReadinessInv'
  <2>1. UNCHANGED <<definition, profile, now, barrier>>
    BY <1>1 DEF PublishComponent
  <2>2. /\ evidence' \in Seq(Evidence) /\ Len(evidence') = Len(evidence) + 1
        /\ Len(evidence') <= MaxEvidence
        /\ \A k \in 1 .. Len(evidence) : evidence'[k] = evidence[k]
        /\ evidence'[Len(evidence) + 1].observed = now
    BY <1>0, <1>1, PublishFacts
  <2>3. TypeOK'
    BY <1>0, <2>1, <2>2 DEF TypeOK
  <2>4. StampsAreReadings'
    BY <1>0, <2>2 DEF StampsAreReadings
  <2>5. OldIsWithdrawn'
    BY <1>0, <2>1, <2>2 DEF OldIsWithdrawn
  <2>6. NewIsNotAhead'
    BY <1>0, <2>1, <2>2 DEF NewIsNotAhead
  <2> QED BY <2>3, <2>4, <2>5, <2>6 DEF ReadinessInv
<1>2. ASSUME NEW ev \in Seq(Evidence), Len(ev) <= Len(evidence),
             \A k \in 1 .. Len(ev) : ev[k].observed <= MaxTime,
             evidence' = Withdrawn(ev), barrier' = Len(ev), now' \in 0 .. MaxTime,
             UNCHANGED <<definition, profile>>
      PROVE  ReadinessInv'
  <2>1. /\ evidence' \in Seq(Evidence) /\ Len(evidence') = Len(ev) /\ Len(ev) \in Nat
        /\ \A k \in 1 .. Len(ev) : /\ evidence'[k].state = "REVALIDATION_REQUIRED"
                                   /\ evidence'[k].observed = ev[k].observed
    BY <1>2, WithdrawnFacts
  <2>2. TypeOK'
    BY <1>0, <1>2, <2>1 DEF TypeOK
  <2>3. StampsAreReadings' /\ OldIsWithdrawn'
    BY <1>2, <2>1 DEF StampsAreReadings, OldIsWithdrawn
  <2>4. NewIsNotAhead'
    BY <1>2, <2>1 DEF NewIsNotAhead
  <2> QED BY <2>2, <2>3, <2>4 DEF ReadinessInv
<1>3. CASE InvalidateComponents
  BY <1>0, <1>2, <1>3 DEF InvalidateComponents, StampsAreReadings
<1>4. ASSUME NEW n \in 0 .. Len(evidence), Load(n)
      PROVE  ReadinessInv'
  <2> DEFINE ev == SubSeq(evidence, 1, n)
  <2>1. /\ ev \in Seq(Evidence) /\ Len(ev) = n
        /\ \A k \in 1 .. n : ev[k] = evidence[k]
    BY <1>0, PrefixFacts
  <2>2. \A k \in 1 .. n : ev[k].observed <= MaxTime
    BY <1>0, <2>1 DEF StampsAreReadings
  <2>3. /\ evidence' = Withdrawn(ev) /\ barrier' = n /\ now' \in 0 .. MaxTime
        /\ UNCHANGED <<definition, profile>>
    BY <1>4 DEF Load
  <2> HIDE DEF ev
  <2> QED BY <1>0, <1>2, <2>1, <2>2, <2>3
<1>5. ASSUME \/ \E d \in Definitions : DefineEngine(d)
             \/ \E p \in Profiles : DefineProfile(p)
             \/ Tick
             \/ UNCHANGED vars
      PROVE  ReadinessInv'
  <2>1. /\ evidence' = evidence /\ barrier' = barrier
        /\ now' \in 0 .. MaxTime /\ now' >= now
        /\ definition' \in Definitions /\ profile' \in Profiles
    BY <1>0, <1>5 DEF DefineEngine, DefineProfile, Tick, vars
  <2>2. TypeOK'
    BY <1>0, <2>1 DEF TypeOK
  <2>3. StampsAreReadings' /\ OldIsWithdrawn'
    BY <1>0, <2>1 DEF StampsAreReadings, OldIsWithdrawn
  <2>4. NewIsNotAhead'
    <3> SUFFICES ASSUME NEW k \in barrier + 1 .. Len(evidence)
                 PROVE  evidence[k].observed <= now'
      BY <2>1 DEF NewIsNotAhead
    <3>1. evidence[k].observed <= now /\ k \in 1 .. Len(evidence)
      BY <1>0 DEF NewIsNotAhead
    <3>2. evidence[k] \in Evidence
      BY <1>0, <3>1, ElementOfSeq
    <3>3. evidence[k].observed \in Nat
      BY <3>2 DEF Evidence
    <3> QED BY <1>0, <2>1, <3>1, <3>3
  <2> QED BY <2>2, <2>3, <2>4 DEF ReadinessInv
<1> QED BY <1>1, <1>3, <1>4, <1>5 DEF Next

LEMMA ReadinessInvariant == Spec => []ReadinessInv
BY ReadinessInit, ReadinessStep, PTL DEF Spec

\* What the invariant says of the entries, and of the best of them.
LEMMA EvidenceFacts ==
  ASSUME ReadinessInv
  PROVE  /\ StampedUntil(evidence, MaxTime) /\ MaxTime \in Nat
         /\ DOMAIN evidence = 1 .. Len(evidence) /\ Len(evidence) \in Nat
         /\ \A k \in 1 .. Len(evidence) : evidence[k] \in Evidence
         /\ now \in Nat /\ barrier \in 0 .. Len(evidence)
<1>1. evidence \in Seq(Evidence) /\ now \in 0 .. MaxTime /\ barrier \in 0 .. Len(evidence)
  BY DEF ReadinessInv, TypeOK
<1>2. DOMAIN evidence = 1 .. Len(evidence) /\ Len(evidence) \in Nat
  BY <1>1
<1>3. \A k \in 1 .. Len(evidence) : evidence[k] \in Evidence
  BY <1>1, ElementOfSeq
<1>4. StampedUntil(evidence, MaxTime)
  BY <1>2, <1>3 DEF StampedUntil, ReadinessInv, StampsAreReadings, Evidence
<1> QED BY <1>1, <1>2, <1>3, <1>4, ReadinessAssumption

\* Requirements of the profile in force are well formed.
LEMMA RequirementFacts ==
  ASSUME TypeOK, NEW r \in profile
  PROVE  r.category \in Category /\ r.min_state \in ComponentState
BY ProfileAssumption DEF TypeOK, Requirement

\* The entry that satisfies a mandatory requirement was published since the
\* last invalidation and restart, and is not ahead of the clock.
LEMMA SatisfiedIsNew ==
  ASSUME ReadinessInv, NEW r \in profile, Matching(r, evidence) # {},
         StateSatisfies(evidence[BestEvidence(r, evidence)].state, r.min_state)
  PROVE  LET b == BestEvidence(r, evidence)
         IN  /\ b \in barrier + 1 .. Len(evidence) /\ b \in Matching(r, evidence)
             /\ evidence[b].observed \in Nat /\ evidence[b].observed <= now
             /\ evidence[b] \in Evidence
<1> DEFINE b == BestEvidence(r, evidence)
<1>1. b \in Matching(r, evidence)
  BY EvidenceFacts, BestExists
<1>2. b \in 1 .. Len(evidence)
  BY <1>1, EvidenceFacts DEF Matching
<1>3. evidence[b].state # "REVALIDATION_REQUIRED"
  BY WithdrawnFails, RequirementFacts DEF ReadinessInv
<1> HIDE DEF b
<1>4. b \in barrier + 1 .. Len(evidence)
  BY <1>2, <1>3, EvidenceFacts DEF ReadinessInv, OldIsWithdrawn
<1>5. evidence[b] \in Evidence /\ evidence[b].observed <= now
  BY <1>2, <1>4, EvidenceFacts DEF ReadinessInv, NewIsNotAhead
<1> QED BY <1>1, <1>4, <1>5 DEF b, Evidence

-----------------------------------------------------------------------------
(* What a publication decides *)

\* The entry put at the end decides if it is stamped later than those before it.
LEMMA NewestIsBest ==
  ASSUME NEW r, NEW old, NEW ev, NEW n \in Nat, DOMAIN old = 1 .. n,
         DOMAIN ev = 1 .. n + 1, \A k \in 1 .. n : ev[k] = old[k],
         \A k \in 1 .. n + 1 : ev[k].observed \in Nat,
         Matches(r, ev[n + 1]),
         \A k \in Matching(r, old) : old[k].observed < ev[n + 1].observed
  PROVE  BestEvidence(r, ev) = n + 1 /\ Matching(r, ev) # {}
<1>1. n + 1 \in Matching(r, ev)
  BY DEF Matching
<1>2. ASSUME NEW j \in Matching(r, ev) PROVE GoesBefore(ev, n + 1, j)
  <2>1. CASE j = n + 1
    BY <2>1 DEF GoesBefore
  <2>2. CASE j # n + 1
    <3>1. j \in 1 .. n /\ ev[j] = old[j] /\ j \in Matching(r, old)
      BY <2>2 DEF Matching
    <3> QED BY <3>1 DEF GoesBefore
  <2> QED BY <2>1, <2>2
<1>3. DOMAIN ev \subseteq Nat /\ \A k \in DOMAIN ev : ev[k].observed \in Nat
  OBVIOUS
<1> QED BY <1>1, <1>2, <1>3, BestIsUnique

\* An entry on another component changes nothing.
LEMMA OthersStay ==
  ASSUME NEW r, r.kind # "OPTIONAL", NEW old, NEW ev, NEW n \in Nat, NEW t,
         DOMAIN old = 1 .. n, DOMAIN ev = 1 .. n + 1, \A k \in 1 .. n : ev[k] = old[k],
         NEW u \in Nat, StampedUntil(old, u), ev[n + 1].observed \in Nat,
         ~Matches(r, ev[n + 1])
  PROVE  Verdict(r, ev, t) = "satisfied" <=> Verdict(r, old, t) = "satisfied"
<1>1. Matching(r, ev) = Matching(r, old)
  <2>1. ASSUME NEW k PROVE k \in Matching(r, ev) <=> k \in Matching(r, old)
    <3>1. k \in 1 .. n + 1 <=> k \in 1 .. n \/ k = n + 1
      OBVIOUS
    <3> QED BY <3>1 DEF Matching
  <2> QED BY <2>1
<1>2. CASE Matching(r, old) = {}
  BY <1>1, <1>2, SatisfiedMeans
<1>3. CASE Matching(r, old) # {}
  <2> DEFINE b == BestEvidence(r, old)
  <2>1. /\ b \in Matching(r, old)
        /\ \A j \in Matching(r, old) : GoesBefore(old, b, j)
    BY <1>3, BestExists
  <2>2. \A j \in Matching(r, old) : j \in 1 .. n /\ ev[j] = old[j]
    BY DEF Matching
  <2>3. \A j \in Matching(r, ev) : GoesBefore(ev, b, j)
    BY <1>1, <2>1, <2>2 DEF GoesBefore
  <2>4. DOMAIN ev \subseteq Nat
    OBVIOUS
  <2>5. ASSUME NEW k \in DOMAIN ev PROVE ev[k].observed \in Nat
    <3>1. k \in 1 .. n \/ k = n + 1
      OBVIOUS
    <3> QED BY <3>1 DEF StampedUntil
  <2>6. BestEvidence(r, ev) = b
    <3> HIDE DEF b
    <3> QED BY <1>1, <2>1, <2>3, <2>4, <2>5, BestIsUnique
  <2>7. ev[BestEvidence(r, ev)] = old[BestEvidence(r, old)]
    BY <2>1, <2>2, <2>6
  <2> QED BY <1>1, <2>7, SatisfiedMeans
<1> QED BY <1>2, <1>3

\* Withdrawn evidence satisfies nothing that must be there.
LEMMA NothingWithdrawnSatisfies ==
  ASSUME NEW r \in Requirement, r.kind # "OPTIONAL", NEW ev, NEW n \in Nat, NEW t,
         NEW u \in Nat, StampedUntil(ev, u),
         \A k \in DOMAIN ev : ev[k].state = "REVALIDATION_REQUIRED"
  PROVE  Verdict(r, ev, t) # "satisfied"
<1> SUFFICES ASSUME Verdict(r, ev, t) = "satisfied" PROVE FALSE
  OBVIOUS
<1>1. /\ Matching(r, ev) # {}
      /\ StateSatisfies(ev[BestEvidence(r, ev)].state, r.min_state)
  BY SatisfiedMeans
<1>2. BestEvidence(r, ev) \in DOMAIN ev
  BY <1>1, BestExists DEF Matching
<1>3. r.min_state \in ComponentState
  BY DEF Requirement
<1> QED BY <1>1, <1>2, <1>3, WithdrawnFails

\* The verdict in the next state, under the same definition and profile.
LEMMA VerdictNext ==
  ASSUME NEW r, definition' = definition
  PROVE  Verdict(r, evidence, now)' = Verdict(r, evidence', now')
BY DEF Verdict, GenerationMismatch, Compatible, StateSatisfies, IsFresh

LEMMA UsableNext ==
  ASSUME definition' = definition, profile' = profile
  PROVE  Usable(evidence, now)' = Usable(evidence', now')
BY DEF Usable, Outcome, Verdict, GenerationMismatch, Compatible, StateSatisfies, IsFresh

\* What was satisfied an instant later is satisfied now.
LEMMA VerdictDecays ==
  ASSUME ReadinessInv, NEW r \in profile, Verdict(r, evidence, now + 1) = "satisfied"
  PROVE  Verdict(r, evidence, now) = "satisfied"
<1>1. CASE r.kind = "OPTIONAL"
  BY <1>1, OptionalIgnoresTime
<1>2. CASE r.kind # "OPTIONAL"
  <2> DEFINE e == evidence[BestEvidence(r, evidence)]
  <2>1. /\ r.kind # "UNSUPPORTED" /\ Matching(r, evidence) # {}
        /\ StateSatisfies(e.state, r.min_state)
        /\ Compatible(r, e) /\ ~GenerationMismatch(r, e) /\ IsFresh(e, now + 1)
    BY <1>2, SatisfiedMeans
  <2>2. e.observed \in Nat /\ e.observed <= now /\ e \in Evidence /\ now \in Nat
    BY <2>1, SatisfiedIsNew, EvidenceFacts
  <2>3. IsFresh(e, now)
    <3> HIDE DEF e
    <3>1. e.max_age \in Nat
      BY <2>2 DEF Evidence
    <3> QED BY <2>1, <2>2, <3>1 DEF IsFresh
  <2> QED BY <1>2, <2>1, <2>3, SatisfiedMeans
<1> QED BY <1>1, <1>2

-----------------------------------------------------------------------------
(* The theorems *)

\* The state keeps its shape: in particular publish_component never exceeds
\* max_component_evidence.
THEOREM ReadinessTypeCorrect == Spec => []TypeOK
<1>1. ReadinessInv => TypeOK
  BY DEF ReadinessInv
<1> QED BY <1>1, ReadinessInvariant, PTL

\* An incarnation that evaluates as usable had every mandatory component
\* published again since the last invalidation and the last load.
THEOREM InvalidationCorrect == Spec => []InvalidationHolds
<1>1. ReadinessInv => InvalidationHolds
  <2> SUFFICES ASSUME ReadinessInv, Usable(evidence, now), NEW r \in Mandatory
               PROVE  \E k \in barrier + 1 .. Len(evidence) :
                        Matches(r, evidence[k]) /\ Meets(r, evidence[k])
    BY DEF InvalidationHolds
  <2> DEFINE b == BestEvidence(r, evidence)
             e == evidence[b]
  <2>1. r \in profile /\ r.kind # "OPTIONAL"
    BY DEF Mandatory
  <2>2. /\ Matching(r, evidence) # {} /\ StateSatisfies(e.state, r.min_state)
        /\ Compatible(r, e) /\ ~GenerationMismatch(r, e) /\ IsFresh(e, now)
    BY <2>1, UsableMeans, SatisfiedMeans
  <2>3. b \in barrier + 1 .. Len(evidence) /\ b \in Matching(r, evidence)
    BY <2>1, <2>2, SatisfiedIsNew
  <2>4. Matches(r, e) /\ Meets(r, e)
    BY <2>2, <2>3 DEF Matching, Meets
  <2> QED BY <2>3, <2>4
<1> QED BY <1>1, ReadinessInvariant, PTL

\* STALE never hides a failure, an incompatibility or a missing component: the
\* same reports made once more satisfy every requirement.
THEOREM StaleCorrect == Spec => []StaleIsRenewable
<1>1. ReadinessInv => StaleIsRenewable
  <2> SUFFICES ASSUME ReadinessInv, Outcome(evidence, now) = "STALE", now > 0,
                      NEW r \in profile, Verdict(r, evidence, now) # "satisfied"
               PROVE  Verdict(r, Renewed(r), now) = "satisfied"
    BY DEF StaleIsRenewable
  <2> DEFINE b  == BestEvidence(r, evidence)
             e  == evidence[b]
             n  == Len(evidence)
             x  == [e EXCEPT !.observed = now]
             ev == Append(evidence, x)
  <2>1. Verdict(r, evidence, now) = "stale"
    BY StaleMeans
  <2>2. /\ r.kind # "OPTIONAL" /\ r.kind # "UNSUPPORTED" /\ Matching(r, evidence) # {}
        /\ StateSatisfies(e.state, r.min_state)
        /\ Compatible(r, e) /\ ~GenerationMismatch(r, e) /\ ~IsFresh(e, now)
    BY <2>1, Verdicts
  <2>3. /\ e \in Evidence /\ e.observed \in Nat /\ e.observed <= now
        /\ b \in Matching(r, evidence) /\ now \in Nat
    BY <2>2, SatisfiedIsNew, EvidenceFacts
  <2>4. e.observed < now
    <3> HIDE DEF e
    <3>1. e.max_age \in Nat
      BY <2>3 DEF Evidence
    <3> QED BY <2>2, <2>3, <3>1 DEF IsFresh
  <2>5. \A k \in Matching(r, evidence) : evidence[k].observed < now
    <3> SUFFICES ASSUME NEW k \in Matching(r, evidence) PROVE evidence[k].observed < now
      OBVIOUS
    <3>1. GoesBefore(evidence, b, k)
      BY EvidenceFacts, BestExists
    <3>2. evidence[k].observed \in Nat
      BY EvidenceFacts DEF Matching, StampedUntil
    <3> QED BY <2>3, <2>4, <3>1, <3>2 DEF GoesBefore
  <2>6. /\ x \in Evidence /\ x.observed = now /\ x.state = e.state /\ x.max_age = e.max_age
        /\ x.compatibility = e.compatibility /\ x.generation = e.generation
        /\ x.category = e.category /\ x.subject = e.subject
    <3> HIDE DEF e
    <3> QED BY <2>3 DEF Evidence
  <2>7. /\ Renewed(r) = ev /\ n \in Nat /\ DOMAIN evidence = 1 .. n
        /\ DOMAIN ev = 1 .. n + 1 /\ ev[n + 1] = x
        /\ \A k \in 1 .. n : ev[k] = evidence[k]
    <3>1. evidence \in Seq(Evidence)
      BY DEF ReadinessInv, TypeOK
    <3>2. Renewed(r) = ev
      BY DEF Renewed
    <3> HIDE DEF x
    <3>3. /\ ev \in Seq(Evidence) /\ Len(ev) = n + 1 /\ ev[n + 1] = x
          /\ \A k \in 1 .. n : ev[k] = evidence[k]
      BY <2>6, <3>1, AppendProperties
    <3> QED BY <3>1, <3>2, <3>3
  <2>8. /\ Matches(r, x) /\ StateSatisfies(x.state, r.min_state) /\ Compatible(r, x)
        /\ ~GenerationMismatch(r, x)
    <3> HIDE DEF x
    <3> QED BY <2>2, <2>3, <2>6 DEF Matches, Matching, Compatible, GenerationMismatch
  <2>9. IsFresh(x, now)
    <3> HIDE DEF x, e
    <3>1. x.max_age \in Nat
      BY <2>6 DEF Evidence
    <3> QED BY <2>3, <2>6, <3>1 DEF IsFresh
  <2>10. BestEvidence(r, ev) = n + 1 /\ Matching(r, ev) # {}
    <3>1. \A k \in 1 .. n + 1 : ev[k].observed \in Nat
      <4> SUFFICES ASSUME NEW k \in 1 .. n + 1 PROVE ev[k].observed \in Nat
        OBVIOUS
      <4>1. k \in 1 .. n \/ k = n + 1
        BY <2>7
      <4> HIDE DEF x, ev
      <4> QED BY <2>3, <2>6, <2>7, <4>1, EvidenceFacts DEF StampedUntil
    <3> HIDE DEF x, ev, e
    <3> QED BY <2>5, <2>6, <2>7, <2>8, <3>1, NewestIsBest
  <2> HIDE DEF x, ev, e
  <2> QED BY <2>2, <2>7, <2>8, <2>9, <2>10, SatisfiedMeans
<1> QED BY <1>1, ReadinessInvariant, PTL

\* Only a tick, or a restart whose clock happens to be one further, moves the
\* clock by one and leaves the evidence as it is.
LEMMA TickKeepsRules ==
  ASSUME ReadinessInv, [Next]_vars, now' = now + 1
  PROVE  definition' = definition /\ profile' = profile
<1>1. now' # now
  BY EvidenceFacts
<1>2. UNCHANGED <<definition, profile>> \/ now' = now
  BY DEF Next, vars, PublishComponent, InvalidateComponents, Load, DefineEngine,
         DefineProfile, Tick
<1> QED BY <1>1, <1>2

\* Time alone never makes an incarnation usable.
THEOREM TimeCorrect == Spec => TimeOnlyDecays
<1>1. ReadinessInv /\ [Next]_vars =>
        [now' = now + 1 /\ evidence' = evidence =>
           (Usable(evidence, now)' => Usable(evidence, now))]_vars
  <2> SUFFICES ASSUME ReadinessInv, [Next]_vars, now' = now + 1, evidence' = evidence,
                      Usable(evidence, now)'
               PROVE  Usable(evidence, now)
    OBVIOUS
  <2>1. definition' = definition /\ profile' = profile
    BY TickKeepsRules
  <2>2. Usable(evidence, now + 1)
    BY <2>1, UsableNext
  <2> QED BY <2>2, UsableMeans, VerdictDecays
<1> QED BY <1>1, ReadinessInvariant, PTL DEF Spec, TimeOnlyDecays

\* Only a publication makes the evidence longer.
LEMMA GrowsByPublishing ==
  ASSUME ReadinessInv, [Next]_vars, Len(evidence') = Len(evidence) + 1
  PROVE  \E e \in Publications : PublishComponent(e)
<1>0. evidence \in Seq(Evidence) /\ Len(evidence) \in Nat
  BY DEF ReadinessInv, TypeOK
<1>1. CASE InvalidateComponents
  BY <1>0, <1>1, WithdrawnFacts DEF InvalidateComponents
<1>2. ASSUME NEW n \in 0 .. Len(evidence), Load(n) PROVE FALSE
  <2>1. SubSeq(evidence, 1, n) \in Seq(Evidence) /\ Len(SubSeq(evidence, 1, n)) = n
    BY <1>0, PrefixFacts
  <2>2. Len(evidence') = n
    BY <1>2, <2>1, WithdrawnFacts DEF Load
  <2> QED BY <1>0, <2>2
<1>3. CASE evidence' = evidence
  BY <1>0, <1>3
<1> QED BY <1>1, <1>2, <1>3 DEF Next, vars, DefineEngine, DefineProfile, Tick

\* The latest report on a component decides, for better or worse.
THEOREM RenewalCorrect == Spec => RenewalDecides
<1>1. ReadinessInv /\ [Next]_vars =>
        [\A r \in Mandatory :
           LET n == Len(evidence) + 1 IN
           /\ Len(evidence') = n
           /\ r.kind # "UNSUPPORTED"
           /\ Matches(r, evidence'[n])
           /\ \A k \in Matching(r, evidence) : evidence[k].observed < now
           => (Verdict(r, evidence', now) = "satisfied" <=> Meets(r, evidence'[n]))]_vars
  <2> DEFINE n == Len(evidence) + 1
  <2> SUFFICES ASSUME ReadinessInv, [Next]_vars, NEW r \in Mandatory, Len(evidence') = n,
                      r.kind # "UNSUPPORTED", Matches(r, evidence'[n]),
                      \A k \in Matching(r, evidence) : evidence[k].observed < now
               PROVE  Verdict(r, evidence', now) = "satisfied" <=> Meets(r, evidence'[n])
    OBVIOUS
  <2>1. PICK e \in Publications : PublishComponent(e)
    BY GrowsByPublishing
  <2>2. PICK ev : ev = evidence'
    OBVIOUS
  <2>3. /\ ev \in Seq(Evidence) /\ Len(ev) = n
        /\ \A k \in 1 .. Len(evidence) : ev[k] = evidence[k]
        /\ ev[n] \in Evidence /\ ev[n].observed = now
    BY <2>1, <2>2, PublishFacts DEF ReadinessInv
  <2>4. /\ DOMAIN evidence = 1 .. Len(evidence) /\ Len(evidence) \in Nat
        /\ \A k \in 1 .. Len(evidence) : evidence[k].observed \in Nat
        /\ now \in Nat
    BY EvidenceFacts DEF StampedUntil
  <2>5. DOMAIN ev = 1 .. Len(evidence) + 1
    BY <2>3
  <2>6. \A k \in 1 .. Len(evidence) + 1 : ev[k].observed \in Nat
    <3> SUFFICES ASSUME NEW k \in 1 .. Len(evidence) + 1 PROVE ev[k].observed \in Nat
      OBVIOUS
    <3>1. k \in 1 .. Len(evidence) \/ k = n
      BY <2>4
    <3> QED BY <2>3, <2>4, <3>1
  <2>7. BestEvidence(r, ev) = n /\ Matching(r, ev) # {}
    <3>1. PICK m \in Nat : m = Len(evidence)
      BY <2>4
    <3>2. Matches(r, ev[m + 1])
      BY <2>2, <3>1
    <3>3. \A k \in Matching(r, evidence) : evidence[k].observed < ev[m + 1].observed
      BY <2>3, <3>1
    <3>4. /\ DOMAIN evidence = 1 .. m /\ DOMAIN ev = 1 .. m + 1
          /\ \A k \in 1 .. m : ev[k] = evidence[k]
          /\ \A k \in 1 .. m + 1 : ev[k].observed \in Nat
      BY <2>3, <2>4, <2>5, <2>6, <3>1
    <3>5. BestEvidence(r, ev) = m + 1 /\ Matching(r, ev) # {}
      BY <3>2, <3>3, <3>4, NewestIsBest
    <3> QED BY <3>1, <3>5
  <2>8. Verdict(r, ev, now) = "satisfied" <=> Meets(r, ev[n])
    BY <2>7, SatisfiedMeans DEF Meets, Mandatory
  <2> QED BY <2>2, <2>8
<1> QED BY <1>1, ReadinessInvariant, PTL DEF Spec, RenewalDecides

-----------------------------------------------------------------------------
(* The abstract view *)

\* The categories that the evaluator finds satisfied.
SatisfiedCategories ==
  {r.category : r \in {q \in Mandatory : Verdict(q, evidence, now) = "satisfied"}}

LEMMA CategoriesType ==
  ASSUME TypeOK
  PROVE  SatisfiedCategories \subseteq Category
BY RequirementFacts DEF SatisfiedCategories, Mandatory

\* Under the same rules a step changes the view as it changes the verdicts.
LEMMA CategoriesNext ==
  ASSUME definition' = definition, profile' = profile
  PROVE  SatisfiedCategories' =
           {r.category : r \in {q \in Mandatory : Verdict(q, evidence', now') = "satisfied"}}
<1>1. \A q : Verdict(q, evidence, now)' = Verdict(q, evidence', now')
  BY VerdictNext
<1>2. Mandatory' = Mandatory
  BY DEF Mandatory
<1> QED BY <1>1, <1>2 DEF SatisfiedCategories

\* Withdrawing evidence leaves no category satisfied.
LEMMA WithdrawalLoses ==
  ASSUME ReadinessInv, NEW ev \in Seq(Evidence), Len(ev) <= Len(evidence),
         \A k \in 1 .. Len(ev) : ev[k].observed <= MaxTime,
         evidence' = Withdrawn(ev), UNCHANGED <<definition, profile>>
  PROVE  SatisfiedCategories' = {}
<1>1. PICK w : w = Withdrawn(ev)
  OBVIOUS
<1>2. PICK t : t = now'
  OBVIOUS
<1>3. /\ w \in Seq(Evidence) /\ Len(w) = Len(ev)
      /\ \A k \in 1 .. Len(ev) : /\ w[k].state = "REVALIDATION_REQUIRED"
                                 /\ w[k].observed = ev[k].observed
  BY <1>1, WithdrawnFacts
<1>4. DOMAIN w = 1 .. Len(ev) /\ Len(ev) \in Nat
  BY <1>3
<1>5. \A k \in 1 .. Len(ev) : ev[k] \in Evidence
  BY ElementOfSeq
<1>6. StampedUntil(w, MaxTime)
  BY <1>3, <1>4, <1>5 DEF StampedUntil, Evidence
<1>7. ASSUME NEW q \in Mandatory PROVE Verdict(q, w, t) # "satisfied"
  <2>1. q \in Requirement /\ q.kind # "OPTIONAL"
    BY ProfileAssumption DEF Mandatory, ReadinessInv, TypeOK
  <2> QED BY <1>3, <1>4, <1>6, <2>1, NothingWithdrawnSatisfies, ReadinessAssumption
<1> QED BY <1>1, <1>2, <1>7, CategoriesNext

LEMMA ViewStep ==
  ASSUME ReadinessInv, [Next]_vars
  PROVE  \/ SatisfiedCategories' \subseteq SatisfiedCategories
            /\ UNCHANGED <<definition, profile>>
         \/ <<definition, profile>>' # <<definition, profile>>
            /\ SatisfiedCategories' \subseteq Category
         \/ \E c \in Category :
              /\ SatisfiedCategories' \subseteq Category
              /\ SatisfiedCategories' \ {c} = SatisfiedCategories \ {c}
              /\ UNCHANGED <<definition, profile>>
<1>0. TypeOK /\ TypeOK' /\ evidence \in Seq(Evidence)
  BY ReadinessStep DEF ReadinessInv, TypeOK
<1>1. SatisfiedCategories' \subseteq Category
  <2>1. profile' \in Profiles
    BY <1>0 DEF TypeOK
  <2>2. \A r \in profile' : r.category \in Category
    BY <2>1, ProfileAssumption DEF Requirement
  <2> QED BY <2>2 DEF SatisfiedCategories, Mandatory
<1>2. ASSUME NEW e \in Publications, PublishComponent(e)
      PROVE  /\ UNCHANGED <<definition, profile>> /\ e.category \in Category
             /\ SatisfiedCategories' \ {e.category} = SatisfiedCategories \ {e.category}
  <2> DEFINE n == Len(evidence)
  <2>1. UNCHANGED <<definition, profile, now>>
    BY <1>2 DEF PublishComponent
  <2>2. PICK ev : ev = evidence'
    OBVIOUS
  <2>3. /\ ev \in Seq(Evidence) /\ Len(ev) = n + 1 /\ n \in Nat
        /\ \A k \in 1 .. n : ev[k] = evidence[k]
        /\ ev[n + 1] \in Evidence /\ ev[n + 1].category = e.category
    BY <1>0, <1>2, <2>2, PublishFacts
  <2>4. DOMAIN ev = 1 .. n + 1 /\ ev[n + 1].observed \in Nat
    BY <2>3 DEF Evidence
  <2>5. ASSUME NEW q \in Mandatory, q.category # e.category
        PROVE  Verdict(q, ev, now) = "satisfied" <=> Verdict(q, evidence, now) = "satisfied"
    <3>1. ~Matches(q, ev[n + 1]) /\ q.kind # "OPTIONAL"
      BY <2>3, <2>5 DEF Matches, Mandatory
    <3>2. /\ DOMAIN evidence = 1 .. n /\ StampedUntil(evidence, MaxTime) /\ MaxTime \in Nat
      BY EvidenceFacts
    <3> HIDE DEF n
    <3> QED BY <2>3, <2>4, <3>1, <3>2, OthersStay
  <2>6. SatisfiedCategories' =
          {r.category : r \in {q \in Mandatory : Verdict(q, ev, now) = "satisfied"}}
    BY <2>1, <2>2, CategoriesNext
  <2>7. e.category \in Category
    BY EvidenceAssumption DEF Evidence
  <2> QED BY <2>1, <2>5, <2>6, <2>7 DEF SatisfiedCategories
<1>3. CASE InvalidateComponents
  <2>1. SatisfiedCategories' = {}
    <3>1. \A k \in 1 .. Len(evidence) : evidence[k].observed <= MaxTime
      BY DEF ReadinessInv, StampsAreReadings
    <3>2. Len(evidence) <= Len(evidence)
      BY EvidenceFacts
    <3> QED BY <1>0, <1>3, <3>1, <3>2, WithdrawalLoses DEF InvalidateComponents
  <2> QED BY <1>3, <2>1 DEF InvalidateComponents
<1>4. ASSUME NEW m \in 0 .. Len(evidence), Load(m)
      PROVE  SatisfiedCategories' = {} /\ UNCHANGED <<definition, profile>>
  <2> DEFINE ev == SubSeq(evidence, 1, m)
  <2>1. /\ ev \in Seq(Evidence) /\ Len(ev) = m /\ \A k \in 1 .. m : ev[k] = evidence[k]
    BY <1>0, PrefixFacts
  <2>2. /\ \A k \in 1 .. Len(ev) : ev[k].observed <= MaxTime
        /\ Len(ev) <= Len(evidence)
    BY <2>1, EvidenceFacts DEF ReadinessInv, StampsAreReadings
  <2>3. evidence' = Withdrawn(ev) /\ UNCHANGED <<definition, profile>>
    BY <1>4 DEF Load
  <2> HIDE DEF ev
  <2> QED BY <2>1, <2>2, <2>3, WithdrawalLoses
<1>5. CASE Tick
  <2>1. UNCHANGED <<definition, profile, evidence>> /\ now' = now + 1
    BY <1>5 DEF Tick
  <2>2. SatisfiedCategories' =
          {r.category : r \in {q \in Mandatory : Verdict(q, evidence, now + 1) = "satisfied"}}
    BY <2>1, CategoriesNext
  <2>3. Mandatory \subseteq profile
    BY DEF Mandatory
  <2> QED BY <2>1, <2>2, <2>3, VerdictDecays DEF SatisfiedCategories
<1>6. CASE \/ \E d \in Definitions : DefineEngine(d)
           \/ \E p \in Profiles : DefineProfile(p)
           \/ UNCHANGED vars
  <2>1. CASE UNCHANGED <<definition, profile>>
    <3>1. evidence' = evidence /\ now' = now
      BY <1>6 DEF DefineEngine, DefineProfile, vars
    <3>2. SatisfiedCategories' = SatisfiedCategories
      BY <2>1, <3>1, CategoriesNext DEF SatisfiedCategories
    <3> QED BY <2>1, <3>2
  <2>2. CASE ~UNCHANGED <<definition, profile>>
    BY <1>1, <2>2
  <2> QED BY <2>1, <2>2
<1> QED BY <1>1, <1>2, <1>3, <1>4, <1>5, <1>6 DEF Next

\* The components that must be there look to the rest of the runtime like the
\* abstract view: a category is gained only by a publication on it, and age,
\* invalidation and restart only lose categories.
THEOREM ViewCorrect == Spec => ImplementsEvidenceView
<1>1. Init => View!ViewInit
  <2>1. Init => TypeOK
    BY ReadinessInit DEF ReadinessInv
  <2> QED BY <2>1, CategoriesType DEF View!ViewInit, SatisfiedCategories
<1>2. ReadinessInv /\ [Next]_vars =>
        [View!ViewNext]_<<<<definition, profile>>,
           {r.category : r \in {q \in Mandatory : Verdict(q, evidence, now) = "satisfied"}}>>
  BY ViewStep DEF View!ViewNext, View!Lost, View!Redefined, View!Published,
                  SatisfiedCategories
<1> QED BY <1>1, <1>2, ReadinessInvariant, PTL DEF Spec, ImplementsEvidenceView, View!ViewSpec
=============================================================================
