------------------------- MODULE PreparationProofs -------------------------
(***************************************************************************)
(* Preparation for every choice of its constants: plans and attempts add no *)
(* step that Residency does not allow, so what ResidencyProofs and          *)
(* ServingProofs show of the runtime holds with them; and no attempt that   *)
(* was cancelled is ever published.                                         *)
(***************************************************************************)
EXTENDS Preparation, ServingProofs

\* Every step with plans and attempts is one of the runtime, or leaves the
\* runtime's own state alone.
LEMMA PrepStepsAreSteps ==
  ASSUME RecordsType, [PrepNext]_<<vars, prepVars>>
  PROVE  [Next]_vars
<1>1. CASE UNCHANGED <<vars, prepVars>> \/ (Operations /\ UNCHANGED prepVars)
  BY <1>1 DEF Next
<1>2. CASE \E i \in DOMAIN incarnations : CreatePreparationPlan(i)
  BY <1>2 DEF CreatePreparationPlan
<1>3. CASE \E p \in DOMAIN plans : BeginPreparation(p)
  BY <1>3 DEF BeginPreparation
<1>4. ASSUME NEW a \in DOMAIN attempts, CompletePreparation(a)
      PROVE  [Next]_vars
  <2>1. attempts[a].incarnation \in DOMAIN incarnations
    BY DEF RecordsType
  <2>2. PublishReady(attempts[a].incarnation) \/ UNCHANGED vars
    BY <1>4 DEF CompletePreparation
  <2> QED BY <2>1, <2>2 DEF Next
<1>5. CASE \E a \in DOMAIN attempts :
             StepPreparation(a) \/ CancelPreparation(a) \/ RollbackPreparation(a)
  BY <1>5 DEF StepPreparation, CancelPreparation, RollbackPreparation
<1> QED BY <1>1, <1>2, <1>3, <1>4, <1>5 DEF PrepNext

\* An operation on an attempt rewrites it, keeps whose it is and of which plan
\* and epoch, and never makes it both cancelled and published.  If it ends the
\* attempt, the incarnation has no active attempt afterwards.
LEMMA AttemptWrites ==
  ASSUME RecordsType, NEW a \in DOMAIN attempts,
         \/ StepPreparation(a) \/ CompletePreparation(a)
         \/ CancelPreparation(a) \/ RollbackPreparation(a)
  PROVE  \E at \in Attempt :
           /\ attempts' = [attempts EXCEPT ![a] = at]
           /\ at.incarnation = attempts[a].incarnation
           /\ at.plan = attempts[a].plan /\ at.epoch = attempts[a].epoch
           /\ at.next_step \in {attempts[a].next_step, NextStep(a)}
           /\ at.cancelled /\ at.published_ready =>
                attempts[a].cancelled /\ attempts[a].published_ready
           /\ \/ /\ active_attempt' = active_attempt
                 /\ at.cancelled = attempts[a].cancelled
                 /\ at.published_ready = attempts[a].published_ready
              \/ active_attempt' = Erase(active_attempt, attempts[a].incarnation)
<1> DEFINE Rewrite(at) ==
      /\ attempts' = [attempts EXCEPT ![a] = at]
      /\ at.incarnation = attempts[a].incarnation
      /\ at.plan = attempts[a].plan /\ at.epoch = attempts[a].epoch
      /\ at.next_step \in {attempts[a].next_step, NextStep(a)}
      /\ at.cancelled /\ at.published_ready =>
           attempts[a].cancelled /\ attempts[a].published_ready
      /\ \/ /\ active_attempt' = active_attempt
            /\ at.cancelled = attempts[a].cancelled
            /\ at.published_ready = attempts[a].published_ready
         \/ active_attempt' = Erase(active_attempt, attempts[a].incarnation)
<1>1. attempts[a] \in Attempt
  BY DEF RecordsType
<1>2. CASE StepPreparation(a)
  <2> DEFINE n == NextStep(a)
             s == IF n >= plans[attempts[a].plan].steps THEN "PREPARING"
                                                        ELSE attempts[a].state
             at == [attempts[a] EXCEPT !.next_step = n, !.state = s]
  <2>1. n \in Nat
    BY <1>1 DEF NextStep, Attempt
  <2>2. s \in {"PLANNED", "PREPARING", "PREPARED", "FAILED"}
    BY <1>1 DEF Attempt
  <2>3. attempts' = [attempts EXCEPT ![a] = at] /\ active_attempt' = active_attempt
    BY <1>2 DEF StepPreparation
  <2>4. n = NextStep(a)
    OBVIOUS
  <2> HIDE DEF n, s
  <2>5. at \in Attempt
    BY <1>1, <2>1, <2>2 DEF Attempt
  <2>6. Rewrite(at)
    BY <1>1, <2>3, <2>4 DEF Attempt
  <2> QED BY <2>5, <2>6
<1>3. CASE CompletePreparation(a)
  <2> DEFINE ready == [attempts[a] EXCEPT !.state = "PREPARED", !.published_ready = TRUE]
             failed == [attempts[a] EXCEPT !.state = "FAILED"]
  <2>1. ready \in Attempt /\ failed \in Attempt
    BY <1>1 DEF Attempt
  <2>2. ~attempts[a].cancelled
    BY <1>3 DEF CompletePreparation, MayComplete
  <2>3. \/ attempts' = [attempts EXCEPT ![a] = ready]
        \/ attempts' = [attempts EXCEPT ![a] = failed]
    BY <1>3 DEF CompletePreparation
  <2>4. active_attempt' = Erase(active_attempt, attempts[a].incarnation)
    BY <1>3 DEF CompletePreparation
  <2>5. Rewrite(ready) \/ Rewrite(failed)
    BY <1>1, <2>2, <2>3, <2>4 DEF Attempt
  <2> QED BY <2>1, <2>5
<1>4. CASE CancelPreparation(a)
  <2> DEFINE at == [attempts[a] EXCEPT !.cancelled = TRUE, !.state = "FAILED"]
  <2>1. at \in Attempt
    BY <1>1 DEF Attempt
  <2>2. attempts' = [attempts EXCEPT ![a] = at] /\ ~attempts[a].published_ready
        /\ active_attempt' = Erase(active_attempt, attempts[a].incarnation)
    BY <1>4 DEF CancelPreparation, ActiveAfterCancel
  <2>3. Rewrite(at)
    BY <1>1, <2>2 DEF Attempt
  <2> QED BY <2>1, <2>3
<1>5. CASE RollbackPreparation(a)
  <2> DEFINE at == [attempts[a] EXCEPT !.state = "FAILED"]
  <2>1. at \in Attempt
    BY <1>1 DEF Attempt
  <2>2. /\ attempts' = [attempts EXCEPT ![a] = at]
        /\ active_attempt' = Erase(active_attempt, attempts[a].incarnation)
    BY <1>5 DEF RollbackPreparation
  <2>3. Rewrite(at)
    BY <1>1, <2>2 DEF Attempt
  <2> QED BY <2>1, <2>3
<1> QED BY <1>2, <1>3, <1>4, <1>5

\* A rewritten attempt: the old entry of the map gives way to `at`.
LEMMA AttemptRewritten ==
  ASSUME RecordsType, DOMAIN incarnations \subseteq DOMAIN incarnations',
         NEW a \in DOMAIN attempts, NEW at \in Attempt,
         at.incarnation = attempts[a].incarnation,
         attempts' = [attempts EXCEPT ![a] = at]
  PROVE  /\ attempts' \in [DOMAIN attempts' -> Attempt]
         /\ \A b \in DOMAIN attempts' : attempts'[b].incarnation \in DOMAIN incarnations'
BY DEF RecordsType

LEMMA RecordsStep ==
  ASSUME TypeOK, RecordsType, [PrepNext]_<<vars, prepVars>>
  PROVE  RecordsType'
<1>1. DOMAIN incarnations \subseteq DOMAIN incarnations'
  BY PrepStepsAreSteps, IncarnationsGrow
<1>2. CASE UNCHANGED prepVars
  BY <1>1, <1>2 DEF RecordsType, prepVars
<1>3. ASSUME NEW i \in DOMAIN incarnations, CreatePreparationPlan(i)
      PROVE  RecordsType'
  <2>1. IsFiniteSet(Required \ verified[i])
    BY PreparationAssumption, NamesAssumption, FS_Subset
  <2>2. Cardinality(Required \ verified[i]) \in Nat
    BY <2>1, FS_CardinalityType
  <2> DEFINE k == Cardinality(DOMAIN plans) + 1
  <2>0. k \in Nat
    BY FS_CardinalityType DEF RecordsType
  <2> HIDE DEF k
  <2>3. PICK n \in Nat : plans' = Put(plans, k, [incarnation |-> i,
                              epoch |-> authority.epoch, steps |-> n])
    BY <1>3, <2>2 DEF CreatePreparationPlan, k
  <2>4. [incarnation |-> i, epoch |-> authority.epoch, steps |-> n] \in Plan
    BY DEF Plan, TypeOK, AuthorityType, IncarnationsType
  <2>5. plans' \in [DOMAIN plans' -> Plan]
    BY <2>3, <2>4, PutType DEF RecordsType
  <2>6. \A p \in DOMAIN plans' : plans'[p].incarnation \in DOMAIN incarnations
    BY <2>3 DEF RecordsType, Put
  <2>7. DOMAIN plans' = DOMAIN plans \cup {k}
    BY <2>3 DEF Put
  <2>8. IsFiniteSet(DOMAIN plans') /\ DOMAIN plans' \subseteq Nat
    BY <2>0, <2>7, FS_AddElement DEF RecordsType
  <2> QED BY <1>1, <1>3, <2>5, <2>6, <2>8 DEF RecordsType, CreatePreparationPlan
<1>4. ASSUME NEW p \in DOMAIN plans, BeginPreparation(p)
      PROVE  RecordsType'
  <2> DEFINE at == [plan |-> p, incarnation |-> plans[p].incarnation,
                    epoch |-> authority.epoch, next_step |-> 0, state |-> "PLANNED",
                    cancelled |-> FALSE, published_ready |-> FALSE]
  <2>1. PICK k : attempts' = Put(attempts, k, at)
    BY <1>4 DEF BeginPreparation
  <2>2. at \in Attempt
    BY DEF RecordsType, Plan, Attempt, TypeOK, AuthorityType
  <2>3. attempts' \in [DOMAIN attempts' -> Attempt]
    BY <2>1, <2>2, PutType DEF RecordsType
  <2>4. \A b \in DOMAIN attempts' : attempts'[b].incarnation \in DOMAIN incarnations
    BY <2>1 DEF RecordsType, Put
  <2> QED BY <1>1, <1>4, <2>3, <2>4 DEF RecordsType, BeginPreparation
<1>5. ASSUME NEW a \in DOMAIN attempts,
             \/ StepPreparation(a) \/ CompletePreparation(a)
             \/ CancelPreparation(a) \/ RollbackPreparation(a)
      PROVE  RecordsType'
  <2>2. \E at \in Attempt : /\ at.incarnation = attempts[a].incarnation
                            /\ attempts' = [attempts EXCEPT ![a] = at]
    BY <1>5, AttemptWrites
  <2>3. plans' = plans
    BY <1>5 DEF StepPreparation, CompletePreparation, CancelPreparation,
                RollbackPreparation
  <2> QED BY <1>1, <2>2, <2>3, AttemptRewritten DEF RecordsType
<1> QED BY <1>2, <1>3, <1>4, <1>5 DEF PrepNext, prepVars

\* The runtime's types and the shape of plans and attempts, with preparation.
LEMMA RecordsCorrect == PrepSpec => [](TypeOK /\ RecordsType)
<1>1. PrepInit => TypeOK /\ RecordsType
  BY TypeInit, FS_EmptySet DEF PrepInit, RecordsType, NoMap
<1>2. TypeOK /\ RecordsType /\ [PrepNext]_<<vars, prepVars>> => TypeOK'
  BY PrepStepsAreSteps, TypeStep
<1>3. TypeOK /\ RecordsType /\ [PrepNext]_<<vars, prepVars>> => RecordsType'
  BY RecordsStep
<1> QED BY <1>1, <1>2, <1>3, PTL DEF PrepSpec

\* complete_preparation renews a readiness generation and nothing else: every
\* behaviour with plans and attempts is a behaviour of the runtime without, so
\* each property proved of Spec holds with preparation too.
THEOREM PreparationImplementsResidency == PrepSpec => Spec
<1>1. PrepInit => Init
  BY DEF PrepInit
<1>2. TypeOK /\ RecordsType /\ [PrepNext]_<<vars, prepVars>> => [Next]_vars
  BY PrepStepsAreSteps
<1> QED BY <1>1, <1>2, RecordsCorrect, PTL DEF PrepSpec, Spec

LEMMA NoPhantomStep ==
  ASSUME RecordsType, NoPhantomReady, [PrepNext]_<<vars, prepVars>>
  PROVE  NoPhantomReady'
<1>1. CASE attempts' = attempts
  BY <1>1 DEF NoPhantomReady
<1>2. ASSUME NEW p \in DOMAIN plans, BeginPreparation(p)
      PROVE  NoPhantomReady'
  BY <1>2 DEF BeginPreparation, NoPhantomReady, Put
<1>3. ASSUME NEW a \in DOMAIN attempts,
             \/ StepPreparation(a) \/ CompletePreparation(a)
             \/ CancelPreparation(a) \/ RollbackPreparation(a)
      PROVE  NoPhantomReady'
  <2>2. PICK at \in Attempt : /\ attempts' = [attempts EXCEPT ![a] = at]
                              /\ ~(at.cancelled /\ at.published_ready)
    BY <1>3, AttemptWrites DEF NoPhantomReady
  <2> QED BY <2>2 DEF NoPhantomReady, RecordsType
<1> QED BY <1>1, <1>2, <1>3 DEF PrepNext, prepVars, CreatePreparationPlan

\* README's "a cancelled attempt cannot leave phantom READY state", for any
\* order of the calls on any number of attempts.
THEOREM NoPhantomCorrect == PrepSpec => []NoPhantomReady
<1>1. PrepInit => NoPhantomReady
  BY DEF PrepInit, NoPhantomReady, NoMap
<1>2. RecordsType /\ NoPhantomReady /\ [PrepNext]_<<vars, prepVars>> => NoPhantomReady'
  BY NoPhantomStep
<1> QED BY <1>1, <1>2, RecordsCorrect, PTL DEF PrepSpec

-----------------------------------------------------------------------------
\* Plans and attempts are numbered without gaps, so the number of records
\* plus one is an identity that was never given.
Numbered(f) == \E n \in Nat : DOMAIN f = 1 .. n

LEMMA NumberedPut ==
  ASSUME NEW f, Numbered(f), NEW v
  PROVE  /\ Cardinality(DOMAIN f) + 1 \notin DOMAIN f
         /\ Numbered(Put(f, Cardinality(DOMAIN f) + 1, v))
<1>1. PICK n \in Nat : DOMAIN f = 1 .. n
  BY DEF Numbered
<1>2. Cardinality(DOMAIN f) = n
  BY <1>1, FS_Interval
<1>3. DOMAIN Put(f, n + 1, v) = (1 .. n) \cup {n + 1}
  BY <1>1 DEF Put
<1>4. (1 .. n) \cup {n + 1} = 1 .. n + 1 /\ n + 1 \in Nat /\ n + 1 \notin 1 .. n
  OBVIOUS
<1> QED BY <1>1, <1>2, <1>3, <1>4 DEF Numbered

\* begin_preparation gives an attempt the epoch of its plan, and nothing changes
\* either: what step and complete compare with is the epoch of the plan.
AttemptsKeepTheirEpoch ==
  \A a \in DOMAIN attempts : attempts[a].epoch = plans[attempts[a].plan].epoch

\* How plans, attempts and active attempts belong together.
PreparationInv ==
  /\ PreparationTypeOK
  /\ Numbered(plans) /\ Numbered(attempts)
  /\ AttemptsKeepTheirEpoch
  /\ ActiveAttemptsAreOpen

\* What PreparationInv says of one attempt, and of one active attempt.
Sound(at, pl) ==
  at.plan \in DOMAIN pl /\ at.next_step <= pl[at.plan].steps
    /\ at.epoch = pl[at.plan].epoch

Open(at, i) == at.incarnation = i /\ ~at.published_ready /\ ~at.cancelled

\* RecordsType has its own lemma; the rest is about each record.
LEMMA PreparationInvIs ==
  PreparationInv <=>
    /\ RecordsType
    /\ Numbered(plans) /\ Numbered(attempts)
    /\ \A a \in DOMAIN attempts : Sound(attempts[a], plans)
    /\ \A i \in DOMAIN active_attempt :
         /\ i \in DOMAIN incarnations /\ active_attempt[i] \in DOMAIN attempts
         /\ Open(attempts[active_attempt[i]], i)
BY DEF PreparationInv, PreparationTypeOK, AttemptsKeepTheirEpoch, ActiveAttemptsAreOpen,
       Sound, Open

LEMMA PreparationInvNext ==
  ASSUME RecordsType', Numbered(plans'), Numbered(attempts'),
         \A a \in DOMAIN attempts' : Sound(attempts'[a], plans'),
         \A i \in DOMAIN active_attempt' :
           /\ i \in DOMAIN incarnations' /\ active_attempt'[i] \in DOMAIN attempts'
           /\ Open(attempts'[active_attempt'[i]], i)
  PROVE  PreparationInv'
BY DEF PreparationInv, PreparationTypeOK, AttemptsKeepTheirEpoch, ActiveAttemptsAreOpen,
       Sound, Open

LEMMA PreparationStep ==
  ASSUME TypeOK, PreparationInv, [PrepNext]_<<vars, prepVars>>
  PROVE  PreparationInv'
<1>1. /\ RecordsType /\ Numbered(plans) /\ Numbered(attempts)
      /\ \A a \in DOMAIN attempts : Sound(attempts[a], plans)
      /\ \A i \in DOMAIN active_attempt :
           /\ i \in DOMAIN incarnations /\ active_attempt[i] \in DOMAIN attempts
           /\ Open(attempts[active_attempt[i]], i)
  BY PreparationInvIs
<1>2. RecordsType' /\ DOMAIN incarnations \subseteq DOMAIN incarnations'
  BY <1>1, RecordsStep, PrepStepsAreSteps, IncarnationsGrow
<1>3. CASE UNCHANGED prepVars
  BY <1>1, <1>2, <1>3, PreparationInvNext DEF prepVars
<1>4. ASSUME NEW i \in DOMAIN incarnations, CreatePreparationPlan(i)
      PROVE  PreparationInv'
  <2>1. PICK k, pl : /\ k = Cardinality(DOMAIN plans) + 1
                     /\ plans' = Put(plans, k, pl)
                     /\ attempts' = attempts /\ active_attempt' = active_attempt
    BY <1>4 DEF CreatePreparationPlan
  <2>2. k \notin DOMAIN plans /\ Numbered(plans')
    BY <1>1, <2>1, NumberedPut
  <2>3. \A q \in DOMAIN plans : q \in DOMAIN plans' /\ plans'[q] = plans[q]
    BY <2>1, <2>2 DEF Put
  <2>4. \A a \in DOMAIN attempts' : Sound(attempts'[a], plans')
    BY <1>1, <2>1, <2>3 DEF Sound
  <2> QED BY <1>1, <1>2, <2>1, <2>2, <2>4, PreparationInvNext
<1>5. ASSUME NEW p \in DOMAIN plans, BeginPreparation(p)
      PROVE  PreparationInv'
  <2> DEFINE i == plans[p].incarnation
             at == [plan |-> p, incarnation |-> i, epoch |-> authority.epoch,
                    next_step |-> 0, state |-> "PLANNED", cancelled |-> FALSE,
                    published_ready |-> FALSE]
  <2>1. PICK k : /\ k = Cardinality(DOMAIN attempts) + 1
                 /\ attempts' = Put(attempts, k, at)
                 /\ active_attempt' = Put(active_attempt, i, k)
                 /\ plans' = plans /\ plans[p].epoch = authority.epoch
    BY <1>5 DEF BeginPreparation, PlanCurrent
  <2>2. plans[p] \in Plan /\ i \in DOMAIN incarnations
    BY <1>1 DEF RecordsType
  <2>3. Sound(at, plans) /\ Open(at, i)
    BY <2>1, <2>2 DEF Sound, Open, Plan
  <2> HIDE DEF at, i
  <2>4. k \notin DOMAIN attempts /\ Numbered(attempts')
    BY <1>1, <2>1, NumberedPut
  <2>5. /\ DOMAIN attempts' = DOMAIN attempts \cup {k} /\ attempts'[k] = at
        /\ \A a \in DOMAIN attempts : attempts'[a] = attempts[a]
    BY <2>1, <2>4 DEF Put
  <2>6. \A a \in DOMAIN attempts' : Sound(attempts'[a], plans')
    BY <1>1, <2>1, <2>3, <2>5
  <2>7. ASSUME NEW j \in DOMAIN active_attempt'
        PROVE  /\ j \in DOMAIN incarnations /\ active_attempt'[j] \in DOMAIN attempts'
               /\ Open(attempts'[active_attempt'[j]], j)
    <3>1. CASE j = i
      <4>1. active_attempt'[j] = k
        BY <2>1, <3>1 DEF Put
      <4> QED BY <2>2, <2>3, <2>5, <3>1, <4>1 DEF i
    <3>2. CASE j # i
      <4>1. j \in DOMAIN active_attempt /\ active_attempt'[j] = active_attempt[j]
        BY <2>1, <3>2 DEF Put
      <4> QED BY <1>1, <2>5, <4>1
    <3> QED BY <3>1, <3>2
  <2> QED BY <1>1, <1>2, <2>1, <2>4, <2>6, <2>7, PreparationInvNext
<1>6. ASSUME NEW a \in DOMAIN attempts,
             \/ StepPreparation(a) \/ CompletePreparation(a)
             \/ CancelPreparation(a) \/ RollbackPreparation(a)
      PROVE  PreparationInv'
  <2>1. PICK at \in Attempt :
          /\ attempts' = [attempts EXCEPT ![a] = at]
          /\ at.incarnation = attempts[a].incarnation
          /\ at.plan = attempts[a].plan /\ at.epoch = attempts[a].epoch
          /\ at.next_step \in {attempts[a].next_step, NextStep(a)}
          /\ \/ /\ active_attempt' = active_attempt
                /\ at.cancelled = attempts[a].cancelled
                /\ at.published_ready = attempts[a].published_ready
             \/ active_attempt' = Erase(active_attempt, attempts[a].incarnation)
    BY <1>1, <1>6, AttemptWrites
  <2>2. plans' = plans
    BY <1>6 DEF StepPreparation, CompletePreparation, CancelPreparation,
                RollbackPreparation
  <2>3. /\ attempts \in [DOMAIN attempts -> Attempt] /\ plans \in [DOMAIN plans -> Plan]
        /\ DOMAIN attempts' = DOMAIN attempts /\ attempts'[a] = at
        /\ \A b \in DOMAIN attempts : b # a => attempts'[b] = attempts[b]
    BY <1>1, <2>1 DEF RecordsType
  <2>4. Sound(at, plans)
    <3>1. Sound(attempts[a], plans)
      BY <1>1
    <3>2. plans[at.plan].steps \in Nat /\ attempts[a].next_step \in Nat
      BY <2>1, <2>3, <3>1 DEF Sound, Plan, Attempt
    <3>3. at.next_step <= plans[at.plan].steps
      BY <2>1, <3>1, <3>2 DEF Sound, NextStep
    <3> QED BY <2>1, <3>1, <3>3 DEF Sound
  <2>5. \A b \in DOMAIN attempts' : Sound(attempts'[b], plans')
    BY <1>1, <2>2, <2>3, <2>4
  <2>6. Numbered(attempts')
    BY <1>1, <2>3 DEF Numbered
  <2>7. ASSUME NEW j \in DOMAIN active_attempt'
        PROVE  /\ j \in DOMAIN incarnations /\ active_attempt'[j] \in DOMAIN attempts'
               /\ Open(attempts'[active_attempt'[j]], j)
    <3>1. j \in DOMAIN active_attempt /\ active_attempt'[j] = active_attempt[j]
      BY <2>1 DEF Erase
    <3>2. CASE active_attempt[j] # a
      BY <1>1, <2>3, <3>1, <3>2
    <3>3. CASE active_attempt[j] = a
      <4>1. Open(attempts[a], j)
        BY <1>1, <3>1, <3>3
      <4>2. /\ at.cancelled = attempts[a].cancelled
            /\ at.published_ready = attempts[a].published_ready
        BY <2>1, <4>1 DEF Open, Erase
      <4>3. Open(at, j)
        BY <2>1, <4>1, <4>2 DEF Open
      <4> QED BY <1>1, <2>3, <3>1, <3>3, <4>3
    <3> QED BY <3>2, <3>3
  <2> QED BY <1>1, <1>2, <2>2, <2>5, <2>6, <2>7, PreparationInvNext
<1> QED BY <1>3, <1>4, <1>5, <1>6 DEF PrepNext, prepVars

LEMMA PreparationInvInit == PrepInit => PreparationInv
<1> SUFFICES ASSUME PrepInit PROVE PreparationInv
  OBVIOUS
<1>1. DOMAIN plans = {} /\ DOMAIN attempts = {} /\ DOMAIN active_attempt = {}
  BY DEF PrepInit, NoMap
<1>2. RecordsType
  BY FS_EmptySet DEF PrepInit, RecordsType, NoMap
<1>3. Numbered(plans) /\ Numbered(attempts)
  <2>1. 0 \in Nat /\ 1 .. 0 = {}
    OBVIOUS
  <2> QED BY <1>1, <2>1 DEF Numbered
<1> QED BY <1>1, <1>2, <1>3, PreparationInvIs

LEMMA PreparationInvariant == PrepSpec => []PreparationInv
<1>1. PrepInit => PreparationInv
  BY PreparationInvInit
<1>2. TypeOK /\ PreparationInv /\ [PrepNext]_<<vars, prepVars>> => PreparationInv'
  BY PreparationStep
<1> QED BY <1>1, <1>2, RecordsCorrect, PTL DEF PrepSpec

\* The records of preparation refer to each other as they should, and
\* step_preparation never goes past the end of its plan.
THEOREM PreparationTypeCorrect == PrepSpec => []PreparationTypeOK
<1>1. PreparationInv => PreparationTypeOK
  BY DEF PreparationInv
<1> QED BY <1>1, PreparationInvariant, PTL

\* One step, and an attempt whose plan is not of the epoch the step begins in.
LEMMA PlanEpochStep ==
  ASSUME PreparationInv, [PrepNext]_<<vars, prepVars>>, NEW a \in DOMAIN attempts',
         plans'[attempts'[a].plan].epoch # authority.epoch
  PROVE  /\ a \in DOMAIN attempts
         /\ attempts'[a].next_step = attempts[a].next_step
         /\ attempts'[a].published_ready = attempts[a].published_ready
<1>1. /\ RecordsType
      /\ \A b \in DOMAIN attempts :
           attempts[b] \in Attempt /\ attempts[b].epoch = plans[attempts[b].plan].epoch
  BY DEF PreparationInv, PreparationTypeOK, RecordsType, AttemptsKeepTheirEpoch
<1>2. CASE attempts' = attempts
  BY <1>2
<1>3. ASSUME NEW p \in DOMAIN plans, BeginPreparation(p)
      PROVE  a \in DOMAIN attempts /\ attempts'[a] = attempts[a]
  <2> DEFINE k == Cardinality(DOMAIN attempts) + 1
  <2>1. PICK at : attempts' = Put(attempts, k, at) /\ at.plan = p
    BY <1>3 DEF BeginPreparation
  <2>2. plans' = plans /\ plans[p].epoch = authority.epoch
    BY <1>3 DEF BeginPreparation, PlanCurrent
  <2> HIDE DEF k
  <2>3. a # k
    BY <2>1, <2>2 DEF Put
  <2> QED BY <2>1, <2>3 DEF Put
<1>4. ASSUME NEW b \in DOMAIN attempts, StepPreparation(b) \/ CompletePreparation(b)
      PROVE  a \in DOMAIN attempts /\ attempts'[a] = attempts[a]
  <2>1. PICK at \in Attempt : /\ attempts' = [attempts EXCEPT ![b] = at]
                              /\ at.plan = attempts[b].plan
    BY <1>1, <1>4, AttemptWrites
  <2>2. plans' = plans /\ attempts[b].epoch = authority.epoch
    BY <1>4 DEF StepPreparation, CompletePreparation, MayComplete
  <2>3. a # b
    BY <1>1, <2>1, <2>2
  <2> QED BY <2>1, <2>3
<1>5. ASSUME NEW b \in DOMAIN attempts, CancelPreparation(b) \/ RollbackPreparation(b)
      PROVE  /\ a \in DOMAIN attempts
             /\ attempts'[a].next_step = attempts[a].next_step
             /\ attempts'[a].published_ready = attempts[a].published_ready
  <2> DEFINE failed == [attempts[b] EXCEPT !.state = "FAILED"]
             cancelled == [attempts[b] EXCEPT !.cancelled = TRUE, !.state = "FAILED"]
  <2>1. /\ failed.next_step = attempts[b].next_step
        /\ failed.published_ready = attempts[b].published_ready
        /\ cancelled.next_step = attempts[b].next_step
        /\ cancelled.published_ready = attempts[b].published_ready
    BY <1>1 DEF Attempt
  <2>2. \/ attempts' = [attempts EXCEPT ![b] = failed]
        \/ attempts' = [attempts EXCEPT ![b] = cancelled]
    BY <1>5 DEF CancelPreparation, RollbackPreparation
  <2> HIDE DEF failed, cancelled
  <2> QED BY <2>1, <2>2
<1> QED BY <1>2, <1>3, <1>4, <1>5 DEF PrepNext, prepVars, CreatePreparationPlan

\* Once the epoch of a plan has passed, begin, step and complete carry it out no
\* further, however many plans, attempts and incarnations there are.
THEOREM PlanEpochCorrect == PrepSpec => PlansEndWithTheirEpoch
<1>1. PreparationInv /\ [PrepNext]_<<vars, prepVars>> =>
        [\A a \in DOMAIN attempts' :
           plans'[attempts'[a].plan].epoch # authority.epoch =>
             /\ a \in DOMAIN attempts
             /\ attempts'[a].next_step = attempts[a].next_step
             /\ attempts'[a].published_ready = attempts[a].published_ready]_<<vars, prepVars>>
  BY PlanEpochStep
<1> QED BY <1>1, PreparationInvariant, PTL DEF PrepSpec, PlansEndWithTheirEpoch

\* Completing, cancelling or rolling back any attempt of an incarnation leaves
\* no finished attempt behind that would bar the next one.
THEOREM ActiveAttemptsCorrect == PrepSpec => []ActiveAttemptsAreOpen
<1>1. PreparationInv => ActiveAttemptsAreOpen
  BY DEF PreparationInv
<1> QED BY <1>1, PreparationInvariant, PTL
=============================================================================
