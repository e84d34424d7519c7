# Engine Residency: verification project

TLA+ models of the Engine Residency runtime and of its reference coordinator,
the TLC runs that check them on small instances, and TLAPS proofs of the
properties that matter most. Paths are relative to the directory that holds
`src/` (the repository) and `tla/` (this project).

## 1. The system

Engine Residency decides which *incarnation* (one boot of one worker process) of
a serving engine is authoritative, whether it is ready, and which serving uses
are admitted on it. It has two layers.

* **The runtime**, `EngineResidency` in `src/src/runtime.cpp`, is a library
  object. Every public operation takes one `std::shared_mutex` from entry to
  return, and a call that is refused throws before it changes anything (with one
  exception, the underflow in `release_serving_use`, which is modelled). Callers
  are unconstrained.
* **The coordinator**, `src/src/coordinator/session.cpp`, runs one thread per
  connection on top of one runtime. Controllers send EXECUTE and DRAIN for a
  target incarnation; a `WorkerRouter` queues them, and the thread of the worker's
  session, the dispatcher, is the only one that talks to the worker. Between two
  runtime calls every other thread may run.

### Inventory

| Component | State | Operations | Interacts with | Correct when |
|---|---|---|---|---|
| Registration and authority (`runtime.cpp` 82-230) | epoch, authority generation, incarnations, permits, fenced boots, configuration generations | issue permit, register, mark running, revalidate, fence, advance epoch, update configuration | everything reads `is_current` and the lifecycle | a permit is used once, in its epoch; a fence marks everything its boot registers, and no such incarnation is activated or publishes again |
| Component evidence (232-256, 660-669) | evidence per incarnation | publish, invalidate; time | readiness | a fenced incarnation contributes nothing; what was invalidated or reloaded counts only once published again |
| Readiness evaluator (`readiness.cpp`) | none (pure) | evaluate | activation, serving use, preparation | the verdict is that of the latest evidence of each required category; time only takes readiness away |
| Activation and slots (442-497) | slots, activation | activate | readiness, replacement | a slot is taken over only from a dead or recovering holder |
| Serving use (500-560) | uses, the active-use counter | acquire, release | readiness, drain | the counter is exact and bounded; a superseded generation admits nothing |
| Drain (548-598) | drain state per incarnation | request, acknowledge, state | serving use, replacement, dispatcher | the phase never lies about open uses; the fence stays |
| Replacement (601-657) | plans | begin, commit cutover, retire | drain, registration | the replaced incarnation is closed from the cutover on |
| Preparation (282-405) | plans, attempts, the active attempt of an incarnation | plan, begin, step, complete, cancel, roll back | readiness generation | a cancelled or stale attempt publishes nothing |
| Worker router and dispatcher (`session.cpp` 113-348) | queue, flags, command in hand | enqueue, dispatch, fail | controllers, worker, runtime | no command is lost, no use leaks, DRAINED means cleaned |
| Controller sessions (351-716) | directly held uses | route EXECUTE and DRAIN, ACQUIRE_USE, RELEASE_USE, FENCE, cutover, ... | router, runtime | authority is checked before anything changes |
| Worker process (`worker_main.cpp`) | backend, command in hand, what it read from replies | setup, command loop, serve loop | its session, later the dispatcher | the backend is released before DRAIN is answered; each reply is taken for the request it answers |
| Persistence and recovery (`runtime.cpp` 684-734, `persistence.cpp`, `coordinator.cpp`) | saved blob | save, load, restart | every table of the runtime | what is restored is conservative, identities stay unique |
| Standby pool (408-439, `standby.cpp`) | none | reconcile | incarnations, readiness | what is counted was made ready and is running, and the account does not depend on a table's layout (the second it is not: section 5) |
| Economics, frames, backends, definitions, tools | history, buffers | aggregate, encode, compute | | pure computation and I/O |

### What is hard

* *Stale reads*: readiness is asked in one call and used in the next one;
  permits, plans and commands carry an epoch that may pass before they arrive.
* *Order*: the last release, the drain request, the cutover and the cleanup
  acknowledgment come in any order, and each decides the drain phase.
* *Concurrency and failure*: the dispatcher fails while a controller thread is
  queueing; a worker dies between the admission of a use and its reply; a reply
  that was sent before the worker closed is still delivered.
* *Long legal sequences*: `mark_running`, `revalidate` and `activate` overwrite
  what a fence, a retirement or a cutover left.

`PROJECT.json` lists each hazard at its line with the properties that catch it.

## 2. The modules

| Module | What it is |
|---|---|
| `Residency` | the runtime: registration and authority, evidence, activation, serving use, drain, replacement |
| `ServingGate` | abstract specification of admission and drain |
| `Preparation` | `Residency` with preparation plans and attempts in detail |
| `Recovery` | `Residency` with saving, death and restart of the coordinator |
| `Readiness` | the evidence of one incarnation, its time stamps, and the evaluator |
| `EvidenceView` | abstract specification of the evidence: what `Residency` relies on |
| `Standby` | the standby pool as operators over the state of `Residency` |
| `Router` | controller threads, queue, dispatcher, worker process in command mode, connection |
| `WorkerSession` | `Preparation` with worker processes in setup and serve loop and the session of each |
| `MCResidency`, `MCReadiness` | worker symmetry for the runs of `Residency`; profiles, definitions and reports for those of `Readiness` |
| `ResidencyClaims` | statements of the documents that `Residency` or `Standby` contradicts |
| `ResidencyProofs` | type correctness of `Residency` |
| `ServingProofs` | accounting, drain phases, admission fence, cutover, fences, permits, readiness generations; `Residency` implements `ServingGate` |
| `PreparationProofs` | `Preparation` implements `Residency`; plans and attempts; no phantom READY |
| `RecoveryProofs` | authority, fences and evidence over restarts |
| `StandbyProofs` | how an incarnation comes into the standby pool |
| `ReadinessProofs` | the evaluator and its evidence; `Readiness` implements `EvidenceView` |
| `RouterProofs` | the safety of routing: commands, uses, cleanup |
| `WorkerProofs` | `WorkerSession` implements `Preparation`; which reply is read for which request; served uses are released |

### Residency

One action per public operation, atomic because of the mutex. The variables have
the names of the members of `EngineResidencyImpl`. A refused call is an action
that is not enabled, and operation arguments come from everything a caller may
know (\E over the tables and over all generations). What is abstracted:

* Evidence is the set `verified[i]` of categories whose *best* evidence
  satisfies the profile. Publishing may add the category, remove it, or leave it:
  `best_evidence` keeps the earlier of two entries with the same time. Time is
  `EvidenceExpires`. `Ready(i)` is the verdict READY or DEGRADED. The evaluator
  that `activate`, `acquire_serving_use` and `complete_preparation` call does not
  look at the recovery state, and evidence survives `advance_epoch`; both are so
  here. The refusal at `max_component_evidence` is a call that is not made. That
  the evidence itself behaves like this set is what `Readiness` is for.
* Identities count from 1. Fields that are written and never read are dropped:
  the preparation state, the drain generation, activation records, time stamps.
  States that no code sets (FAILED, AWAITING_AUTHORITY) stay in the types, because
  guards name them.
* A registration has the health (UNKNOWN) and the activation (INACTIVE) that sessions
  register with; `register_incarnation` would keep others a caller of the library put
  there.
* Arguments that must equal the current epoch or authority are left out; the
  authority generation moves with the epoch. Defining engines and profiles is
  set-up.
* `PublishReady` is `complete_preparation` as the rest of the runtime sees it.
  `Preparation` replaces it by the real operation and is proved to implement
  `Residency`.

### ServingGate

Each target has a gate; uses are admitted while it is open, under new identities,
and released once; a closed gate never opens again; a target is drained only
while its gate is closed and nothing is held. `Residency!Gate` maps the open
uses, the fenced drain entries and the DRAINED phases to it, and run `serving`
checks that every step is a step of the gate or a stutter, which `GateCorrect`
proves for every instance.

### Preparation

`create_preparation_plan`, `begin`, `step`, `complete`, `cancel` and `rollback`,
each atomic, in any order, for any plan or attempt. A plan's steps are their
number. The PREPARE handler of a session is a sequence of these calls, and
several sessions may be in it at once. `begin` reads the plan as it was stored, which is
what `create` returned to the session; the code takes the incarnation and the profile
from the caller's copy. `complete` ignores the steps done and the
state of the attempt, as the code does, and ending *any* attempt of an
incarnation erases the entry of the active one.

### Recovery

`Residency` and a state file. SAVE serializes under the lock and writes without
it: opening the file truncates it (`OpenFile`), closing it makes it whole
(`CloseFile`), and runtime operations run between the two. Serializing and truncating are one step:
a death between them leaves the old file, as if SAVE had not begun, and so does an `fopen`
that fails, which the code does not report. `Restart` may come at
any moment. A whole file is loaded and the epoch advanced; a torn one fails the
checksum and the coordinator starts with nothing. What is not saved is empty
afterwards. The identity counters resume at `RecoveredIds`, which stands for
1000000: above what a coordinator that never loaded has handed out, and the same
after every load. Two history variables, `restored` and `published`, tell apart
what comes from the file and what was proved since. One SAVE runs at a time, and
`load` is called as `run_coordinator` calls it, in a new process.

### Readiness, EvidenceView

`Readiness` has the evidence as a sequence of records with the fields the
evaluator reads, the clock, the engine definition and the profile. The evaluator
is a set of operators that follow `readiness.cpp` check by check: which entry is
best (latest stamp, then earliest in the list; every entry has evidence generation
1, so the first comparison never decides), the order of states, compatibility,
generation families, freshness, and the outcome. `PublishComponent` stamps the
entry with the runtime's clock and refuses at the limit, `InvalidateComponents`
and `Load` demand revalidation of every entry and keep its stamp, `DefineEngine`
and `DefineProfile` overwrite what it is judged by. `Load(n)` restores what was
saved when n entries were there, in a process with any other clock; the definition and
the profile of that time are a `DefineEngine` or `DefineProfile` away. The history
variable `barrier` marks what was published since. Each component is required once
in a profile (`ProfileAssumption`), as in the seeded one. The evidence namespace,
which is always passed empty, and the explanations are left out.

`EvidenceView` is what `Residency` assumes: a set of categories, gained one at a
time by a publication, lost at any time, judged anew under new rules.
`ImplementsEvidenceView` shows it for the components that a profile insists on. It
is not true of optional ones: an optional component that is incompatible blocks,
and an invalidation, after which its state no longer qualifies, lifts that block.

### Standby

`reconcile_standby` reads the runtime and changes nothing, so it is an operator
over the state of `Residency`, and every reachable state is one it may be asked in.
`Reconcile` takes the order in which each of the two unordered tables, of incarnations
and of slots, happens to be listed, and yields what the code does: the candidates, sorted
by identity (process ids never decide, identities being unique), one per slot, the slots
being those of all engines, held or not; the slots left over and the blockers, as lists
in table order; the number of deficit notices; and the counts. The text of a blocker is
left out. Who is in the pool (`Eligible`) depends on the state alone, and two runs follow
it from step to step, `serving` with evidence and configurations, `replacement` with
cutovers and retirements: `StandbyIsEarned` says what may bring an incarnation in.
The list of things that must not is the long one (registration, drain, fence,
retirement, release, invalidation, configuration, slot takeover, epoch): each takes an incarnation out of a role
or a table, and the accounting looks at none of these but the activation and the
lifecycle. What the documents claim beyond that the code does not keep
(`claim_blockers`, and section 5).

### Router

One incarnation, one worker. A controller thread has the program points at which
it calls the router or the runtime; the dispatcher has one for every call it
makes, so other threads run between, for instance, the gate check (line 261), the
acquisition (268), the send and the release. Of the runtime only the fence, the
drain state and the open uses of this incarnation are kept, with the transitions
of `Residency`. `Stale` commands carry no epoch and an authority generation that
may be superseded by the time `check_cycle` looks at it, and then are refused; a superseded epoch is refused when the
message is received (line 446), a wrong boot by `find_router`. The connection is two FIFO channels. A receive fails
only when the worker is down and either it crashed or everything it sent was
read; a send to a worker that is down fails or the frame is lost. The worker never
answers EXECUTE or DRAIN with ERROR, as in `worker_main.cpp`. An acquisition may
also fail for reasons left out here (readiness, generation, cap). Fencing makes
the incarnation LOST, so it admits nothing; reviving it by `revalidate` is in
`Residency`, not here. A crash of the coordinator is in `Recovery`, not here. The
history field `worker.done` has the commands the worker carried out. One DRAIN is
routed: a second one that arrives late takes the phase from DRAINED back to
BACKEND_CLEANUP_PENDING (`runtime.cpp` 577) with a worker that has exited, so
`DrainCompletes` can be asked of one only.

### WorkerSession

Worker processes outside command mode, and for each the session thread at the
other end of its socket, on top of `Preparation`. The worker is a program of
requests, `Setup` and then `Serve` times `ServeOne`; after each but
EXECUTION_RESULT it reads one frame, takes what it looks for from it
(`readiness_gen`, the outcome, `use_id`) or the default, and never asks which
request the frame answers. A session handles one request at a time and calls the
runtime once per step: the check of the fence and of the drain, then the
operation; a permit, then the registration; a plan, an attempt, each of its steps,
then its completion. Other sessions and controllers run between. (The fence and the
drain are read by two calls; both only ever close here, so reading them in one step
hides nothing.) A refused operation, in the code an exception after which the runtime
is as before, is a call that is not `ENABLED`, answered with ERROR; for a release, which
the proofs follow, the condition is written out (`Throws`).

Controllers fence workers, begin replacements and commit them. They cannot drain a
worker that never becomes command-ready, and retiring after the cutover is left
out, as the cutover has already closed the incarnation to its session. A worker in
`Mortal` may exit or be killed at any point, with a suffix of what it sent lost.
Engine and profile are the ones the coordinator seeds. ACTIVATE asks for any slot of
`Slot`; a worker asks for its `--slot`, which is 1 unless it is given
(`worker_main.cpp` 38), so the runs have one slot.

## 3. The runs

| Run | Instance | Shows |
|---|---|---|
| `serving` | 1 incarnation, 2 required categories, cap of 2 uses, 3 identities, 3 readiness generations, 2 configuration generations, 2 epochs | type invariant, exact accounting, truthful phases, superseded generations admit nothing, the fence holds, implements the gate; the standby pool is earned |
| `replacement` | 2 workers, 2 incarnations, no required component, 1 use, 1 replacement, 2 readiness generations | truthful phases and closed old incarnation with cutovers in the mix; no change of roles adds to the standby pool but the cutover |
| `preparation` | 1 worker, 2 incarnations, 2 permits, 2 plans, 2 attempts, 2 epochs, 2 readiness generations | no phantom READY, no plan is carried out past its epoch, the active attempt is open; a fence marks everything its boot registers, and nothing it marked is ACTIVE or publishes again, also after it is marked running or revalidated (that it may then serve is in section 5); permits are spent once, in their epoch |
| `readiness` | 2 components, 2 profiles, 2 definitions, 5 reports, at most 3 entries, clock from 0 to 3 | readiness rests on fresh, matching evidence published since the last invalidation or restart; time only takes it away; a later report decides; STALE means renewable; implements `EvidenceView` |
| `routing` | 2 EXECUTE (one possibly stale), 1 DRAIN (possibly stale), 1 session with a use of its own, queue of 2; crash, fence, cutover, time-outs | no use leaks, routed uses end before the backend does, DRAINED is true, no command is lost, `ok` means done; and liveness |
| `worker` | 2 workers, one of them mortal, 2 required components, 1 slot, 1 request served each, 1 replacement | uses are released, setup ends in activation, every worker finishes |
| `recovery` | 1 incarnation, 2 lives, 2 epochs, 2 readiness generations | what is restored has no authority and no usable evidence; fences outlive the restart |
| `claim_*` | see section 5 | a document's statement is contradicted |

**Bounds.** Each counter that the code lets grow is capped by a named constant in
a guard (`MaxEpoch`, `MaxReadinessGeneration`, `MaxUseId`, `MaxReplacementId`,
`MaxConfigGeneration`, `MaxBoot`, `MaxAttempts`, `MaxTime`); `MaxIncarnations`, `MaxPermits`,
`MaxActiveUses`, `MaxPending`, `MaxEvidence` and `MaxQueue` are the code's own limits. They are
chosen so that the interesting case exists (`MaxLives` bounds restarts): three use identities under a cap of
two let a use be admitted after a release at the cap; three generations let one be
superseded twice; two incarnations are what a cutover needs; two epochs let a
permit, a plan and an incarnation survive one; a queue of two with three
commands is full and refuses one; a window of one tick expires within the clock's
bound, and a restart can find its clock behind a stamp; two workers compete for one
slot and are each other's replacement. In `worker` only one of the two may die or be
fenced, which leaves the other as the one that must come through; the preparation
steps of the seeded seven components are those of two, one published before the
preparation and one after it. The properties that section 4 lists are
also proved without any bound.

**Deadlock** is checked in `readiness`, whose operations are always possible. It is
not elsewhere: the runtime is a library whose callers may stop, with every command
answered the coordinator is idle for good, and so is a worker that has finished.

**Fairness.** `FairSpec` (run `routing`): weak fairness of the dispatcher
thread, of the worker process and of each controller thread. They are threads and
processes the operating system schedules; the worker's command loop has no wait
that is not bounded (its hold barrier gives up after 600 polls of 10 ms).
Nothing is assumed of crashes, time-outs, fences, cutovers or other sessions.
Under it `EveryCommandSettles` says that every command that is handed to the router gets
its reply, and `DrainCompletes` that a DRAIN ends in DRAINED unless the worker
crashed, the command was refused or a session holds a use of its own.
`WorkerSpec` (run `worker`): weak fairness of each worker process and of each session
thread, which block only on each other's frames. Under it `SetupActivates` says that a
worker that registered becomes active unless it dies, is closed or finds the slot
taken, and `EveryWorkerFinishes` that none waits for an answer for ever.

## 4. The proofs

Every theorem is for every value of the constants that satisfies the `ASSUME`s of the
modules (finiteness, naturals, and for `Readiness` that a profile requires each
component once). Four theorems have a condition of their own, named in their statement.

**Runtime** (`ResidencyProofs`, `ServingProofs`)

| Theorem | Statement | Argument |
|---|---|---|
| `TypeCorrect` | `Spec => []TypeOK` | inductive, one part per table; `IncarnationsGrow` (no operation removes an incarnation) keeps the stored references valid |
| `AccountingCorrect` | `Spec => []UseAccounting` | with `TypeOK`: open uses are finite, an acquisition adds one fresh use, a release removes one, so the counter follows the cardinality |
| `DrainPhaseCorrect` | `Spec => []DrainPhaseTruthful` | `UseAccounting` shows that a release of an open use never meets a counter of 0, where the code would leave the phase behind |
| `AdmissionFenceCorrect` | `Spec => AdmissionFenceHolds` | `FenceStays` (every write of a drain entry keeps the fence) and `FencedUsesShrink` (only an acquisition adds a use, and it needs the fence down) |
| `CutoverCorrect` | `Spec => []CutoverClosesOld` | the cutover sets the fence, `FenceStays` keeps it |
| `GateCorrect` | `Spec => ImplementsGate` | step simulation. The gate's identities are bounded and the runtime bounds a *number* of incarnations, so it needs `IdentitiesBounded`: identities are handed out without gaps |
| `FencedBootCorrect` | `Spec => []FencedBootHoldsNothing` | inductive with `TypeOK`: a registration looks the boot up in the fenced list, `fence_worker` marks what is registered, `activate` refuses the fenced |
| `FencedEvidenceCorrect` | `Spec => FencedPublishesNothing` | of the operations that write evidence only publication adds, and it refuses the fenced; `register` writes a new identity |
| `AdmissionsCorrect` | `Spec => []AdmissionsFollowGenerations` | no step lowers the generation of an incarnation (`Evolved`), a new use has the highest identity and the current generation |
| `PermitsCorrect` | `Spec => []PermitsAreSpentOnce` | `PermitsBalance`, the same for *every* epoch: the property speaks of epochs up to the current one only, so it says nothing of the one that `advance_epoch` opens |

**Preparation** (`PreparationProofs`)

| Theorem | Statement | Argument |
|---|---|---|
| `PreparationImplementsResidency` | `PrepSpec => Spec` | each operation is a `Residency` operation, `PublishReady`, or leaves `Residency`'s variables alone; needs that attempts are of existing incarnations. So every theorem above holds of `Preparation` |
| `NoPhantomCorrect` | `PrepSpec => []NoPhantomReady` | cancellation requires an attempt that is not published, completion one that is not cancelled |
| `PreparationTypeCorrect`, `ActiveAttemptsCorrect` | `PrepSpec => []PreparationTypeOK` and so on | together, as `PreparationInv`: they need each other and that plans and attempts are numbered without gaps, so that a new one overwrites none |
| `PlanEpochCorrect` | `PrepSpec => PlansEndWithTheirEpoch` | `PreparationInv` with `AttemptsKeepTheirEpoch`: an attempt has the epoch of its plan, so the epoch that `step` and `complete` compare, the attempt's, is the plan's |

**Restart** (`RecoveryProofs`). A load does not keep `TypeOK`: the counters resume at
the same value after every one, so identities above them exist. `RecoveryInv`
therefore asks the shape of the tables without the identities, the same of a file that
is whole or being written, and who may have authority (`AuthorityIsHonest`); a
registration may hit an identity that is taken.

| Theorem | Statement | Argument |
|---|---|---|
| `RestoredCorrect` | `RecSpec => []RestoredHoldsNoAuthority` | part of `RecoveryInv`. Nothing in the file is of an epoch after the saved one, which the restart advances; load withdraws authority and whatever gives it back changes the recovery or the activation state |
| `FenceRestartCorrect` | `RecSpec => FenceOutlivesRestart` | publication and activation read the fence off the incarnation, which is saved |
| `FreshEvidenceCorrect` | `RecSpec /\ RestoredIdentitiesAreKept => []ServedOnFreshEvidence` | `EvidenceIsFresh`: what is verified was published in this life |
| `IdentitiesKeptCorrect` | `MaxLives <= 2`: `RecSpec => RestoredIdentitiesAreKept` | in the first life identities stay below the value the counters resume at (`IdentitiesApart`) |
| `FreshAfterOneRestart` | `MaxLives <= 2`: `RecSpec => []ServedOnFreshEvidence` | the two before |

The condition of `FreshEvidenceCorrect` is not a convenience. `claim_identity` shows that it
fails in a third life: a registration takes the identity of a restored incarnation, and the
evidence kept under that identity would be taken for the newcomer's. The theorem says that
nothing else stands between the code and the property; the last two say that one
restart, the scope of the `recovery` run, is safe for every other bound.

**Standby** (`StandbyProofs`).

| Theorem | Statement | Argument |
|---|---|---|
| `EarnedCorrect` | `Spec => StandbyIsEarned` | what was running, alive and outside the pool was active or not ready. `RoleHeld`: no step but a cutover takes the active role from an incarnation that is RUNNING afterwards, one action at a time (`KeepsRole`); and evidence grows only by publication |

**Evidence** (`ReadinessProofs`). `ReadinessInv` is `TypeOK` with: stamps are readings of a
clock, what lies before `barrier` demands revalidation, what lies after is not
stamped ahead of the present clock. That there is a best entry, and which, follows from
`SmallestOf`, the least element of a set of naturals.

| Theorem | Statement | Argument |
|---|---|---|
| `ReadinessTypeCorrect` | `Spec => []TypeOK` | part of `ReadinessInv` |
| `InvalidationCorrect` | `Spec => []InvalidationHolds` | the best entry satisfies its requirement, so it does not demand revalidation, so it lies after `barrier` |
| `StaleCorrect` | `Spec => []StaleIsRenewable` | of the checks of the evaluator only freshness can have failed; a copy of the best entry stamped now is best and fresh |
| `TimeCorrect` | `Spec => TimeOnlyDecays` | what satisfies lies after `barrier`, hence is not stamped ahead, and an age that is not exceeded later was not before |
| `RenewalCorrect` | `Spec => RenewalDecides` | a strictly later entry is the best one |
| `ViewCorrect` | `Spec => ImplementsEvidenceView` | step simulation: a publication can change the verdict on its own component only |

**Routing** (`RouterProofs`). `RouterInv` adds to the properties: `OneInFlight` (between the dispatcher, the
two channels and the worker there is at most one command, the one in the dispatcher's
hand, and a worker that was given up is down), `CleaningWorker`, `ResultsAreEarned`,
`DrainsAreRequested`, `DrainIsHonest` and `NothingLost` (a command without a reply is
queued or in hand). The first is why replies need not be compared with
commands.

| Theorem | Statement |
|---|---|
| `RouterTypeCorrect` | `Spec => []TypeOK` |
| `CleanupCorrect` | `Spec => []CleanupAfterRoutedUses` |
| `CorrelationCorrect` | `Spec => []OkMeansDone` |
| `RoutedUsesCorrect` | `Spec => []RoutedUsesAreClosed` |
| `DrainedCleanCorrect` | `Spec => []DrainedMeansCleaned` |
| `DrainedIdleCorrect` | `Spec => []DrainedIsIdle` |
| `NothingStrandedCorrect` | `Spec => []NothingStranded` |

**Workers and sessions** (`WorkerProofs`). `WorkerInv` joins the invariants of the
runtime and of preparation with, for each worker:

* `InOrder`: at step n of its program the worker has left `Unread(n)` replies unread, as
  many as it has reported results, and what is on the way, requests and replies
  together, is exactly the program from the last reply it read up to where it stands.
  Which reply comes next is therefore settled by n, and comparing them is never needed.
* `Enrolled`: a session keeps no incarnation until REGISTER was answered with success,
  and has one in every later stage, since a worker that is refused exits.
* `Refers`: the permit, the plan, the attempt and the incarnation that a session keeps
  between two calls exist, and permit and incarnation are its own worker's, although
  every other session runs in between.

`ReleaseCorrect` needs two invariants more, both checked by TLC on the instance of run
`worker` before they were proved. `FenceMarks`: under these sessions and controllers an
incarnation counts as fenced or dead only because its boot was fenced, so that what
closes it once keeps it closed. `Served`: the open uses on a worker's incarnation are at
most the one that it remembers, or is about to read, as its own (`Claim`); there are
none before its acquisition is answered (`Before`), and none is left once its release
is (`After`), unless the incarnation was closed to it in the meantime.

| Theorem | Statement | Argument |
|---|---|---|
| `SessionsImplementPreparation` | `WorkerSpec => PrepSpec` | each step of a session is one operation of the runtime or of preparation, or none; so every theorem on `Preparation` and `Residency` holds under workers and sessions |
| `WorkerTypeCorrect` | `WorkerSpec => []WorkerTypeOK` | from `InOrder`: what is on the way is at most one frame and the results reported |
| `LagCorrect` | `WorkerSpec => []RepliesLag` | `InOrder`; for every `Serve`, the worker falls one reply further behind in each round |
| `FirstRepliesCorrect` | `WorkerSpec => []FirstRepliesMatch` | up to the first acquisition nothing is unread |
| `ReleaseCorrect` | `Serve <= 1`: `WorkerSpec => []ServedUsesAreReleased` | `WorkerInv`, `FenceMarks` and `Served` |

`Serve <= 1` is the exact condition: `claim_serve` shows that `ServedUsesAreReleased`
fails for 2, and `LagCorrect` says why. That a session refuses a call is left open in
these proofs (either answer is possible in every state), except for a release, where it
matters that the release of an open use succeeds.

**Only model-checked.** Liveness under fairness (`EveryCommandSettles`,
`DrainCompletes`, `SetupActivates`, `EveryWorkerFinishes`) is out of the prover's reach,
and so is ENABLED. Every invariant and action property of a passing run has a theorem.
What a recursive definition computes for every input cannot be proved either, which is
why no module declares a RECURSIVE operator.

## 5. Where documents and code disagree

Each has a run in which TLC finds a behaviour of the code that contradicts the
quoted line; `PROJECT.json` has the quotations.

* `claim_cutover`: a cutover commits to a candidate that was never ready.
* `claim_cleanup`: the backend is released under a use acquired with ACQUIRE_USE.
* `claim_identity`: after a second restart a registration takes the identity of a
  restored incarnation.
* `claim_serve`: with `--serve 2` the worker reads the answer to its result in place of
  the answer to its release; one round later it takes its use to be 0, and the use it
  was given is never released. `LagCorrect` gives the drift exactly.
* `claim_blockers`: the blockers of the standby account come in the order of a hash table
  (and with two slots or more, so do the deferred slots).

Others, visible in the models and without a run of their own.

* Authority: `activate` (493) and `revalidate` (194) make an incarnation current
  without clearing the flag of the engine's others, where `engine.hpp` 131 speaks of
  *the* current one; `advance_epoch` demotes RUNNING incarnations only; `activate` does not look
  at the recovery state; `acquire_serving_use` looks neither at the activation
  state nor at the fence, so an incarnation that is fenced and then revalidated
  serves, where `runtime.hpp` 75-76 says of a fence "Old traffic remains rejected".
* Drain and replacement: a drain requested again on a DRAINED incarnation starts
  over with the old acknowledgment still set and nothing left that would complete it;
  `route_drain` fences admission before the authority generation of the command is
  compared; RELEASE_USE is refused after a fence, a drain or a cutover, so a use that a
  session acquired itself then stays open; a cutover to a candidate that is already
  ACTIVE sets it back to STANDBY while it serves.
* Preparation: ending an older attempt erases the active entry of a newer one, and a
  third can begin beside it, where `runtime.hpp` 105-106 says of a rollback "never clearing
  newer state"; an attempt that was rolled back can still be completed and publish READY,
  since `complete_preparation` asks only whether it was cancelled; one whose completion is
  refused stays active, and no request cancels it; the worker's activation relies on its PREPARE failing
  for want of the warmup, since a success would supersede the generation it holds.
* Evidence: `update_engine_config` says (89) that it invalidates the evidence and leaves it,
  so an incarnation is ready on what it gathered under the old configuration; an optional component that is incompatible blocks; `clock.hpp` 14-16 says that a
  monotonic time is never persisted and compared in another process, and stamps are
  (`persistence.cpp` 122). No saved stamp makes an incarnation ready, since load demands
  revalidation (`TimeOnlyDecays` and `InvalidationHolds` check it). But an entry stamped
  ahead of the new clock outranks every renewal (`readiness.cpp` 24) and demands
  revalidation, so the incarnation stays BLOCKED until the clock passes it;
  `RenewalDecides` speaks of reports later than all others and leaves this out. The same
  line lets the earlier of two reports with one stamp stand.
* Standby: `standby.cpp` 33-37 counts whatever is RUNNING, not active and has usable
  evidence. So it counts the incarnation that a cutover closed, which has activation
  FENCED and admits nothing (34-35 says "non-fenced"; 30 says "only current"), one that
  was not revalidated in the present epoch (README 69: "standby counts exclude unvalidated
  incarnations"), and one that was fenced and then marked running.
* Restart: the coordinator advances the epoch without saving it, so two restarts from one
  file begin the same epoch (`runtime.hpp` 78: "Advance the coordinator epoch durably";
  README 53: "a monotonic durable epoch"); a boot that was fenced may register again, and the incarnation a cutover
  closed is open again; a file torn by a death during SAVE takes the epoch back to 1.

## 6. Not modelled, and the plan

What would come next is two SAVEs at once, and `load` into a runtime that is already
serving.

Left out for good: economics (a saturating sum of cost samples and a comparison of
totals, sequential and without state anything reads back), the byte formats of
frames and of the saved state, the CPU and CUDA backends, the registry lookups, and
command-line parsing and printing. Messages QUERY_DRAIN and SHUTDOWN read or end and
change nothing.
