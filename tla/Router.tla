------------------------------- MODULE Router -------------------------------
(***************************************************************************)
(* Routing of controller commands to a worker (src/src/coordinator/         *)
(* session.cpp) for one incarnation: the controller session threads that    *)
(* route EXECUTE and DRAIN, the bounded queue, the dispatcher thread that   *)
(* alone talks to the worker, the worker process and the connection to it.  *)
(*                                                                          *)
(* Calls into the runtime are atomic (Residency); between two calls every   *)
(* other thread may run.  Of the runtime only what these threads read and   *)
(* change for this incarnation is kept: its fence, its drain and its open   *)
(* serving uses.  A use is named by the command or session it was admitted  *)
(* for.                                                                     *)
(***************************************************************************)
EXTENDS Naturals, Sequences, FiniteSets

CONSTANTS Execute,    \* EXECUTE commands, each routed by a thread of its own
          Drain,      \* DRAIN commands
          Stale,      \* commands without an epoch, whose authority generation
                      \* may be superseded
          Direct,     \* sessions that hold a use through ACQUIRE_USE instead
          NoCommand,
          MaxQueue    \* WorkerRouter::max_queue_

ASSUME CommandAssumption ==
  /\ Execute \cap Drain = {} /\ Direct \cap (Execute \cup Drain) = {}
  /\ NoCommand \notin Execute \cup Drain

ASSUME QueueAssumption == MaxQueue \in Nat \ {0}

Command == Execute \cup Drain

VARIABLES
  route,      \* command -> where its controller thread is
  promise,    \* command -> the reply set for the controller thread
  router,     \* flags of the WorkerRouter: bound in the registry, ready, alive
  queue,      \* commands accepted and not yet taken by the dispatcher
  disp,       \* the dispatcher: program counter, command in hand, its result
  worker,     \* the worker process: up or down, crashed, command, backend, and
              \* (history) the commands it carried out
  toWorker, fromWorker,   \* the two directions of the connection
  open,       \* the serving uses admitted and not released
  drain,      \* DrainState of the incarnation
  fenced,     \* the incarnation is fenced
  direct      \* session -> what it does with its use

vars == <<route, promise, router, queue, disp, worker, toWorker, fromWorker,
          open, drain, fenced, direct>>

controllerVars == <<route, direct>>
connectionVars == <<toWorker, fromWorker>>
runtimeVars    == <<open, drain, fenced>>

-----------------------------------------------------------------------------
TypeOK ==
  /\ route \in [Command -> {"start", "request", "drain", "enqueue", "waiting",
                            "ok", "error", "timeout"}]
  /\ promise \in [Command -> {"unset", "ok", "error"}]
  /\ router \in [bound : BOOLEAN, ready : BOOLEAN, alive : BOOLEAN]
  /\ queue \in Seq(Command) /\ Len(queue) <= MaxQueue
  /\ disp \in [pc : {"setup", "idle", "check", "gate", "acquire", "send", "recv",
                     "release", "ack", "settle", "abandon", "fail", "swap",
                     "last", "unbind", "ended"},
               cmd : Command \cup {NoCommand},
               result : {"ok", "error"}]
  /\ worker \in [up : BOOLEAN, crashed : BOOLEAN, job : Command \cup {NoCommand},
                 cleaned : BOOLEAN, done : SUBSET Command]
  /\ toWorker \in Seq(Command) /\ fromWorker \in Seq(Command)
  /\ open \subseteq Execute \cup Direct
  /\ drain \in [phase : {"NONE", "ACTIVE_USE_REMAINING", "BACKEND_CLEANUP_PENDING",
                         "DRAINED"},
                admission_fenced : BOOLEAN, backend_cleanup_ack : BOOLEAN]
  /\ fenced \in BOOLEAN
  /\ direct \in [Direct -> {"none", "held", "releasing", "gone"}]

Init ==
  /\ route = [c \in Command |-> "start"]
  /\ promise = [c \in Command |-> "unset"]
  /\ router = [bound |-> TRUE, ready |-> FALSE, alive |-> TRUE]
  /\ queue = <<>>
  /\ disp = [pc |-> "setup", cmd |-> NoCommand, result |-> "error"]
  /\ worker = [up |-> TRUE, crashed |-> FALSE, job |-> NoCommand, cleaned |-> FALSE,
               done |-> {}]
  /\ toWorker = <<>> /\ fromWorker = <<>>
  /\ open = {}
  /\ drain = [phase |-> "NONE", admission_fenced |-> FALSE,
              backend_cleanup_ack |-> FALSE]
  /\ fenced = FALSE
  /\ direct = [s \in Direct |-> "none"]

-----------------------------------------------------------------------------
(* The runtime calls these threads make; see Residency for each of them.    *)

MayAdmit == ~fenced /\ ~drain.admission_fenced

\* The drain after use u was released.
DrainWithout(u) ==
  IF drain.admission_fenced /\ open = {u}
  THEN [drain EXCEPT !.phase = IF drain.backend_cleanup_ack THEN "DRAINED"
                               ELSE "BACKEND_CLEANUP_PENDING"]
  ELSE drain

ReleaseUse(u) == open' = open \ {u} /\ drain' = DrainWithout(u)

RequestedDrain ==
  [drain EXCEPT !.admission_fenced = TRUE,
                !.phase = IF open = {} THEN "BACKEND_CLEANUP_PENDING"
                                       ELSE "ACTIVE_USE_REMAINING"]

\* Wrong variant: the acknowledgment completes the drain, whatever is open.
Wrong_AckIgnoresUses == [drain EXCEPT !.backend_cleanup_ack = TRUE, !.phase = "DRAINED"]

\* Wrong variant: the acknowledgment is recorded and the phase forgotten.
Wrong_AckWithoutPhase == [drain EXCEPT !.backend_cleanup_ack = TRUE]

AcknowledgedDrain ==
  [drain EXCEPT !.backend_cleanup_ack = TRUE,
                !.phase = IF drain.admission_fenced /\ open = {} THEN "DRAINED" ELSE @]

-----------------------------------------------------------------------------
(* A controller thread routes its command *)

At(c, pc) == route[c] = pc

\* The thread keeps the router it found even if the session ends meanwhile.
FindRouter(c) ==
  /\ At(c, "start")
  /\ route' = [route EXCEPT ![c] =
       IF ~router.bound \/ ~router.ready THEN "error"
       ELSE IF c \in Drain THEN "request" ELSE "enqueue"]
  /\ UNCHANGED <<promise, router, queue, disp, worker, connectionVars, runtimeVars,
                 direct>>

CheckFence(c) ==
  /\ At(c, "request")
  /\ route' = [route EXCEPT ![c] = IF fenced THEN "error" ELSE "drain"]
  /\ UNCHANGED <<promise, router, queue, disp, worker, connectionVars, runtimeVars,
                 direct>>

RequestDrain(c) ==
  /\ At(c, "drain")
  /\ drain' = RequestedDrain
  /\ route' = [route EXCEPT ![c] = "enqueue"]
  /\ UNCHANGED <<promise, router, queue, disp, worker, connectionVars, open, fenced,
                 direct>>

\* Wrong variant: a dead router still takes commands.
Wrong_AcceptsWhenDead == router.ready /\ Len(queue) < MaxQueue

\* Wrong variant: the queue has no bound.
Wrong_AcceptsWhenFull == router.ready /\ router.alive

Accepts == router.ready /\ router.alive /\ Len(queue) < MaxQueue

Enqueue(c) ==
  /\ At(c, "enqueue")
  /\ route' = [route EXCEPT ![c] = "waiting"]
  /\ IF Accepts
     THEN queue' = Append(queue, c) /\ promise' = promise
     ELSE queue' = queue /\ promise' = [promise EXCEPT ![c] = "error"]
  /\ UNCHANGED <<router, disp, worker, connectionVars, runtimeVars, direct>>

ReplyToController(c) ==
  /\ At(c, "waiting") /\ promise[c] # "unset"
  /\ route' = [route EXCEPT ![c] = promise[c]]
  /\ UNCHANGED <<promise, router, queue, disp, worker, connectionVars, runtimeVars,
                 direct>>

\* The 60 s wait ends; the command stays where it is.
TimeOut(c) ==
  /\ At(c, "waiting") /\ promise[c] = "unset"
  /\ route' = [route EXCEPT ![c] = "timeout"]
  /\ UNCHANGED <<promise, router, queue, disp, worker, connectionVars, runtimeVars,
                 direct>>

-----------------------------------------------------------------------------
(* The dispatcher *)

cmd == disp.cmd

\* A promise is set once; a second attempt is caught and has no effect.
Settled(cs, reply) ==
  [c \in Command |-> IF c \in cs /\ promise[c] = "unset" THEN reply ELSE promise[c]]

\* Wrong variant: the controller is not told.
Wrong_RejectSilently ==
  UNCHANGED promise /\ disp' = [disp EXCEPT !.pc = "idle", !.cmd = NoCommand]

\* Reject the command in hand and go back to the queue.
Reject ==
  /\ promise' = Settled({cmd}, "error")
  /\ disp' = [disp EXCEPT !.pc = "idle", !.cmd = NoCommand]

Goto(pc) == disp' = [disp EXCEPT !.pc = pc]

\* COMMAND_READY: the session thread adopts the socket and becomes dispatcher.
StartDispatcher ==
  /\ disp.pc = "setup"
  /\ router' = [router EXCEPT !.ready = TRUE]
  /\ Goto("idle")
  /\ UNCHANGED <<controllerVars, promise, queue, worker, connectionVars, runtimeVars>>

\* The worker is lost before COMMAND_READY: the session just ends.
EndInSetup ==
  /\ disp.pc = "setup" /\ ~worker.up
  /\ Goto("unbind")
  /\ UNCHANGED <<controllerVars, promise, router, queue, worker, connectionVars,
                 runtimeVars>>

Dequeue ==
  /\ disp.pc = "idle" /\ router.alive /\ queue # <<>>
  /\ disp' = [disp EXCEPT !.pc = "check", !.cmd = Head(queue)]
  /\ queue' = Tail(queue)
  /\ UNCHANGED <<controllerVars, promise, router, worker, connectionVars, runtimeVars>>

CheckCycle ==
  /\ disp.pc = "check"
  /\ \/ cmd \in Stale /\ Reject
     \/ Goto(IF cmd \in Execute THEN "gate" ELSE "send") /\ UNCHANGED promise
  /\ UNCHANGED <<controllerVars, router, queue, worker, connectionVars, runtimeVars>>

CheckGate ==
  /\ disp.pc = "gate"
  /\ IF MayAdmit THEN Goto("acquire") /\ UNCHANGED promise ELSE Reject
  /\ UNCHANGED <<controllerVars, router, queue, worker, connectionVars, runtimeVars>>

\* The acquisition validates again, and may also fail for what is left out
\* here: readiness, a superseded generation, the cap on active uses.
AcquireUse ==
  /\ disp.pc = "acquire"
  /\ \/ /\ MayAdmit
        /\ open' = open \cup {cmd}
        /\ Goto("send")
        /\ UNCHANGED promise
     \/ Reject /\ open' = open
  /\ UNCHANGED <<controllerVars, router, queue, worker, connectionVars, drain, fenced>>

\* A send to a worker that is down fails, or succeeds and the frame is lost.
Send ==
  /\ disp.pc = "send"
  /\ \/ Goto("recv") /\ toWorker' = Append(toWorker, cmd)
     \/ ~worker.up /\ Goto("abandon") /\ toWorker' = toWorker
  /\ UNCHANGED <<controllerVars, promise, router, queue, worker, fromWorker, runtimeVars>>

\* Wrong variant: a successful EXECUTE is answered before its use is released.
Wrong_StepAfterReply == IF cmd \in Execute THEN "settle" ELSE "ack"

StepAfterReply == IF cmd \in Execute THEN "release" ELSE "ack"

\* Wrong variant: a worker that is slow to answer costs only the command in
\* hand; its router and the connection are used for the next one.
Wrong_Recv ==
  /\ disp.pc = "recv"
  /\ \/ /\ fromWorker # <<>>
        /\ disp' = [disp EXCEPT !.pc = StepAfterReply, !.result = "ok"]
        /\ fromWorker' = Tail(fromWorker)
     \/ /\ fromWorker = <<>>
        /\ disp' = [disp EXCEPT !.pc = StepAfterReply, !.result = "error"]
        /\ UNCHANGED fromWorker
  /\ UNCHANGED <<controllerVars, promise, router, queue, worker, toWorker, runtimeVars>>

\* The reply is not compared with the command: it is the next frame that
\* arrives.  An orderly close delivers what was sent before it.
Recv ==
  /\ disp.pc = "recv"
  /\ \/ /\ fromWorker # <<>>
        /\ disp' = [disp EXCEPT !.pc = StepAfterReply, !.result = "ok"]
        /\ fromWorker' = Tail(fromWorker)
     \/ /\ ~worker.up /\ (worker.crashed \/ fromWorker = <<>>)
        /\ Goto("abandon")
        /\ fromWorker' = <<>>
  /\ UNCHANGED <<controllerVars, promise, router, queue, worker, toWorker, runtimeVars>>

ReleaseAfterReply ==
  /\ disp.pc = "release"
  /\ ReleaseUse(cmd)
  /\ Goto("settle")
  /\ UNCHANGED <<controllerVars, promise, router, queue, worker, connectionVars, fenced>>

AcknowledgeCleanup ==
  /\ disp.pc = "ack"
  /\ drain' = AcknowledgedDrain
  /\ Goto("settle")
  /\ UNCHANGED <<controllerVars, promise, router, queue, worker, connectionVars, open,
                 fenced>>

\* Wrong variant: the use of an EXECUTE the worker did not survive is kept.
Wrong_AbandonKeepsUse == UNCHANGED <<open, drain>>

AbandonUse == IF cmd \in Execute THEN ReleaseUse(cmd) ELSE UNCHANGED <<open, drain>>

Abandon ==
  /\ disp.pc = "abandon"
  /\ AbandonUse
  /\ disp' = [disp EXCEPT !.pc = "fail", !.result = "error"]
  /\ UNCHANGED <<controllerVars, promise, router, queue, worker, connectionVars, fenced>>

\* fail(): alive_ is cleared first, and only then is the queue taken.
MarkDead ==
  /\ disp.pc = "fail"
  /\ router' = [router EXCEPT !.alive = FALSE]
  /\ Goto("swap")
  /\ UNCHANGED <<controllerVars, promise, queue, worker, connectionVars, runtimeVars>>

FailPending ==
  /\ disp.pc = "swap"
  /\ promise' = Settled({queue[k] : k \in DOMAIN queue}, "error")
  /\ queue' = <<>>
  /\ Goto("settle")
  /\ UNCHANGED <<controllerVars, router, worker, connectionVars, runtimeVars>>

SettleCommand ==
  /\ disp.pc = "settle"
  /\ promise' = Settled({cmd}, disp.result)
  /\ disp' = [disp EXCEPT !.pc = IF router.alive THEN "idle" ELSE "last",
                          !.cmd = NoCommand]
  /\ UNCHANGED <<controllerVars, router, queue, worker, connectionVars, runtimeVars>>

\* The loop ended: fail() again for what may still be queued, and the session
\* takes its router out of the registry.
FailRemaining ==
  /\ disp.pc = "last"
  /\ promise' = Settled({queue[k] : k \in DOMAIN queue}, "error")
  /\ queue' = <<>>
  /\ Goto("unbind")
  /\ UNCHANGED <<controllerVars, router, worker, connectionVars, runtimeVars>>

Unbind ==
  /\ disp.pc = "unbind"
  /\ router' = [router EXCEPT !.bound = FALSE]
  /\ Goto("ended")
  /\ UNCHANGED <<controllerVars, promise, queue, worker, connectionVars, runtimeVars>>

Dispatcher ==
  \/ StartDispatcher \/ EndInSetup \/ Dequeue \/ CheckCycle \/ CheckGate
  \/ AcquireUse \/ Send \/ Recv \/ ReleaseAfterReply \/ AcknowledgeCleanup
  \/ Abandon \/ MarkDead \/ FailPending \/ SettleCommand \/ FailRemaining
  \/ Unbind

-----------------------------------------------------------------------------
(* The worker process in command mode *)

TakeCommand ==
  /\ worker.up /\ worker.job = NoCommand /\ toWorker # <<>>
  /\ worker' = [worker EXCEPT !.job = Head(toWorker)]
  /\ toWorker' = Tail(toWorker)
  /\ UNCHANGED <<controllerVars, promise, router, queue, disp, fromWorker, runtimeVars>>

ExecuteWork ==
  /\ worker.up /\ worker.job \in Execute
  /\ fromWorker' = Append(fromWorker, worker.job)
  /\ worker' = [worker EXCEPT !.job = NoCommand, !.done = @ \cup {worker.job}]
  /\ UNCHANGED <<controllerVars, promise, router, queue, disp, toWorker, runtimeVars>>

\* backend->release(): weights, workspace and graph are gone from here on.
CleanBackend ==
  /\ worker.up /\ worker.job \in Drain /\ ~worker.cleaned
  /\ worker' = [worker EXCEPT !.cleaned = TRUE, !.done = @ \cup {worker.job}]
  /\ UNCHANGED <<controllerVars, promise, router, queue, disp, connectionVars, runtimeVars>>

\* Wrong variant: the worker answers DRAIN before it releases the backend.
Wrong_ReadyToReportDrain == worker.up /\ worker.job \in Drain

ReadyToReportDrain == worker.up /\ worker.job \in Drain /\ worker.cleaned

ReportDrainAndExit ==
  /\ ReadyToReportDrain
  /\ fromWorker' = Append(fromWorker, worker.job)
  /\ worker' = [worker EXCEPT !.job = NoCommand, !.up = FALSE]
  /\ UNCHANGED <<controllerVars, promise, router, queue, disp, toWorker, runtimeVars>>

WorkerProcess == TakeCommand \/ ExecuteWork \/ CleanBackend \/ ReportDrainAndExit

Crash ==
  /\ worker.up
  /\ worker' = [worker EXCEPT !.up = FALSE, !.crashed = TRUE, !.job = NoCommand]
  /\ UNCHANGED <<controllerVars, promise, router, queue, disp, connectionVars, runtimeVars>>

-----------------------------------------------------------------------------
(* Other sessions *)

FenceWorker ==
  /\ fenced' = TRUE
  /\ UNCHANGED <<controllerVars, promise, router, queue, disp, worker, connectionVars,
                 open, drain>>

\* A DRAIN without a target, from the worker's own session: admission is fenced
\* and nothing is routed.
DrainOwn ==
  /\ disp.pc = "setup" /\ worker.up
  /\ drain' = RequestedDrain
  /\ UNCHANGED <<controllerVars, promise, router, queue, disp, worker, connectionVars,
                 open, fenced>>

\* commit_cutover replaces this incarnation by another.
Cutover ==
  /\ drain' = [drain EXCEPT !.admission_fenced = TRUE]
  /\ UNCHANGED <<controllerVars, promise, router, queue, disp, worker, connectionVars,
                 open, fenced>>

AcquireDirect(s) ==
  /\ direct[s] = "none" /\ MayAdmit
  /\ open' = open \cup {s}
  /\ direct' = [direct EXCEPT ![s] = "held"]
  /\ UNCHANGED <<route, promise, router, queue, disp, worker, connectionVars, drain,
                 fenced>>

\* RELEASE_USE is refused once the incarnation is fenced or draining.
CheckDirectRelease(s) ==
  /\ direct[s] = "held" /\ MayAdmit
  /\ direct' = [direct EXCEPT ![s] = "releasing"]
  /\ UNCHANGED <<route, promise, router, queue, disp, worker, connectionVars,
                 runtimeVars>>

ReleaseDirect(s) ==
  /\ direct[s] = "releasing"
  /\ ReleaseUse(s)
  /\ direct' = [direct EXCEPT ![s] = "none"]
  /\ UNCHANGED <<route, promise, router, queue, disp, worker, connectionVars, fenced>>

\* The session ends; the use it holds is forgotten, not released.
Disconnect(s) ==
  /\ direct[s] \in {"none", "held"}
  /\ direct' = [direct EXCEPT ![s] = "gone"]
  /\ UNCHANGED <<route, promise, router, queue, disp, worker, connectionVars,
                 runtimeVars>>

-----------------------------------------------------------------------------
Controller(c) ==
  FindRouter(c) \/ CheckFence(c) \/ RequestDrain(c) \/ Enqueue(c) \/ ReplyToController(c)

Next ==
  \/ \E c \in Command : Controller(c) \/ TimeOut(c)
  \/ Dispatcher
  \/ WorkerProcess
  \/ Crash
  \/ FenceWorker
  \/ DrainOwn
  \/ Cutover
  \/ \E s \in Direct : \/ AcquireDirect(s) \/ CheckDirectRelease(s)
                       \/ ReleaseDirect(s) \/ Disconnect(s)

\* Threads run and a worker that is up answers every command it takes: its
\* command loop has no wait that is not bounded.  Nothing makes it crash,
\* makes a wait time out, or makes another session act.
Fairness ==
  /\ WF_vars(Dispatcher)
  /\ WF_vars(WorkerProcess)
  /\ \A c \in Command : WF_vars(Controller(c))

Spec == Init /\ [][Next]_vars

FairSpec == Spec /\ Fairness

-----------------------------------------------------------------------------
(* What must hold *)

\* session.hpp: "physical cleanup never precedes use closure".  The backend is
\* released only when no use is open, routed or acquired by a session directly.
CleanupAfterUses == worker.cleaned => open = {}

\* For the uses of routed commands that holds: the one dispatcher closes each
\* before it takes the next command from the queue, so a DRAIN is never at the
\* worker together with the use of an EXECUTE, dead workers included.
CleanupAfterRoutedUses == worker.cleaned => open \cap Execute = {}

\* README: commands are correlated with their results.  A controller is told
\* "ok" only if the worker carried out that very command: no late, repeated or
\* foreign reply is taken for it, also after another controller timed out.
OkMeansDone == \A c \in Command : promise[c] = "ok" => c \in worker.done

\* A use the router admits is held only while its command is with the worker
\* or being closed: none survives the command, whatever happens to the worker.
RoutedUsesAreClosed ==
  open \cap Execute \subseteq
    IF disp.pc \in {"send", "recv", "release", "abandon"} THEN {cmd} ELSE {}

\* DRAINED is reported only if the worker really released its backend in answer
\* to a DRAIN: a reply to an earlier command, a crash or a cutover is not
\* mistaken for it.
DrainedMeansCleaned == drain.phase = "DRAINED" => worker.cleaned

\* DRAINED is reported only while nothing is served, also for the uses that
\* other sessions hold and the dispatcher knows nothing of.
DrainedIsIdle == drain.phase = "DRAINED" => open = {} /\ ~MayAdmit

\* No command is lost between a controller and a router that dies: once the
\* dispatcher is gone nothing is queued, and every command that was handed to
\* the router has its reply.
NothingStranded ==
  disp.pc \in {"unbind", "ended"} =>
    /\ queue = <<>>
    /\ \A c \in Command : At(c, "waiting") => promise[c] # "unset"

\* Every command that is handed to the router is answered, crash or not.
EveryCommandSettles ==
  \A c \in Command : At(c, "waiting") ~> promise[c] # "unset"

\* A DRAIN handed to a live router ends in DRAINED unless the worker crashes,
\* the command is refused, or a session holds a use it acquired directly.
DrainCompletes ==
  \A c \in Drain :
    (At(c, "waiting") /\ promise[c] = "unset") ~>
      \/ drain.phase = "DRAINED" \/ worker.crashed \/ promise[c] = "error"
      \/ open \cap Direct # {}
=============================================================================
