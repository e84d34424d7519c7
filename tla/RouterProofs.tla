---------------------------- MODULE RouterProofs ----------------------------
(***************************************************************************)
(* The safety of routing (Router) for every set of commands and sessions    *)
(* and every queue bound.                                                    *)
(***************************************************************************)
EXTENDS Router, TLAPS

\* The steps in which the dispatcher has a command in hand.
InHand == {"check", "gate", "acquire", "send", "recv", "release", "ack", "settle",
           "abandon", "fail", "swap"}

\* The elements of a sequence of commands.
Elements(q) == {q[k] : k \in DOMAIN q}

\* The command in hand; only an EXECUTE is held against the admission gate.
HandIsFull ==
  /\ disp.pc \in InHand => cmd \in Command
  /\ disp.pc \in {"gate", "acquire"} => cmd \in Execute

\* Nothing is on its way to the worker, with it, or on its way back.
Quiet == toWorker = <<>> /\ worker.job = NoCommand /\ fromWorker = <<>>

\* The dispatcher has given the worker up, or has not got over losing it.
GivenUp ==
  \/ disp.pc \in {"abandon", "fail", "swap", "last", "unbind", "ended"}
  \/ disp.pc = "settle" /\ ~router.alive

\* At most one command is in flight, and it is the one in the dispatcher's
\* hand: a reply can only be the reply to it.  A worker that was given up is
\* down and stays down.
OneInFlight ==
  /\ ~router.alive => GivenUp
  /\ disp.pc \in {"swap", "last"} => ~router.alive
  /\ GivenUp => ~worker.up
  /\ ~GivenUp /\ disp.pc # "recv" => Quiet
  /\ disp.pc = "recv" =>
       \/ toWorker = <<cmd>> /\ worker.job = NoCommand /\ fromWorker = <<>>
       \/ toWorker = <<>> /\ worker.job = cmd /\ fromWorker = <<>>
       \/ toWorker = <<>> /\ worker.job = NoCommand /\ fromWorker = <<cmd>>
            /\ cmd \in worker.done /\ (cmd \in Drain => worker.cleaned)
       \/ toWorker = <<>> /\ worker.job = NoCommand /\ fromWorker = <<>> /\ ~worker.up

\* A worker that released its backend and has not exited is busy with the DRAIN
\* that made it do so.
CleaningWorker == worker.up /\ worker.cleaned => worker.job \in Drain \cap worker.done

\* A result is "ok" only for a command that the worker carried out.
ResultsAreEarned ==
  /\ disp.pc \in {"fail", "swap"} => disp.result = "error"
  /\ disp.pc \in {"release", "ack", "settle"} /\ disp.result = "ok" => cmd \in worker.done
  /\ disp.pc = "ack" => worker.cleaned
  /\ OkMeansDone

\* A DRAIN is routed only after its request fenced the admission, so whatever
\* the worker cleans up is closed.
DrainsAreRequested ==
  /\ \A c \in Drain : At(c, "enqueue") \/ c \in Elements(queue) =>
       drain.admission_fenced
  /\ disp.pc \in InHand /\ cmd \in Drain => drain.admission_fenced
  /\ worker.cleaned => drain.admission_fenced

\* How the drain phase, the acknowledgment and the open uses go together.
DrainIsHonest ==
  /\ drain.backend_cleanup_ack => worker.cleaned
  /\ drain.phase = "DRAINED" =>
       drain.backend_cleanup_ack /\ drain.admission_fenced /\ open = {}

\* A command without its reply is in the queue or in the dispatcher's hand, and
\* a router that stopped for good accepts nothing more.
NothingLost ==
  /\ \A c \in Command : At(c, "waiting") /\ promise[c] = "unset" =>
       c \in Elements(queue) \/ (disp.pc \in InHand /\ c = cmd)
  /\ disp.pc = "setup" => ~router.ready
  /\ disp.pc \in {"unbind", "ended"} => ~(router.ready /\ router.alive)
  /\ disp.pc \in {"setup", "unbind", "ended"} => queue = <<>>

\* The inductive invariant.
RouterInv ==
  /\ TypeOK /\ HandIsFull
  /\ OneInFlight /\ CleaningWorker /\ ResultsAreEarned
  /\ RoutedUsesAreClosed /\ CleanupAfterRoutedUses
  /\ DrainsAreRequested /\ DrainIsHonest /\ NothingLost

-----------------------------------------------------------------------------
(* Sequences of commands *)

LEMMA ElementsEmpty == Elements(<<>>) = {}
BY DEF Elements

LEMMA ElementsAppend ==
  ASSUME NEW q \in Seq(Command), NEW c \in Command
  PROVE  Elements(Append(q, c)) = Elements(q) \cup {c}
<1>1. DOMAIN Append(q, c) = 1 .. Len(q) + 1 /\ DOMAIN q = 1 .. Len(q) /\ Len(q) \in Nat
  OBVIOUS
<1>2. \A k \in 1 .. Len(q) : Append(q, c)[k] = q[k]
  OBVIOUS
<1>3. Append(q, c)[Len(q) + 1] = c
  OBVIOUS
<1>4. 1 .. Len(q) + 1 = (1 .. Len(q)) \cup {Len(q) + 1}
  BY <1>1
<1> HIDE DEF Command
<1> QED BY <1>1, <1>2, <1>3, <1>4 DEF Elements

LEMMA ElementsTail ==
  ASSUME NEW q \in Seq(Command), q # <<>>
  PROVE  /\ Head(q) \in Command /\ Tail(q) \in Seq(Command) /\ Len(Tail(q)) = Len(q) - 1
         /\ Elements(q) = Elements(Tail(q)) \cup {Head(q)}
<1>1. Len(q) \in Nat /\ Len(q) > 0 /\ DOMAIN q = 1 .. Len(q) /\ Head(q) = q[1]
  OBVIOUS
<1>2. /\ Head(q) \in Command /\ Tail(q) \in Seq(Command) /\ Len(Tail(q)) = Len(q) - 1
      /\ DOMAIN Tail(q) = 1 .. Len(q) - 1
      /\ \A k \in 1 .. Len(q) - 1 : Tail(q)[k] = q[k + 1]
  OBVIOUS
<1>3. ASSUME NEW k \in 1 .. Len(q) PROVE k = 1 \/ (k - 1 \in 1 .. Len(q) - 1)
  BY <1>1
<1>4. \A k \in DOMAIN q : q[k] \in Elements(Tail(q)) \cup {Head(q)}
  <2> SUFFICES ASSUME NEW k \in 1 .. Len(q), k # 1
               PROVE  q[k] \in Elements(Tail(q))
    BY <1>1
  <2>1. k - 1 \in DOMAIN Tail(q) /\ Tail(q)[k - 1] = q[k]
    BY <1>1, <1>2
  <2> QED BY <2>1 DEF Elements
<1>5. \A k \in DOMAIN Tail(q) : Tail(q)[k] \in Elements(q)
  BY <1>1, <1>2 DEF Elements
<1>6. Head(q) \in Elements(q)
  BY <1>1 DEF Elements
<1> QED BY <1>2, <1>4, <1>5, <1>6 DEF Elements

-----------------------------------------------------------------------------
(* The shape of the state *)

Routes == {"start", "request", "drain", "enqueue", "waiting", "ok", "error", "timeout"}
Steps  == {"setup", "idle", "check", "gate", "acquire", "send", "recv", "release", "ack",
           "settle", "abandon", "fail", "swap", "last", "unbind", "ended"}
Phases == {"NONE", "ACTIVE_USE_REMAINING", "BACKEND_CLEANUP_PENDING", "DRAINED"}

RouterState  == [bound : BOOLEAN, ready : BOOLEAN, alive : BOOLEAN]
DispState    == [pc : Steps, cmd : Command \cup {NoCommand}, result : {"ok", "error"}]
WorkerState  == [up : BOOLEAN, crashed : BOOLEAN, job : Command \cup {NoCommand},
                 cleaned : BOOLEAN, done : SUBSET Command]
RouterDrain  == [phase : Phases, admission_fenced : BOOLEAN, backend_cleanup_ack : BOOLEAN]

\* TypeOK, one part for each variable.
LEMMA TypeParts ==
  TypeOK <=>
    /\ route \in [Command -> Routes]
    /\ promise \in [Command -> {"unset", "ok", "error"}]
    /\ router \in RouterState
    /\ queue \in Seq(Command) /\ Len(queue) <= MaxQueue
    /\ disp \in DispState /\ worker \in WorkerState
    /\ toWorker \in Seq(Command) /\ fromWorker \in Seq(Command)
    /\ open \subseteq Execute \cup Direct
    /\ drain \in RouterDrain /\ fenced \in BOOLEAN
    /\ direct \in [Direct -> {"none", "held", "releasing", "gone"}]
BY DEF TypeOK, Routes, Steps, Phases, RouterState, DispState, WorkerState, RouterDrain

\* The dispatcher moves on, takes a command, or drops the one it has.
LEMMA DispStep ==
  ASSUME TypeOK, [Next]_vars
  PROVE  disp' \in DispState
<1>0. disp \in DispState /\ queue \in Seq(Command)
  BY TypeParts
<1>1. disp' = disp \/ Dispatcher
  BY DEF Next, vars, Controller, FindRouter, CheckFence, RequestDrain, Enqueue,
         ReplyToController, TimeOut, WorkerProcess, TakeCommand, ExecuteWork, CleanBackend,
         ReportDrainAndExit, Crash, FenceWorker, DrainOwn, Cutover, AcquireDirect,
         CheckDirectRelease, ReleaseDirect, Disconnect
<1>2. ASSUME NEW pc \in Steps, Goto(pc) PROVE disp' \in DispState
  BY <1>0, <1>2 DEF Goto, DispState
<1>3. ASSUME Reject PROVE disp' \in DispState
  BY <1>0, <1>3 DEF Reject, DispState, Steps
<1>4. CASE Dequeue
  <2>1. Head(queue) \in Command /\ disp' = [disp EXCEPT !.pc = "check", !.cmd = Head(queue)]
    BY <1>0, <1>4, ElementsTail DEF Dequeue
  <2> QED BY <1>0, <2>1 DEF DispState, Steps
<1>5. CASE Recv
  <2>1. \/ \E pc \in {"release", "ack"} : disp' = [disp EXCEPT !.pc = pc, !.result = "ok"]
        \/ Goto("abandon")
    BY <1>5 DEF Recv, StepAfterReply
  <2> QED BY <1>0, <1>2, <2>1 DEF DispState, Steps
<1>6. CASE Abandon \/ SettleCommand
  BY <1>0, <1>6 DEF Abandon, SettleCommand, DispState, Steps
<1>7. CASE \/ StartDispatcher \/ EndInSetup \/ CheckCycle \/ CheckGate \/ AcquireUse \/ Send
           \/ ReleaseAfterReply \/ AcknowledgeCleanup \/ MarkDead \/ FailPending
           \/ FailRemaining \/ Unbind
  <2>1. Reject \/ \E pc \in Steps : Goto(pc)
    BY <1>7 DEF StartDispatcher, EndInSetup, CheckCycle, CheckGate, AcquireUse, Send,
                ReleaseAfterReply, AcknowledgeCleanup, MarkDead, FailPending,
                FailRemaining, Unbind, Steps
  <2> QED BY <1>2, <1>3, <2>1
<1> QED BY <1>0, <1>1, <1>4, <1>5, <1>6, <1>7 DEF Dispatcher

\* The threads of the controllers, and their promises.
LEMMA ControllerStep ==
  ASSUME TypeOK, [Next]_vars
  PROVE  /\ route' \in [Command -> Routes]
         /\ promise' \in [Command -> {"unset", "ok", "error"}]
<1>0. /\ route \in [Command -> Routes] /\ promise \in [Command -> {"unset", "ok", "error"}]
      /\ disp \in DispState
  BY TypeParts
<1>1. \/ route' = route
      \/ \E c \in Command, r \in Routes : route' = [route EXCEPT ![c] = r]
  <2>1. \/ route' = route
        \/ \E c \in Command : Controller(c) \/ TimeOut(c)
    BY DEF Next, vars, controllerVars, Dispatcher, StartDispatcher, EndInSetup, Dequeue,
           CheckCycle, CheckGate, AcquireUse, Send, Recv, ReleaseAfterReply,
           AcknowledgeCleanup, Abandon, MarkDead, FailPending, SettleCommand,
           FailRemaining, Unbind, WorkerProcess, TakeCommand, ExecuteWork, CleanBackend,
           ReportDrainAndExit, Crash, FenceWorker, DrainOwn, Cutover, AcquireDirect,
           CheckDirectRelease, ReleaseDirect, Disconnect
  <2>2. ASSUME NEW c \in Command, Controller(c) \/ TimeOut(c)
        PROVE  \E r \in Routes : route' = [route EXCEPT ![c] = r]
    BY <1>0, <2>2 DEF Controller, FindRouter, CheckFence, RequestDrain, Enqueue,
                      ReplyToController, TimeOut, Routes
  <2> QED BY <2>1, <2>2
<1>2. \/ promise' = promise
      \/ \E c \in Command : promise' = [promise EXCEPT ![c] = "error"]
      \/ \E S, reply : reply \in {"ok", "error"} /\ promise' = Settled(S, reply)
  <2>1. CASE Dispatcher
    BY <1>0, <2>1 DEF Dispatcher, StartDispatcher, EndInSetup, Dequeue, CheckCycle,
           CheckGate, AcquireUse, Send, Recv, ReleaseAfterReply, AcknowledgeCleanup,
           Abandon, MarkDead, FailPending, SettleCommand, FailRemaining, Unbind, Reject,
           DispState
  <2>2. CASE ~Dispatcher
    BY <2>2 DEF Next, vars, Controller, FindRouter, CheckFence, RequestDrain, Enqueue,
           ReplyToController, TimeOut, WorkerProcess, TakeCommand, ExecuteWork,
           CleanBackend, ReportDrainAndExit, Crash, FenceWorker, DrainOwn, Cutover,
           AcquireDirect, CheckDirectRelease, ReleaseDirect, Disconnect
  <2> QED BY <2>1, <2>2
<1> QED BY <1>0, <1>1, <1>2 DEF Settled

\* The router's flags and its queue.
LEMMA QueueStep ==
  ASSUME TypeOK, [Next]_vars
  PROVE  /\ router' \in RouterState
         /\ queue' \in Seq(Command) /\ Len(queue') <= MaxQueue
<1>0. router \in RouterState /\ queue \in Seq(Command) /\ Len(queue) <= MaxQueue
  BY TypeParts
<1>1. \/ router' = router
      \/ router' = [router EXCEPT !.ready = TRUE]
      \/ router' = [router EXCEPT !.alive = FALSE]
      \/ router' = [router EXCEPT !.bound = FALSE]
  BY DEF Next, vars, Controller, FindRouter, CheckFence, RequestDrain, Enqueue,
         ReplyToController, TimeOut, Dispatcher, StartDispatcher, EndInSetup, Dequeue,
         CheckCycle, CheckGate, AcquireUse, Send, Recv, ReleaseAfterReply,
         AcknowledgeCleanup, Abandon, MarkDead, FailPending, SettleCommand,
         FailRemaining, Unbind, WorkerProcess, TakeCommand, ExecuteWork, CleanBackend,
         ReportDrainAndExit, Crash, FenceWorker, DrainOwn, Cutover, AcquireDirect,
         CheckDirectRelease, ReleaseDirect, Disconnect
<1>2. \/ queue' = queue \/ queue' = <<>>
      \/ queue # <<>> /\ queue' = Tail(queue)
      \/ \E c \in Command : Len(queue) < MaxQueue /\ queue' = Append(queue, c)
  BY DEF Next, vars, Controller, FindRouter, CheckFence, RequestDrain, Enqueue, Accepts,
         ReplyToController, TimeOut, Dispatcher, StartDispatcher, EndInSetup, Dequeue,
         CheckCycle, CheckGate, AcquireUse, Send, Recv, ReleaseAfterReply,
         AcknowledgeCleanup, Abandon, MarkDead, FailPending, SettleCommand,
         FailRemaining, Unbind, WorkerProcess, TakeCommand, ExecuteWork, CleanBackend,
         ReportDrainAndExit, Crash, FenceWorker, DrainOwn, Cutover, AcquireDirect,
         CheckDirectRelease, ReleaseDirect, Disconnect
<1>3. router' \in RouterState
  BY <1>0, <1>1 DEF RouterState
<1>4. CASE queue' = queue \/ queue' = <<>>
  <2>1. CASE queue' = queue
    BY <1>0, <1>3, <2>1
  <2>2. CASE queue' = <<>>
    <3>1. queue' \in Seq(Command)
      BY <2>2
    <3>2. Len(queue') = 0
      BY <2>2
    <3> QED BY <1>3, <3>1, <3>2, QueueAssumption
  <2> QED BY <1>4, <2>1, <2>2
<1>5. CASE queue # <<>> /\ queue' = Tail(queue)
  BY <1>0, <1>3, <1>5, QueueAssumption, ElementsTail
<1>6. ASSUME NEW c \in Command, Len(queue) < MaxQueue, queue' = Append(queue, c)
      PROVE  queue' \in Seq(Command) /\ Len(queue') <= MaxQueue
  BY <1>0, <1>6, QueueAssumption
<1> QED BY <1>2, <1>3, <1>4, <1>5, <1>6

\* The worker and the connection to it.
LEMMA WorkerStep ==
  ASSUME TypeOK, HandIsFull, [Next]_vars
  PROVE  /\ worker' \in WorkerState
         /\ toWorker' \in Seq(Command) /\ fromWorker' \in Seq(Command)
<1>0. /\ worker \in WorkerState /\ disp \in DispState
      /\ toWorker \in Seq(Command) /\ fromWorker \in Seq(Command)
  BY TypeParts
<1>1. CASE UNCHANGED <<worker, toWorker, fromWorker>>
  BY <1>0, <1>1
<1>2. CASE TakeCommand
  <2>1. Head(toWorker) \in Command /\ Tail(toWorker) \in Seq(Command)
    BY <1>0, <1>2, ElementsTail DEF TakeCommand
  <2>2. /\ worker' = [worker EXCEPT !.job = Head(toWorker)]
        /\ toWorker' = Tail(toWorker) /\ fromWorker' = fromWorker
    BY <1>2 DEF TakeCommand
  <2> QED BY <1>0, <2>1, <2>2 DEF WorkerState
<1>3. ASSUME NEW c \in Command, worker.job = c,
             ExecuteWork \/ CleanBackend \/ ReportDrainAndExit
      PROVE  /\ worker' \in WorkerState
             /\ toWorker' \in Seq(Command) /\ fromWorker' \in Seq(Command)
  <2>1. /\ toWorker' = toWorker
        /\ fromWorker' = fromWorker \/ fromWorker' = Append(fromWorker, c)
    BY <1>3 DEF ExecuteWork, CleanBackend, ReportDrainAndExit, connectionVars
  <2>2. \/ worker' = [worker EXCEPT !.job = NoCommand, !.done = worker.done \cup {c}]
        \/ worker' = [worker EXCEPT !.cleaned = TRUE, !.done = worker.done \cup {c}]
        \/ worker' = [worker EXCEPT !.job = NoCommand, !.up = FALSE]
    BY <1>3 DEF ExecuteWork, CleanBackend, ReportDrainAndExit
  <2>3. worker.done \cup {c} \in SUBSET Command
    BY <1>0 DEF WorkerState
  <2>4. worker' \in WorkerState
    BY <1>0, <2>2, <2>3 DEF WorkerState
  <2> QED BY <1>0, <2>1, <2>4
<1>4. CASE Crash
  BY <1>0, <1>4 DEF Crash, connectionVars, WorkerState
<1>5. CASE Send
  <2>1. cmd \in Command
    BY <1>5 DEF Send, HandIsFull, InHand
  <2>2. /\ worker' = worker /\ fromWorker' = fromWorker
        /\ toWorker' = toWorker \/ toWorker' = Append(toWorker, cmd)
    BY <1>5 DEF Send
  <2> QED BY <1>0, <2>1, <2>2
<1>6. CASE Recv
  <2>1. /\ worker' = worker /\ toWorker' = toWorker
        /\ \/ fromWorker # <<>> /\ fromWorker' = Tail(fromWorker)
           \/ fromWorker' = <<>>
    BY <1>6 DEF Recv
  <2>2. <<>> \in Seq(Command)
    OBVIOUS
  <2> QED BY <1>0, <2>1, <2>2, ElementsTail
<1>7. \/ UNCHANGED <<worker, toWorker, fromWorker>>
      \/ TakeCommand \/ Crash \/ Send \/ Recv
      \/ ExecuteWork \/ CleanBackend \/ ReportDrainAndExit
  BY DEF Next, vars, connectionVars, Controller, FindRouter, CheckFence, RequestDrain,
         Enqueue, ReplyToController, TimeOut, Dispatcher, StartDispatcher, EndInSetup,
         Dequeue, CheckCycle, CheckGate, AcquireUse, ReleaseAfterReply,
         AcknowledgeCleanup, Abandon, MarkDead, FailPending, SettleCommand,
         FailRemaining, Unbind, WorkerProcess, FenceWorker, DrainOwn, Cutover,
         AcquireDirect, CheckDirectRelease, ReleaseDirect, Disconnect
<1>8. ExecuteWork \/ CleanBackend \/ ReportDrainAndExit => worker.job \in Command
  BY DEF ExecuteWork, CleanBackend, ReportDrainAndExit, ReadyToReportDrain, Command
<1> QED BY <1>1, <1>2, <1>3, <1>4, <1>5, <1>6, <1>7, <1>8

\* The uses, the drain and the fence.
LEMMA RuntimeStep ==
  ASSUME TypeOK, HandIsFull, [Next]_vars
  PROVE  /\ open' \subseteq Execute \cup Direct
         /\ drain' \in RouterDrain /\ fenced' \in BOOLEAN
         /\ direct' \in [Direct -> {"none", "held", "releasing", "gone"}]
<1>0. /\ open \subseteq Execute \cup Direct
      /\ drain \in RouterDrain /\ fenced \in BOOLEAN
      /\ direct \in [Direct -> {"none", "held", "releasing", "gone"}]
  BY TypeParts
<1>1. \/ open' = open \/ \E u : open' = open \ {u}
      \/ \E u \in Execute \cup Direct : open' = open \cup {u}
  <2>1. AcquireUse => cmd \in Execute
    BY DEF AcquireUse, HandIsFull
  <2> QED BY <2>1 DEF Next, vars, runtimeVars, Controller, FindRouter, CheckFence,
         RequestDrain, Enqueue, ReplyToController, TimeOut, Dispatcher, StartDispatcher,
         EndInSetup, Dequeue, CheckCycle, CheckGate, AcquireUse, Send, Recv,
         ReleaseAfterReply, AcknowledgeCleanup, Abandon, AbandonUse, ReleaseUse, MarkDead,
         FailPending, SettleCommand, FailRemaining, Unbind, WorkerProcess, TakeCommand,
         ExecuteWork, CleanBackend, ReportDrainAndExit, Crash, FenceWorker, DrainOwn,
         Cutover, AcquireDirect, CheckDirectRelease, ReleaseDirect, Disconnect
<1>2. \/ drain' = drain
      \/ drain' = RequestedDrain \/ drain' = AcknowledgedDrain
      \/ \E u : drain' = DrainWithout(u)
      \/ drain' = [drain EXCEPT !.admission_fenced = TRUE]
  BY DEF Next, vars, runtimeVars, Controller, FindRouter, CheckFence,
         RequestDrain, Enqueue, ReplyToController, TimeOut, Dispatcher, StartDispatcher,
         EndInSetup, Dequeue, CheckCycle, CheckGate, AcquireUse, Send, Recv,
         ReleaseAfterReply, AcknowledgeCleanup, Abandon, AbandonUse, ReleaseUse, MarkDead,
         FailPending, SettleCommand, FailRemaining, Unbind, WorkerProcess, TakeCommand,
         ExecuteWork, CleanBackend, ReportDrainAndExit, Crash, FenceWorker, DrainOwn,
         Cutover, AcquireDirect, CheckDirectRelease, ReleaseDirect, Disconnect
<1>3. fenced' = fenced \/ fenced' = TRUE
  BY DEF Next, vars, runtimeVars, Controller, FindRouter, CheckFence,
         RequestDrain, Enqueue, ReplyToController, TimeOut, Dispatcher, StartDispatcher,
         EndInSetup, Dequeue, CheckCycle, CheckGate, AcquireUse, Send, Recv,
         ReleaseAfterReply, AcknowledgeCleanup, Abandon, AbandonUse, ReleaseUse, MarkDead,
         FailPending, SettleCommand, FailRemaining, Unbind, WorkerProcess, TakeCommand,
         ExecuteWork, CleanBackend, ReportDrainAndExit, Crash, FenceWorker, DrainOwn,
         Cutover, AcquireDirect, CheckDirectRelease, ReleaseDirect, Disconnect
<1>4. \/ direct' = direct
      \/ \E s \in Direct, d \in {"none", "held", "releasing", "gone"} :
           direct' = [direct EXCEPT ![s] = d]
  BY DEF Next, vars, controllerVars, Controller, FindRouter, CheckFence,
         RequestDrain, Enqueue, ReplyToController, TimeOut, Dispatcher, StartDispatcher,
         EndInSetup, Dequeue, CheckCycle, CheckGate, AcquireUse, Send, Recv,
         ReleaseAfterReply, AcknowledgeCleanup, Abandon, AbandonUse, ReleaseUse, MarkDead,
         FailPending, SettleCommand, FailRemaining, Unbind, WorkerProcess, TakeCommand,
         ExecuteWork, CleanBackend, ReportDrainAndExit, Crash, FenceWorker, DrainOwn,
         Cutover, AcquireDirect, CheckDirectRelease, ReleaseDirect, Disconnect
<1>5. /\ RequestedDrain \in RouterDrain /\ AcknowledgedDrain \in RouterDrain
      /\ \A u : DrainWithout(u) \in RouterDrain
      /\ [drain EXCEPT !.admission_fenced = TRUE] \in RouterDrain
  <2>1. RequestedDrain \in RouterDrain
    BY <1>0 DEF RequestedDrain, RouterDrain, Phases
  <2>2. AcknowledgedDrain \in RouterDrain
    BY <1>0 DEF AcknowledgedDrain, RouterDrain, Phases
  <2>3. \A u : DrainWithout(u) \in RouterDrain
    BY <1>0 DEF DrainWithout, RouterDrain, Phases
  <2>4. [drain EXCEPT !.admission_fenced = TRUE] \in RouterDrain
    BY <1>0 DEF RouterDrain
  <2> QED BY <2>1, <2>2, <2>3, <2>4
<1>6. open' \subseteq Execute \cup Direct
  BY <1>0, <1>1
<1>7. drain' \in RouterDrain
  BY <1>0, <1>2, <1>5
<1>8. direct' \in [Direct -> {"none", "held", "releasing", "gone"}]
  BY <1>0, <1>4
<1> QED BY <1>0, <1>3, <1>6, <1>7, <1>8

LEMMA TypeStep ==
  ASSUME TypeOK, HandIsFull, [Next]_vars
  PROVE  TypeOK'
<1>1. /\ route' \in [Command -> Routes]
      /\ promise' \in [Command -> {"unset", "ok", "error"}]
      /\ router' \in RouterState
      /\ queue' \in Seq(Command) /\ Len(queue') <= MaxQueue
      /\ disp' \in DispState /\ worker' \in WorkerState
      /\ toWorker' \in Seq(Command) /\ fromWorker' \in Seq(Command)
      /\ open' \subseteq Execute \cup Direct
      /\ drain' \in RouterDrain /\ fenced' \in BOOLEAN
      /\ direct' \in [Direct -> {"none", "held", "releasing", "gone"}]
  BY DispStep, ControllerStep, QueueStep, WorkerStep, RuntimeStep
<1> QED BY <1>1 DEF TypeOK, Routes, Steps, Phases, RouterState, DispState, WorkerState,
                    RouterDrain

-----------------------------------------------------------------------------
(* The dispatcher's hand *)

LEMMA GotoFacts ==
  ASSUME disp \in DispState, NEW pc, Goto(pc)
  PROVE  disp'.pc = pc /\ disp'.cmd = cmd /\ disp'.result = disp.result
BY DEF Goto, DispState, cmd

LEMMA RejectFacts ==
  ASSUME disp \in DispState, Reject
  PROVE  disp'.pc = "idle" /\ disp'.cmd = NoCommand
BY DEF Reject, DispState

\* Only the dispatcher moves the dispatcher.
LEMMA DispatcherAlone ==
  ASSUME [Next]_vars
  PROVE  disp' = disp \/ Dispatcher
BY DEF Next, vars, Controller, FindRouter, CheckFence, RequestDrain, Enqueue,
       ReplyToController, TimeOut, WorkerProcess, TakeCommand, ExecuteWork, CleanBackend,
       ReportDrainAndExit, Crash, FenceWorker, DrainOwn, Cutover, AcquireDirect,
       CheckDirectRelease, ReleaseDirect, Disconnect

\* Where the dispatcher goes from each of its steps, and with which command.
LEMMA DispatcherMoves ==
  ASSUME TypeOK, Dispatcher
  PROVE  \/ StartDispatcher /\ disp.pc = "setup" /\ disp'.pc = "idle" /\ disp'.cmd = cmd
         \/ EndInSetup /\ disp.pc = "setup" /\ disp'.pc = "unbind" /\ disp'.cmd = cmd
         \/ Dequeue /\ disp.pc = "idle" /\ disp'.pc = "check" /\ disp'.cmd = Head(queue)
         \/ /\ CheckCycle \/ CheckGate \/ AcquireUse
            /\ disp.pc \in {"check", "gate", "acquire"} /\ Reject
            /\ disp'.pc = "idle" /\ disp'.cmd = NoCommand
         \/ /\ CheckCycle /\ disp.pc = "check" /\ disp'.cmd = cmd
            /\ disp'.pc = IF cmd \in Execute THEN "gate" ELSE "send"
         \/ CheckGate /\ disp.pc = "gate" /\ disp'.pc = "acquire" /\ disp'.cmd = cmd
         \/ /\ AcquireUse /\ disp.pc = "acquire" /\ disp'.pc = "send" /\ disp'.cmd = cmd
            /\ MayAdmit /\ open' = open \cup {cmd}
         \/ /\ Send /\ disp.pc = "send" /\ disp'.cmd = cmd
            /\ disp'.pc = "recv" \/ (~worker.up /\ disp'.pc = "abandon")
         \/ /\ Recv /\ disp.pc = "recv" /\ disp'.cmd = cmd
            /\ \/ fromWorker # <<>> /\ disp'.pc = StepAfterReply /\ disp'.result = "ok"
               \/ ~worker.up /\ disp'.pc = "abandon"
         \/ ReleaseAfterReply /\ disp.pc = "release" /\ disp'.pc = "settle" /\ disp'.cmd = cmd
              /\ disp'.result = disp.result
         \/ AcknowledgeCleanup /\ disp.pc = "ack" /\ disp'.pc = "settle" /\ disp'.cmd = cmd
              /\ disp'.result = disp.result
         \/ Abandon /\ disp.pc = "abandon" /\ disp'.pc = "fail" /\ disp'.cmd = cmd
              /\ disp'.result = "error"
         \/ MarkDead /\ disp.pc = "fail" /\ disp'.pc = "swap" /\ disp'.cmd = cmd
              /\ disp'.result = disp.result
         \/ FailPending /\ disp.pc = "swap" /\ disp'.pc = "settle" /\ disp'.cmd = cmd
              /\ disp'.result = disp.result
         \/ /\ SettleCommand /\ disp.pc = "settle" /\ disp'.cmd = NoCommand
            /\ disp'.pc = IF router.alive THEN "idle" ELSE "last"
         \/ FailRemaining /\ disp.pc = "last" /\ disp'.pc = "unbind" /\ disp'.cmd = cmd
         \/ Unbind /\ disp.pc = "unbind" /\ disp'.pc = "ended" /\ disp'.cmd = cmd
<1>0. disp \in DispState
  BY TypeParts
<1>1. CASE StartDispatcher \/ EndInSetup
  BY <1>0, <1>1, GotoFacts DEF StartDispatcher, EndInSetup
<1>2. CASE Dequeue
  BY <1>0, <1>2 DEF Dequeue, DispState
<1>3. CASE CheckCycle
  BY <1>0, <1>3, GotoFacts, RejectFacts DEF CheckCycle
<1>4. CASE CheckGate
  BY <1>0, <1>4, GotoFacts, RejectFacts DEF CheckGate
<1>5. CASE AcquireUse
  BY <1>0, <1>5, GotoFacts, RejectFacts DEF AcquireUse
<1>6. CASE Send
  BY <1>0, <1>6, GotoFacts DEF Send
<1>7. CASE Recv
  <2>1. CASE fromWorker # <<>> /\ disp' = [disp EXCEPT !.pc = StepAfterReply, !.result = "ok"]
    BY <1>0, <1>7, <2>1 DEF Recv, DispState, cmd
  <2>2. CASE ~worker.up /\ Goto("abandon")
    BY <1>0, <1>7, <2>2, GotoFacts DEF Recv
  <2> QED BY <1>7, <2>1, <2>2 DEF Recv
<1>8. CASE ReleaseAfterReply \/ AcknowledgeCleanup
  BY <1>0, <1>8, GotoFacts DEF ReleaseAfterReply, AcknowledgeCleanup
<1>9. CASE Abandon
  BY <1>0, <1>9 DEF Abandon, DispState, cmd
<1>10. CASE MarkDead \/ FailPending \/ FailRemaining \/ Unbind
  BY <1>0, <1>10, GotoFacts DEF MarkDead, FailPending, FailRemaining, Unbind
<1>11. CASE SettleCommand
  BY <1>0, <1>11 DEF SettleCommand, DispState
<1> QED BY <1>1, <1>2, <1>3, <1>4, <1>5, <1>6, <1>7, <1>8, <1>9, <1>10, <1>11 DEF Dispatcher

LEMMA HandStep ==
  ASSUME TypeOK, HandIsFull, [Next]_vars
  PROVE  HandIsFull'
<1>1. CASE disp' = disp
  BY <1>1 DEF HandIsFull, cmd
<1>2. CASE Dispatcher
  <2>1. Dequeue => Head(queue) \in Command
    BY TypeParts, ElementsTail DEF Dequeue
  <2>2. disp'.pc \in {"idle", "last", "unbind", "ended"} => HandIsFull'
    BY DEF HandIsFull, InHand
  <2>3. ASSUME disp'.cmd = cmd, disp.pc \in InHand, disp'.pc \notin {"gate", "acquire"}
        PROVE  HandIsFull'
    BY <2>3 DEF HandIsFull, cmd
  <2>4. ASSUME disp'.cmd = cmd, cmd \in Execute
        PROVE  HandIsFull'
    BY <2>4 DEF HandIsFull, cmd, Command
  <2>5. ASSUME Dequeue, disp'.cmd = Head(queue), disp'.pc = "check"
        PROVE  HandIsFull'
    BY <2>1, <2>5 DEF HandIsFull, cmd
  <2>6. disp.pc = "gate" => cmd \in Execute
    BY DEF HandIsFull
  <2> QED BY <1>2, <2>2, <2>3, <2>4, <2>5, <2>6, DispatcherMoves DEF InHand, StepAfterReply
<1> QED BY <1>1, <1>2, DispatcherAlone

-----------------------------------------------------------------------------
(* One command in flight *)

\* What each step of the worker process does to it and to the connection; the
\* threads of the coordinator do not move meanwhile.
LEMMA WorkerMoves ==
  ASSUME TypeOK, WorkerProcess \/ Crash
  PROVE  /\ worker.up
         /\ UNCHANGED <<route, promise, router, queue, disp, open, drain, fenced, direct>>
         /\ \/ /\ worker.job = NoCommand /\ toWorker # <<>>
               /\ worker'.job = Head(toWorker) /\ worker'.up = worker.up
               /\ worker'.cleaned = worker.cleaned /\ worker'.done = worker.done
               /\ toWorker' = Tail(toWorker) /\ fromWorker' = fromWorker
            \/ /\ worker.job \in Execute /\ worker'.job = NoCommand
               /\ worker'.up = worker.up /\ worker'.cleaned = worker.cleaned
               /\ worker'.done = worker.done \cup {worker.job}
               /\ toWorker' = toWorker /\ fromWorker' = Append(fromWorker, worker.job)
            \/ /\ worker.job \in Drain /\ worker'.job = worker.job
               /\ worker'.up = worker.up /\ worker'.cleaned
               /\ worker'.done = worker.done \cup {worker.job}
               /\ toWorker' = toWorker /\ fromWorker' = fromWorker
            \/ /\ worker.job \in Drain /\ worker'.job = NoCommand /\ ~worker'.up
               /\ worker.cleaned /\ worker'.cleaned = worker.cleaned
               /\ worker'.done = worker.done
               /\ toWorker' = toWorker /\ fromWorker' = Append(fromWorker, worker.job)
            \/ /\ worker'.job = NoCommand /\ ~worker'.up
               /\ worker'.cleaned = worker.cleaned /\ worker'.done = worker.done
               /\ toWorker' = toWorker /\ fromWorker' = fromWorker
<1>0. worker \in WorkerState
  BY TypeParts
<1>1. CASE TakeCommand
  BY <1>0, <1>1 DEF TakeCommand, WorkerState, controllerVars, runtimeVars
<1>2. CASE ExecuteWork
  BY <1>0, <1>2 DEF ExecuteWork, WorkerState, controllerVars, runtimeVars
<1>3. CASE CleanBackend
  BY <1>0, <1>3 DEF CleanBackend, WorkerState, controllerVars, runtimeVars, connectionVars
<1>4. CASE ReportDrainAndExit
  BY <1>0, <1>4 DEF ReportDrainAndExit, ReadyToReportDrain, WorkerState, controllerVars,
                    runtimeVars
<1>5. CASE Crash
  BY <1>0, <1>5 DEF Crash, WorkerState, controllerVars, runtimeVars, connectionVars
<1> QED BY <1>1, <1>2, <1>3, <1>4, <1>5 DEF WorkerProcess

\* The dispatcher never changes the worker, and the connection only by a send
\* or a receive.
LEMMA DispatcherConnection ==
  ASSUME Dispatcher
  PROVE  /\ worker' = worker
         /\ Send \/ Recv \/ UNCHANGED <<toWorker, fromWorker>>
         /\ StartDispatcher \/ MarkDead \/ Unbind \/ UNCHANGED router
BY DEF Dispatcher, connectionVars, StartDispatcher, EndInSetup, Dequeue, CheckCycle,
       CheckGate, AcquireUse, Send, Recv, ReleaseAfterReply, AcknowledgeCleanup, Abandon,
       MarkDead, FailPending, SettleCommand, FailRemaining, Unbind

\* A step is one of the dispatcher, of the worker process, or of somebody who
\* does not touch either.
LEMMA Actors ==
  ASSUME [Next]_vars
  PROVE  \/ Dispatcher
         \/ WorkerProcess \/ Crash
         \/ UNCHANGED <<router, disp, worker, toWorker, fromWorker>>
BY DEF Next, vars, connectionVars, Controller, FindRouter, CheckFence, RequestDrain, Enqueue,
       ReplyToController, TimeOut, FenceWorker, DrainOwn, Cutover, AcquireDirect,
       CheckDirectRelease, ReleaseDirect, Disconnect

\* The flags of the router change in three steps of the dispatcher.
LEMMA RouterMoves ==
  ASSUME TypeOK, Dispatcher
  PROVE  /\ router'.alive = IF MarkDead THEN FALSE ELSE router.alive
         /\ router'.ready = IF StartDispatcher THEN TRUE ELSE router.ready
<1>0. router \in RouterState
  BY TypeParts
<1>1. CASE StartDispatcher
  BY <1>0, <1>1 DEF StartDispatcher, MarkDead, RouterState
<1>2. CASE MarkDead
  BY <1>0, <1>2 DEF StartDispatcher, MarkDead, RouterState
<1>3. CASE Unbind
  BY <1>0, <1>3 DEF StartDispatcher, MarkDead, Unbind, RouterState
<1> QED BY <1>1, <1>2, <1>3, DispatcherConnection

LEMMA FlightStep ==
  ASSUME TypeOK, HandIsFull, OneInFlight, CleaningWorker, [Next]_vars
  PROVE  OneInFlight'
<1>0. /\ disp \in DispState /\ worker \in WorkerState /\ router \in RouterState
      /\ toWorker \in Seq(Command) /\ fromWorker \in Seq(Command)
  BY TypeParts
<1>1. CASE UNCHANGED <<router, disp, worker, toWorker, fromWorker>>
  BY <1>1 DEF OneInFlight, GivenUp, Quiet, cmd
<1>2. CASE WorkerProcess \/ Crash
  <2>1. worker.up /\ UNCHANGED <<router, disp>>
    BY <1>2, WorkerMoves
  <2>2. ~GivenUp /\ ~GivenUp'
    BY <2>1 DEF OneInFlight, GivenUp
  <2>3. NoCommand \notin Execute /\ NoCommand \notin Drain /\ Execute \cap Drain = {}
    BY CommandAssumption
  <2>4. CASE disp.pc # "recv"
    <3>1. Quiet
      BY <2>2, <2>4 DEF OneInFlight
    <3>2. Quiet'
      BY <1>2, <2>3, <3>1, WorkerMoves DEF Quiet
    <3> QED BY <2>1, <2>2, <2>4, <3>2 DEF OneInFlight, GivenUp
  <2>5. CASE disp.pc = "recv"
    <3> DEFINE Sent(c)   == toWorker = <<c>> /\ worker.job = NoCommand /\ fromWorker = <<>>
               Served(c) == toWorker = <<>> /\ worker.job = c /\ fromWorker = <<>>
               Replied(c) == /\ toWorker = <<>> /\ worker.job = NoCommand
                             /\ fromWorker = <<c>> /\ c \in worker.done
                             /\ c \in Drain => worker.cleaned
               Lost == toWorker = <<>> /\ worker.job = NoCommand /\ fromWorker = <<>>
                         /\ ~worker.up
    <3>1. PICK c \in Command : c = cmd
      BY <2>5 DEF HandIsFull, InHand
    <3>2. Sent(c) \/ Served(c) \/ Replied(c)
      BY <2>1, <2>5, <3>1 DEF OneInFlight
    <3>3. ASSUME Sent(c) PROVE Sent(c)' \/ Served(c)'
      <4>1. toWorker = <<c>> /\ Head(<<c>>) = c /\ Tail(<<c>>) = <<>>
        BY <3>3
      <4> QED BY <1>2, <2>3, <3>3, <4>1, WorkerMoves
    <3>4. ASSUME Served(c) PROVE Served(c)' \/ Replied(c)' \/ Lost'
      <4>1. Append(<<>>, c) = <<c>>
        OBVIOUS
      <4>2. c # NoCommand
        BY <2>3 DEF Command
      <4>3. worker.cleaned => c \in worker.done
        BY <2>1, <3>4 DEF CleaningWorker
      <4> QED BY <1>2, <2>3, <3>4, <4>1, <4>2, <4>3, WorkerMoves
    <3>5. ASSUME Replied(c) PROVE Replied(c)'
      BY <1>2, <2>3, <3>5, WorkerMoves
    <3>6. Sent(c)' \/ Served(c)' \/ Replied(c)' \/ Lost'
      BY <3>2, <3>3, <3>4, <3>5
    <3>7. cmd' = c
      BY <2>1, <3>1 DEF cmd
    <3> HIDE DEF Sent, Served, Replied, Lost
    <3>8. disp'.pc = "recv" /\ ~GivenUp' /\ (~router.alive => GivenUp)
      BY <2>1, <2>2, <2>5 DEF OneInFlight
    <3> USE DEF Sent, Served, Replied, Lost
    <3> QED BY <2>1, <2>2, <3>6, <3>7, <3>8 DEF OneInFlight
  <2> QED BY <2>4, <2>5
<1>3. CASE Dispatcher
  <2>1. worker' = worker
    BY <1>3, DispatcherConnection
  <2>2. CASE Send
    <3>1. /\ disp.pc = "send" /\ cmd' = cmd /\ Quiet /\ router'= router /\ router.alive
          /\ \/ disp'.pc = "recv" /\ toWorker' = <<cmd>> /\ fromWorker' = <<>>
             \/ disp'.pc = "abandon" /\ ~worker.up
      <4>1. disp.pc = "send" /\ Quiet /\ router' = router /\ router.alive
        BY <2>2 DEF Send, OneInFlight, GivenUp
      <4>2. Append(<<>>, cmd) = <<cmd>>
        OBVIOUS
      <4>3. ASSUME Goto("recv") PROVE disp'.pc = "recv" /\ cmd' = cmd
        BY <1>0, <4>3, GotoFacts DEF cmd
      <4>4. ASSUME Goto("abandon") PROVE disp'.pc = "abandon" /\ cmd' = cmd
        BY <1>0, <4>4, GotoFacts DEF cmd
      <4> QED BY <2>2, <4>1, <4>2, <4>3, <4>4 DEF Send, Quiet
    <3> QED BY <2>1, <3>1 DEF OneInFlight, GivenUp, Quiet
  <2>3. CASE Recv
    <3>1. disp.pc = "recv" /\ router' = router /\ toWorker' = toWorker /\ router.alive
      BY <2>3 DEF Recv, OneInFlight, GivenUp
    <3>2. \/ ~worker.up /\ disp'.pc = "abandon"
          \/ /\ fromWorker # <<>> /\ fromWorker' = Tail(fromWorker)
             /\ disp'.pc \in {"release", "ack"}
      <4>1. ASSUME Goto("abandon") PROVE disp'.pc = "abandon"
        BY <1>0, <4>1, GotoFacts
      <4>2. ASSUME disp' = [disp EXCEPT !.pc = StepAfterReply, !.result = "ok"]
            PROVE  disp'.pc \in {"release", "ack"}
        BY <1>0, <4>2 DEF DispState, StepAfterReply
      <4> QED BY <2>3, <4>1, <4>2 DEF Recv
    <3>3. CASE fromWorker # <<>> /\ fromWorker' = Tail(fromWorker) /\ disp'.pc \in {"release", "ack"}
      <4>1. toWorker = <<>> /\ worker.job = NoCommand /\ fromWorker = <<cmd>>
        BY <3>1, <3>3 DEF OneInFlight
      <4>2. Tail(<<cmd>>) = <<>>
        OBVIOUS
      <4>3. Quiet'
        BY <2>1, <3>1, <3>3, <4>1, <4>2 DEF Quiet
      <4> QED BY <3>1, <3>3, <4>3 DEF OneInFlight, GivenUp
    <3>4. CASE ~worker.up /\ disp'.pc = "abandon"
      BY <2>1, <3>1, <3>4 DEF OneInFlight, GivenUp
    <3> QED BY <3>2, <3>3, <3>4
  <2>4. CASE ~Send /\ ~Recv
    <3>1. Quiet' <=> Quiet
      BY <1>3, <2>1, <2>4, DispatcherConnection DEF Quiet
    <3>2. router'.alive = IF MarkDead THEN FALSE ELSE router.alive
      BY <1>3, RouterMoves
    <3>3. MarkDead <=> disp.pc = "fail" /\ MarkDead
      BY DEF MarkDead
    <3>4. EndInSetup => ~worker.up
      BY DEF EndInSetup
    <3> QED BY <1>3, <2>1, <2>4, <3>1, <3>2, <3>3, <3>4, DispatcherMoves
            DEF OneInFlight, GivenUp
  <2> QED BY <2>2, <2>3, <2>4
<1> QED BY <1>1, <1>2, <1>3, Actors

LEMMA CleaningStep ==
  ASSUME TypeOK, CleaningWorker, [Next]_vars
  PROVE  CleaningWorker'
<1>1. NoCommand \notin Drain /\ Execute \cap Drain = {}
  BY CommandAssumption
<1>2. CASE WorkerProcess \/ Crash
  BY <1>1, <1>2, WorkerMoves DEF CleaningWorker
<1>3. CASE worker' = worker
  BY <1>3 DEF CleaningWorker
<1> QED BY <1>2, <1>3, Actors, DispatcherConnection

\* What a worker has done stays done, and what it cleaned up stays gone.
LEMMA WorkGrows ==
  ASSUME TypeOK, [Next]_vars
  PROVE  /\ worker.done \subseteq worker'.done
         /\ worker.cleaned => worker'.cleaned
<1>1. CASE WorkerProcess \/ Crash
  BY <1>1, WorkerMoves
<1>2. CASE worker' = worker
  BY <1>2
<1> QED BY <1>1, <1>2, Actors, DispatcherConnection

\* The command at a worker that is up is the one the dispatcher waits for.
LEMMA JobIsInHand ==
  ASSUME OneInFlight, worker.up, worker.job # NoCommand
  PROVE  disp.pc = "recv" /\ worker.job = cmd
BY DEF OneInFlight, Quiet

-----------------------------------------------------------------------------
(* Promises *)

\* Who sets a promise, and to what.
LEMMA PromiseMoves ==
  ASSUME [Next]_vars
  PROVE  \/ promise' = promise
         \/ \E c \in Command : /\ At(c, "enqueue") /\ ~Accepts /\ Enqueue(c)
                               /\ promise' = [promise EXCEPT ![c] = "error"]
         \/ Dispatcher /\ Reject /\ promise' = Settled({cmd}, "error")
         \/ /\ FailPending \/ FailRemaining
            /\ promise' = Settled(Elements(queue), "error") /\ queue' = <<>>
         \/ SettleCommand /\ promise' = Settled({cmd}, disp.result)
<1>1. CASE Dispatcher
  BY <1>1 DEF Dispatcher, StartDispatcher, EndInSetup, Dequeue, CheckCycle, CheckGate,
         AcquireUse, Send, Recv, ReleaseAfterReply, AcknowledgeCleanup, Abandon, MarkDead,
         FailPending, SettleCommand, FailRemaining, Unbind, Reject, Elements
<1>2. CASE ~Dispatcher
  BY <1>2 DEF Next, vars, Controller, FindRouter, CheckFence, RequestDrain, Enqueue,
         ReplyToController, TimeOut, WorkerProcess, TakeCommand, ExecuteWork,
         CleanBackend, ReportDrainAndExit, Crash, FenceWorker, DrainOwn, Cutover,
         AcquireDirect, CheckDirectRelease, ReleaseDirect, Disconnect
<1> QED BY <1>1, <1>2

LEMMA ResultsStep ==
  ASSUME TypeOK, HandIsFull, OneInFlight, ResultsAreEarned, [Next]_vars
  PROVE  ResultsAreEarned'
<1>0. /\ promise \in [Command -> {"unset", "ok", "error"}] /\ disp \in DispState
  BY TypeParts
<1>1. OkMeansDone'
  <2> SUFFICES ASSUME NEW c \in Command, promise'[c] = "ok"
               PROVE  c \in worker'.done
    BY DEF OkMeansDone
  <2>1. promise[c] = "ok" => c \in worker'.done
    BY WorkGrows DEF ResultsAreEarned, OkMeansDone
  <2>2. ASSUME NEW S, promise' = Settled(S, "error") PROVE promise[c] = "ok"
    BY <1>0, <2>2 DEF Settled
  <2>3. ASSUME NEW d \in Command, promise' = [promise EXCEPT ![d] = "error"]
        PROVE  promise[c] = "ok"
    BY <1>0, <2>3
  <2>4. ASSUME SettleCommand, promise' = Settled({cmd}, disp.result)
        PROVE  promise[c] = "ok" \/ c \in worker.done
    <3>1. promise[c] = "ok" \/ (c = cmd /\ disp.result = "ok")
      BY <1>0, <2>4 DEF Settled
    <3> QED BY <2>4, <3>1 DEF SettleCommand, ResultsAreEarned
  <2> QED BY <2>1, <2>2, <2>3, <2>4, PromiseMoves, WorkGrows
<1>2. CASE disp' = disp
  <2> QED BY <1>1, <1>2, WorkGrows DEF ResultsAreEarned, cmd
<1>3. CASE Dispatcher
  <2>1. worker' = worker
    BY <1>3, DispatcherConnection
  <2>2. CASE Recv
    <3>1. /\ disp.pc = "recv" /\ disp'.cmd = cmd
          /\ \/ fromWorker # <<>> /\ disp'.pc = StepAfterReply
             \/ disp'.pc = "abandon"
      <4>1. disp.pc = "recv"
        BY <2>2 DEF Recv
      <4> QED BY <1>3, <4>1, DispatcherMoves
    <3>2. fromWorker # <<>> => cmd \in worker.done /\ (cmd \in Drain => worker.cleaned)
      BY <3>1 DEF OneInFlight
    <3>3. cmd \in Command
      BY <3>1 DEF HandIsFull, InHand
    <3> QED BY <1>1, <2>1, <3>1, <3>2, <3>3 DEF ResultsAreEarned, StepAfterReply, Command, cmd
  <2>3. CASE ~Recv
    BY <1>1, <1>3, <2>1, <2>3, DispatcherMoves DEF ResultsAreEarned, cmd
  <2> QED BY <2>2, <2>3
<1> QED BY <1>2, <1>3, DispatcherAlone

-----------------------------------------------------------------------------
(* Uses and cleanup *)

\* Who opens and who closes a use.
LEMMA OpenMoves ==
  ASSUME [Next]_vars
  PROVE  \/ /\ open' = open
            /\ ~ReleaseAfterReply /\ (Abandon => cmd \notin Execute)
         \/ AcquireUse /\ MayAdmit /\ open' = open \cup {cmd}
         \/ (ReleaseAfterReply \/ Abandon) /\ open' = open \ {cmd}
         \/ \E s \in Direct : /\ UNCHANGED <<disp, worker>>
                              /\ \/ MayAdmit /\ open' = open \cup {s}
                                 \/ open' = open \ {s}
<1>1. CASE Dispatcher
  <2>1. CASE ReleaseAfterReply
    BY <2>1 DEF ReleaseAfterReply, ReleaseUse
  <2>2. CASE Abandon
    BY <2>2 DEF Abandon, AbandonUse, ReleaseUse, ReleaseAfterReply
  <2>3. CASE AcquireUse
    BY <2>3 DEF AcquireUse, ReleaseAfterReply, Abandon
  <2>4. CASE ~ReleaseAfterReply /\ ~Abandon /\ ~AcquireUse
    BY <1>1, <2>4 DEF Dispatcher, runtimeVars, StartDispatcher, EndInSetup, Dequeue,
           CheckCycle, CheckGate, Send, Recv, AcknowledgeCleanup, MarkDead, FailPending,
           SettleCommand, FailRemaining, Unbind
  <2> QED BY <2>1, <2>2, <2>3, <2>4
<1>2. CASE ~Dispatcher
  BY <1>2 DEF Next, vars, runtimeVars, Controller, FindRouter, CheckFence, RequestDrain,
         Enqueue, ReplyToController, TimeOut, WorkerProcess, TakeCommand, ExecuteWork,
         CleanBackend, ReportDrainAndExit, Crash, FenceWorker, DrainOwn, Cutover,
         AcquireDirect, CheckDirectRelease, ReleaseDirect, ReleaseUse, Disconnect, Dispatcher
<1> QED BY <1>1, <1>2

LEMMA UsesStep ==
  ASSUME TypeOK, HandIsFull, OneInFlight, RoutedUsesAreClosed, [Next]_vars
  PROVE  RoutedUsesAreClosed'
<1> DEFINE Holding == {"send", "recv", "release", "abandon"}
<1>0. Direct \cap Execute = {}
  BY CommandAssumption
<1>1. CASE disp' = disp
  <2>1. disp'.pc = disp.pc /\ cmd' = cmd
    BY <1>1 DEF cmd
  <2>2. open' \cap Execute \subseteq open \cap Execute
    <3>1. ~AcquireUse \/ open' = open
      <4>1. ASSUME AcquireUse PROVE disp.pc = "acquire"
        BY <4>1 DEF AcquireUse
      <4>2. ASSUME AcquireUse PROVE disp'.pc # "acquire"
        <5>1. Dispatcher /\ disp.pc = "acquire"
          BY <4>1, <4>2 DEF Dispatcher
        <5> QED BY <5>1, DispatcherMoves
      <4> QED BY <1>1, <4>1, <4>2
    <3> QED BY <1>0, <3>1, OpenMoves
  <2> QED BY <2>1, <2>2 DEF RoutedUsesAreClosed
<1>2. CASE Dispatcher /\ disp' # disp
  <2>1. CASE AcquireUse /\ open' = open \cup {cmd} /\ disp'.pc = "send" /\ disp'.cmd = cmd
    <3>1. disp.pc = "acquire" /\ open \cap Execute = {}
      BY <2>1 DEF AcquireUse, RoutedUsesAreClosed
    <3> QED BY <2>1, <3>1 DEF RoutedUsesAreClosed, cmd
  <2>2. CASE (ReleaseAfterReply \/ Abandon) /\ open' = open \ {cmd}
    <3>1. disp.pc \in {"release", "abandon"} /\ open \cap Execute \subseteq {cmd}
      BY <2>2 DEF ReleaseAfterReply, Abandon, RoutedUsesAreClosed
    <3> QED BY <2>2, <3>1 DEF RoutedUsesAreClosed
  <2>3. CASE open' = open /\ ~ReleaseAfterReply /\ (Abandon => cmd \notin Execute)
    <3>1. CASE disp.pc \in Holding
      <4>1. open \cap Execute \subseteq {cmd}
        BY <3>1 DEF RoutedUsesAreClosed
      <4>2. (disp'.pc \in Holding /\ disp'.cmd = cmd) \/ cmd \notin Execute
        BY <1>2, <2>3, <3>1, DispatcherMoves DEF StepAfterReply
      <4> QED BY <2>3, <4>1, <4>2 DEF RoutedUsesAreClosed, cmd
    <3>2. CASE disp.pc \notin Holding
      BY <2>3, <3>2 DEF RoutedUsesAreClosed
    <3> QED BY <3>1, <3>2
  <2>4. AcquireUse /\ open' = open \cup {cmd} =>
          open' = open \/ (disp'.pc = "send" /\ disp'.cmd = cmd)
    <3>1. ASSUME AcquireUse PROVE \/ open' = open
                                  \/ disp'.pc = "send" /\ disp'.cmd = cmd
      <4>1. disp \in DispState
        BY TypeParts
      <4> QED BY <3>1, <4>1, GotoFacts DEF AcquireUse
    <3> QED BY <3>1
  <2>5. AcquireUse => ~ReleaseAfterReply /\ ~Abandon
    BY DEF AcquireUse, ReleaseAfterReply, Abandon
  <2> QED BY <1>2, <2>1, <2>2, <2>3, <2>4, <2>5, OpenMoves
<1> QED BY <1>1, <1>2, DispatcherAlone

LEMMA CleanupStep ==
  ASSUME TypeOK, OneInFlight, RoutedUsesAreClosed, CleanupAfterRoutedUses,
         DrainsAreRequested, [Next]_vars
  PROVE  CleanupAfterRoutedUses'
<1>0. Direct \cap Execute = {} /\ Execute \cap Drain = {} /\ NoCommand \notin Drain
  BY CommandAssumption
<1>1. CASE WorkerProcess \/ Crash
  <2>1. open' = open /\ worker.up
    BY <1>1, WorkerMoves
  <2>2. worker'.cleaned => worker.cleaned \/ worker.job \in Drain
    BY <1>1, WorkerMoves
  <2>3. worker.job \in Drain => open \cap Execute = {}
    BY <1>0, <2>1, JobIsInHand DEF RoutedUsesAreClosed
  <2> QED BY <2>1, <2>2, <2>3 DEF CleanupAfterRoutedUses
<1>2. CASE worker' = worker
  <2>1. worker.cleaned => ~MayAdmit
    BY DEF DrainsAreRequested, MayAdmit
  <2> QED BY <1>0, <1>2, <2>1, OpenMoves DEF CleanupAfterRoutedUses
<1> QED BY <1>1, <1>2, Actors, DispatcherConnection

-----------------------------------------------------------------------------
(* The drain *)

\* Who moves the drain, and what happens to the open uses meanwhile.
LEMMA DrainMoves ==
  ASSUME [Next]_vars
  PROVE  \/ drain' = drain /\ (open' = open \/ MayAdmit)
         \/ drain' = RequestedDrain /\ open' = open
         \/ AcknowledgeCleanup /\ drain' = AcknowledgedDrain /\ open' = open
         \/ \E u : ReleaseUse(u)
         \/ drain' = [drain EXCEPT !.admission_fenced = TRUE] /\ open' = open
<1>1. CASE Dispatcher
  BY <1>1 DEF Dispatcher, runtimeVars, StartDispatcher, EndInSetup, Dequeue, CheckCycle,
         CheckGate, AcquireUse, Send, Recv, ReleaseAfterReply, AcknowledgeCleanup, Abandon,
         AbandonUse, MarkDead, FailPending, SettleCommand, FailRemaining, Unbind
<1>2. CASE ~Dispatcher
  BY <1>2 DEF Next, vars, runtimeVars, Controller, FindRouter, CheckFence, RequestDrain,
         Enqueue, ReplyToController, TimeOut, WorkerProcess, TakeCommand, ExecuteWork,
         CleanBackend, ReportDrainAndExit, Crash, FenceWorker, DrainOwn, Cutover,
         AcquireDirect, CheckDirectRelease, ReleaseDirect, Disconnect
<1> QED BY <1>1, <1>2

\* An admission fence is never lifted.
LEMMA FenceStays ==
  ASSUME TypeOK, [Next]_vars, drain.admission_fenced
  PROVE  drain'.admission_fenced
<1>1. drain \in RouterDrain
  BY TypeParts
<1>2. /\ RequestedDrain.admission_fenced
      /\ AcknowledgedDrain.admission_fenced = drain.admission_fenced
      /\ \A u : DrainWithout(u).admission_fenced = drain.admission_fenced
      /\ [drain EXCEPT !.admission_fenced = TRUE].admission_fenced
  BY <1>1 DEF RequestedDrain, AcknowledgedDrain, DrainWithout, RouterDrain
<1> QED BY <1>2, DrainMoves DEF ReleaseUse

\* How commands move between their threads and the queue.
LEMMA RouteMoves ==
  ASSUME TypeOK, [Next]_vars
  PROVE  \/ /\ route' = route
            /\ \/ queue' = queue /\ ~Dequeue
               \/ queue' = <<>> /\ (FailPending \/ FailRemaining)
               \/ Dequeue /\ queue # <<>> /\ queue' = Tail(queue)
         \/ \E c \in Command, r \in Routes :
              /\ ~Dispatcher /\ disp' = disp /\ router' = router
              /\ route' = [route EXCEPT ![c] = r]
              /\ \/ /\ queue' = queue /\ promise' = promise /\ r # "waiting"
                    /\ r = "enqueue" /\ c \in Drain =>
                         drain' = RequestedDrain
                 \/ /\ At(c, "enqueue") /\ r = "waiting" /\ ~Accepts /\ queue' = queue
                    /\ promise' = [promise EXCEPT ![c] = "error"]
                 \/ /\ At(c, "enqueue") /\ r = "waiting" /\ Accepts /\ promise' = promise
                    /\ queue' = Append(queue, c)
<1>1. CASE Dispatcher
  <2>1. route' = route
    BY <1>1 DEF Dispatcher, controllerVars, StartDispatcher, EndInSetup, Dequeue,
           CheckCycle, CheckGate, AcquireUse, Send, Recv, ReleaseAfterReply,
           AcknowledgeCleanup, Abandon, MarkDead, FailPending, SettleCommand,
           FailRemaining, Unbind
  <2>2. CASE disp.pc = "idle"
    <3>1. Dequeue
      BY <1>1, <2>2 DEF Dispatcher, StartDispatcher, EndInSetup, Dequeue,
           CheckCycle, CheckGate, AcquireUse, Send, Recv, ReleaseAfterReply,
           AcknowledgeCleanup, Abandon, MarkDead, FailPending, SettleCommand,
           FailRemaining, Unbind
    <3> QED BY <2>1, <3>1 DEF Dequeue
  <2>3. CASE disp.pc # "idle"
    <3>1. ~Dequeue
      BY <2>3 DEF Dequeue
    <3>2. queue' = queue \/ (queue' = <<>> /\ (FailPending \/ FailRemaining))
      BY <1>1, <3>1 DEF Dispatcher, StartDispatcher, EndInSetup,
           CheckCycle, CheckGate, AcquireUse, Send, Recv, ReleaseAfterReply,
           AcknowledgeCleanup, Abandon, MarkDead, FailPending, SettleCommand,
           FailRemaining, Unbind
    <3> QED BY <2>1, <3>1, <3>2
  <2> QED BY <2>2, <2>3
<1>2. CASE ~Dispatcher
  <2>1. ~Dequeue
    BY <1>2 DEF Dispatcher
  <2>2. \/ UNCHANGED <<route, queue>>
        \/ \E c \in Command : Controller(c) \/ TimeOut(c)
    BY <1>2 DEF Next, vars, controllerVars, WorkerProcess, TakeCommand, ExecuteWork,
           CleanBackend, ReportDrainAndExit, Crash, FenceWorker, DrainOwn, Cutover,
           AcquireDirect, CheckDirectRelease, ReleaseDirect, Disconnect
  <2>3. ASSUME NEW c \in Command, FindRouter(c) \/ CheckFence(c) \/ RequestDrain(c)
        PROVE  \E r \in Routes : /\ disp' = disp /\ router' = router
                                 /\ route' = [route EXCEPT ![c] = r]
                                 /\ queue' = queue /\ promise' = promise /\ r # "waiting"
                                 /\ r = "enqueue" /\ c \in Drain => drain' = RequestedDrain
    BY <2>3 DEF FindRouter, CheckFence, RequestDrain, Routes
  <2>4. ASSUME NEW c \in Command, ReplyToController(c) \/ TimeOut(c)
        PROVE  \E r \in Routes : /\ disp' = disp /\ router' = router
                                 /\ route' = [route EXCEPT ![c] = r]
                                 /\ queue' = queue /\ promise' = promise
                                 /\ r # "waiting" /\ r # "enqueue"
    <3>1. promise[c] \in {"unset", "ok", "error"}
      BY TypeParts
    <3> QED BY <2>4, <3>1 DEF ReplyToController, TimeOut, Routes
  <2>5. ASSUME NEW c \in Command, Enqueue(c)
        PROVE  /\ disp' = disp /\ router' = router /\ At(c, "enqueue")
               /\ route' = [route EXCEPT ![c] = "waiting"]
               /\ \/ ~Accepts /\ queue' = queue /\ promise' = [promise EXCEPT ![c] = "error"]
                  \/ Accepts /\ promise' = promise /\ queue' = Append(queue, c)
    BY <2>5 DEF Enqueue
  <2>6. "waiting" \in Routes
    BY DEF Routes
  <2>7. ASSUME NEW c \in Command, Controller(c) \/ TimeOut(c)
        PROVE  \E r \in Routes :
              /\ disp' = disp /\ router' = router
              /\ route' = [route EXCEPT ![c] = r]
              /\ \/ /\ queue' = queue /\ promise' = promise /\ r # "waiting"
                    /\ r = "enqueue" /\ c \in Drain =>
                         drain' = RequestedDrain
                 \/ /\ At(c, "enqueue") /\ r = "waiting" /\ ~Accepts /\ queue' = queue
                    /\ promise' = [promise EXCEPT ![c] = "error"]
                 \/ /\ At(c, "enqueue") /\ r = "waiting" /\ Accepts /\ promise' = promise
                    /\ queue' = Append(queue, c)
    <3>1. CASE Enqueue(c)
      BY <2>5, <2>6, <3>1
    <3>2. CASE ReplyToController(c) \/ TimeOut(c)
      BY <2>4, <3>2
    <3>3. CASE FindRouter(c) \/ CheckFence(c) \/ RequestDrain(c)
      BY <2>3, <3>3
    <3> QED BY <2>7, <3>1, <3>2, <3>3 DEF Controller
  <2> QED BY <1>2, <2>1, <2>2, <2>7
<1> QED BY <1>1, <1>2

LEMMA RequestsStep ==
  ASSUME TypeOK, OneInFlight, DrainsAreRequested, [Next]_vars
  PROVE  DrainsAreRequested'
<1>0. /\ queue \in Seq(Command) /\ route \in [Command -> Routes] /\ drain \in RouterDrain
      /\ Drain \subseteq Command
  BY TypeParts DEF Command
<1>1. RequestedDrain.admission_fenced
  BY <1>0 DEF RequestedDrain, RouterDrain
<1>2. CASE drain.admission_fenced
  BY <1>2, FenceStays DEF DrainsAreRequested
<1>3. CASE ~drain.admission_fenced
  <2>0. /\ \A c \in Drain : ~At(c, "enqueue") /\ c \notin Elements(queue)
        /\ disp.pc \in InHand => cmd \notin Drain
        /\ ~worker.cleaned
    BY <1>3 DEF DrainsAreRequested
  <2>1. CASE drain'.admission_fenced
    BY <2>1 DEF DrainsAreRequested
  <2>2. CASE ~drain'.admission_fenced
    <3>0. drain' # RequestedDrain
      BY <1>1, <2>2
    <3>1. \A c \in Drain : ~(route'[c] = "enqueue")
      <4> SUFFICES ASSUME NEW c \in Drain PROVE route'[c] # "enqueue"
        OBVIOUS
      <4>1. route[c] # "enqueue"
        BY <2>0 DEF At
      <4>2. ASSUME NEW d \in Command, NEW r \in Routes, route' = [route EXCEPT ![d] = r],
                   r = "enqueue" => d \notin Drain
            PROVE  route'[c] # "enqueue"
        BY <1>0, <4>1, <4>2
      <4> QED BY <3>0, <4>1, <4>2, RouteMoves
    <3>2. \A c \in Drain : c \notin Elements(queue')
      <4>1. ASSUME NEW d \in Command, At(d, "enqueue"), queue' = Append(queue, d)
            PROVE  \A c \in Drain : c \notin Elements(queue')
        BY <1>0, <2>0, <4>1, ElementsAppend
      <4>2. ASSUME queue # <<>>, queue' = Tail(queue)
            PROVE  \A c \in Drain : c \notin Elements(queue')
        BY <1>0, <2>0, <4>2, ElementsTail
      <4>3. ASSUME queue' = <<>> PROVE \A c \in Drain : c \notin Elements(queue')
        BY <4>3, ElementsEmpty
      <4> QED BY <2>0, <4>1, <4>2, <4>3, RouteMoves
    <3>3. disp'.pc \in InHand => disp'.cmd \notin Drain
      <4>1. CASE disp' = disp
        BY <2>0, <4>1 DEF cmd
      <4>2. CASE Dispatcher
        <5>1. Dequeue => Head(queue) \notin Drain
          BY <1>0, <2>0, ElementsTail DEF Dequeue
        <5> QED BY <2>0, <4>2, <5>1, DispatcherMoves DEF InHand
      <4> QED BY <4>1, <4>2, DispatcherAlone
    <3>4. ~worker'.cleaned
      <4>1. CASE WorkerProcess \/ Crash
        <5>1. worker.up /\ (worker'.cleaned => worker.cleaned \/ worker.job \in Drain)
          BY <4>1, WorkerMoves
        <5>2. worker.job \in Drain => disp.pc \in InHand /\ cmd \in Drain
          BY <5>1, JobIsInHand, CommandAssumption DEF InHand
        <5> QED BY <2>0, <5>1, <5>2
      <4>2. CASE worker' = worker
        BY <2>0, <4>2
      <4> QED BY <4>1, <4>2, Actors, DispatcherConnection
    <3> QED BY <3>1, <3>2, <3>3, <3>4 DEF DrainsAreRequested, At, cmd
  <2> QED BY <2>1, <2>2
<1> QED BY <1>2, <1>3

LEMMA HonestStep ==
  ASSUME TypeOK, ResultsAreEarned, DrainIsHonest, [Next]_vars
  PROVE  DrainIsHonest'
<1>0. drain \in RouterDrain
  BY TypeParts
<1>1. worker.cleaned => worker'.cleaned
  BY WorkGrows
<1>2. CASE drain' = drain /\ (open' = open \/ MayAdmit)
  BY <1>1, <1>2 DEF DrainIsHonest, MayAdmit
<1>3. CASE drain' = RequestedDrain /\ open' = open
  <2>1. /\ drain'.phase # "DRAINED"
        /\ drain'.backend_cleanup_ack = drain.backend_cleanup_ack
    BY <1>0, <1>3 DEF RequestedDrain, RouterDrain
  <2> QED BY <1>1, <2>1 DEF DrainIsHonest
<1>4. CASE AcknowledgeCleanup /\ drain' = AcknowledgedDrain /\ open' = open
  <2>1. worker'.cleaned
    BY <1>1, <1>4 DEF AcknowledgeCleanup, ResultsAreEarned
  <2>2. /\ drain'.backend_cleanup_ack
        /\ drain'.admission_fenced = drain.admission_fenced
        /\ drain'.phase = "DRAINED" =>
             drain.phase = "DRAINED" \/ (drain.admission_fenced /\ open = {})
    BY <1>0, <1>4 DEF AcknowledgedDrain, RouterDrain
  <2> QED BY <1>4, <2>1, <2>2 DEF DrainIsHonest
<1>5. ASSUME NEW u, ReleaseUse(u) PROVE DrainIsHonest'
  <2>1. CASE drain.admission_fenced /\ open = {u}
    <3>1. /\ drain'.backend_cleanup_ack = drain.backend_cleanup_ack
          /\ drain'.admission_fenced
          /\ drain'.phase = "DRAINED" => drain.backend_cleanup_ack
      BY <1>0, <1>5, <2>1 DEF ReleaseUse, DrainWithout, RouterDrain
    <3>2. open' = {}
      BY <1>5, <2>1 DEF ReleaseUse
    <3> QED BY <1>1, <3>1, <3>2 DEF DrainIsHonest
  <2>2. CASE ~(drain.admission_fenced /\ open = {u})
    BY <1>1, <1>5, <2>2 DEF ReleaseUse, DrainWithout, DrainIsHonest
  <2> QED BY <2>1, <2>2
<1>6. CASE drain' = [drain EXCEPT !.admission_fenced = TRUE] /\ open' = open
  <2>1. /\ drain'.phase = drain.phase /\ drain'.admission_fenced
        /\ drain'.backend_cleanup_ack = drain.backend_cleanup_ack
    BY <1>0, <1>6 DEF RouterDrain
  <2> QED BY <1>1, <1>6, <2>1 DEF DrainIsHonest
<1> QED BY <1>2, <1>3, <1>4, <1>5, <1>6, DrainMoves

-----------------------------------------------------------------------------
(* No command is lost *)

LEMMA LossStep ==
  ASSUME TypeOK, HandIsFull, OneInFlight, NothingLost, [Next]_vars
  PROVE  NothingLost'
<1>0. /\ queue \in Seq(Command) /\ route \in [Command -> Routes] /\ disp \in DispState
      /\ promise \in [Command -> {"unset", "ok", "error"}]
  BY TypeParts
<1>1. ASSUME NEW c \in Command, route'[c] = "waiting", promise'[c] = "unset"
      PROVE  c \in Elements(queue') \/ (disp'.pc \in InHand /\ c = disp'.cmd)
  <2>1. CASE route' # route
    <3>1. PICK d \in Command, r \in Routes :
              /\ ~Dispatcher /\ disp' = disp
              /\ route' = [route EXCEPT ![d] = r]
              /\ \/ queue' = queue /\ promise' = promise /\ r # "waiting"
                 \/ queue' = queue /\ promise' = [promise EXCEPT ![d] = "error"]
                 \/ r = "waiting" /\ queue' = Append(queue, d) /\ promise' = promise
      BY <2>1, RouteMoves
    <3>2. CASE c = d
      <4>1. route'[c] = r /\ r = "waiting"
        BY <1>0, <1>1, <3>1, <3>2
      <4>2. queue' = Append(queue, d)
        BY <1>0, <1>1, <3>1, <3>2, <4>1
      <4> QED BY <1>0, <3>2, <4>2, ElementsAppend
    <3>3. CASE c # d
      <4>1. route[c] = "waiting" /\ promise[c] = "unset"
        BY <1>0, <1>1, <3>1, <3>3
      <4>2. c \in Elements(queue) \/ (disp.pc \in InHand /\ c = cmd)
        BY <4>1 DEF NothingLost, At
      <4>3. Elements(queue) \subseteq Elements(queue')
        BY <1>0, <3>1, ElementsAppend
      <4> QED BY <3>1, <4>2, <4>3 DEF cmd
    <3> QED BY <3>2, <3>3
  <2>2. CASE route' = route
    <3>1. route[c] = "waiting"
      BY <1>1, <2>2
    <3>2. promise[c] = "unset"
      BY <1>0, <1>1, PromiseMoves DEF Settled
    <3>3. c \in Elements(queue) \/ (disp.pc \in InHand /\ c = cmd)
      BY <3>1, <3>2 DEF NothingLost, At
    <3>4. CASE queue' = queue /\ ~Dequeue
      <4>1. CASE disp' = disp
        BY <3>3, <3>4, <4>1 DEF cmd
      <4>2. CASE Dispatcher
        <5>1. c = cmd => ~Reject /\ ~SettleCommand
          <6>1. c # cmd \/ promise' # Settled({cmd}, "error")
            BY <1>0, <1>1, <3>2 DEF Settled
          <6>2. c # cmd \/ promise' # Settled({cmd}, disp.result)
            BY <1>0, <1>1, <3>2 DEF Settled, DispState
          <6> QED BY <6>1, <6>2 DEF Reject, SettleCommand
        <5> QED BY <3>3, <3>4, <4>2, <5>1, DispatcherMoves DEF InHand, StepAfterReply
      <4> QED BY <4>1, <4>2, DispatcherAlone
    <3>5. CASE FailPending \/ FailRemaining
      <4>1. promise' = Settled(Elements(queue), "error")
        BY <3>5 DEF FailPending, FailRemaining, Elements
      <4>2. c \notin Elements(queue)
        BY <1>0, <1>1, <3>2, <4>1 DEF Settled
      <4>3. disp.pc = "swap" /\ disp'.pc = "settle" /\ disp'.cmd = cmd
        <5>1. disp.pc \in {"swap", "last"} /\ disp.pc # "last"
          BY <3>3, <3>5, <4>2 DEF FailPending, FailRemaining, InHand
        <5> QED BY <1>0, <3>5, <5>1, GotoFacts DEF FailPending, FailRemaining
      <4> QED BY <3>3, <4>2, <4>3 DEF InHand
    <3>6. CASE Dequeue /\ queue # <<>> /\ queue' = Tail(queue)
      <4>1. disp.pc = "idle" /\ disp'.pc = "check" /\ disp'.cmd = Head(queue)
        BY <1>0, <3>6 DEF Dequeue, DispState
      <4>2. c \in Elements(queue)
        BY <3>3, <4>1 DEF InHand
      <4> QED BY <1>0, <3>6, <4>1, <4>2, ElementsTail DEF InHand
    <3>7. ASSUME NEW d \in Command, At(d, "enqueue"), route' = [route EXCEPT ![d] = "waiting"]
          PROVE  FALSE
      BY <1>0, <2>2, <3>7 DEF At
    <3>8. ~Dispatcher => ~Dequeue
      BY DEF Dispatcher
    <3> QED BY <2>2, <3>4, <3>5, <3>6, <3>7, <3>8, RouteMoves
  <2> QED BY <2>1, <2>2
<1>2. /\ disp'.pc = "setup" => ~router'.ready
      /\ disp'.pc \in {"unbind", "ended"} => ~(router'.ready /\ router'.alive)
  <2>1. CASE Dispatcher
    <3>1. router'.alive => router.alive
      BY <2>1, RouterMoves
    <3>2. router'.ready => router.ready \/ StartDispatcher
      BY <2>1, RouterMoves
    <3>3. StartDispatcher => disp'.pc = "idle"
      BY <1>0, GotoFacts DEF StartDispatcher
    <3> QED BY <2>1, <3>1, <3>2, <3>3, DispatcherMoves
            DEF NothingLost, OneInFlight, StepAfterReply
  <2>2. CASE UNCHANGED <<router, disp>>
    BY <2>2 DEF NothingLost
  <2> QED BY <2>1, <2>2, Actors, WorkerMoves
<1>3. disp'.pc \in {"setup", "unbind", "ended"} => queue' = <<>>
  <2>1. CASE Dispatcher
    <3>1. CASE FailPending \/ FailRemaining
      BY <3>1 DEF FailPending, FailRemaining
    <3>2. CASE ~FailPending /\ ~FailRemaining
      <4>1. disp'.pc \in {"setup", "unbind", "ended"} =>
              disp.pc \in {"setup", "unbind", "ended"}
        BY <2>1, <3>2, DispatcherMoves DEF StepAfterReply
      <4>2. disp.pc \in {"setup", "unbind", "ended"} => ~Dequeue /\ queue = <<>>
        BY DEF Dequeue, NothingLost
      <4> QED BY <2>1, <3>2, <4>1, <4>2, RouteMoves
    <3> QED BY <3>1, <3>2
  <2>2. CASE ~Dispatcher
    <3>1. disp' = disp /\ ~FailPending /\ ~FailRemaining /\ ~Dequeue
      BY <2>2, DispatcherAlone DEF Dispatcher
    <3>2. disp.pc \in {"setup", "unbind", "ended"} => ~Accepts /\ queue = <<>>
      BY DEF NothingLost, Accepts
    <3> QED BY <3>1, <3>2, RouteMoves
  <2> QED BY <2>1, <2>2
<1> QED BY <1>1, <1>2, <1>3 DEF NothingLost, At, cmd

-----------------------------------------------------------------------------
(* The theorems *)

LEMMA RouterInit == Init => RouterInv
<1> SUFFICES ASSUME Init PROVE RouterInv
  OBVIOUS
<1>1. TypeOK
  <2>1. <<>> \in Seq(Command) /\ Len(<<>>) = 0 /\ 0 <= MaxQueue
    BY QueueAssumption
  <2> QED BY <2>1 DEF Init, TypeOK
<1>2. /\ disp.pc = "setup" /\ disp.cmd = NoCommand /\ worker.up /\ worker.job = NoCommand
      /\ ~worker.cleaned /\ toWorker = <<>> /\ fromWorker = <<>> /\ router.alive
      /\ ~router.ready /\ open = {} /\ drain.phase = "NONE" /\ ~drain.backend_cleanup_ack
      /\ queue = <<>>
      /\ \A c \in Command : route[c] = "start" /\ promise[c] = "unset"
  BY DEF Init
<1>3. HandIsFull /\ OneInFlight /\ CleaningWorker
  BY <1>2 DEF HandIsFull, InHand, OneInFlight, GivenUp, Quiet, CleaningWorker
<1>4. ResultsAreEarned /\ RoutedUsesAreClosed /\ CleanupAfterRoutedUses
  BY <1>2 DEF ResultsAreEarned, OkMeansDone, RoutedUsesAreClosed, CleanupAfterRoutedUses
<1>5. DrainsAreRequested
  <2>1. \A c \in Drain : ~At(c, "enqueue") /\ c \notin Elements(queue)
    BY <1>2, ElementsEmpty DEF At, Command
  <2> QED BY <1>2, <2>1 DEF DrainsAreRequested, InHand
<1>6. DrainIsHonest /\ NothingLost
  BY <1>2 DEF DrainIsHonest, NothingLost, At, InHand
<1> QED BY <1>1, <1>3, <1>4, <1>5, <1>6 DEF RouterInv

LEMMA RouterStep == RouterInv /\ [Next]_vars => RouterInv'
<1> SUFFICES ASSUME RouterInv, [Next]_vars PROVE RouterInv'
  OBVIOUS
<1>1. /\ TypeOK /\ HandIsFull
      /\ OneInFlight /\ CleaningWorker /\ ResultsAreEarned
      /\ RoutedUsesAreClosed /\ CleanupAfterRoutedUses
      /\ DrainsAreRequested /\ DrainIsHonest /\ NothingLost
  BY DEF RouterInv
<1>2. TypeOK' /\ HandIsFull'
  BY <1>1, TypeStep, HandStep
<1>3. OneInFlight' /\ CleaningWorker' /\ ResultsAreEarned'
  BY <1>1, FlightStep, CleaningStep, ResultsStep
<1>4. RoutedUsesAreClosed' /\ CleanupAfterRoutedUses'
  BY <1>1, UsesStep, CleanupStep
<1>5. DrainsAreRequested' /\ DrainIsHonest' /\ NothingLost'
  BY <1>1, RequestsStep, HonestStep, LossStep
<1> QED BY <1>2, <1>3, <1>4, <1>5 DEF RouterInv

LEMMA RouterInvariant == Spec => []RouterInv
BY RouterInit, RouterStep, PTL DEF Spec

\* Every variable of the routing protocol keeps its type, and the queue never
\* exceeds max_queue_ (WorkerRouter::enqueue).
THEOREM RouterTypeCorrect == Spec => []TypeOK
<1>1. RouterInv => TypeOK
  BY DEF RouterInv
<1> QED BY <1>1, RouterInvariant, PTL

\* The worker releases its backend only when no routed use is open, whatever
\* the number of commands, crashes and other sessions.
THEOREM CleanupCorrect == Spec => []CleanupAfterRoutedUses
<1>1. RouterInv => CleanupAfterRoutedUses
  BY DEF RouterInv
<1> QED BY <1>1, RouterInvariant, PTL

\* A controller is told "ok" only for the very command the worker carried out:
\* replies are not compared with commands, and need not be.
THEOREM CorrelationCorrect == Spec => []OkMeansDone
<1>1. RouterInv => OkMeansDone
  BY DEF RouterInv, ResultsAreEarned
<1> QED BY <1>1, RouterInvariant, PTL

\* A use admitted for a routed EXECUTE does not outlive it, on any path of the
\* dispatcher.
THEOREM RoutedUsesCorrect == Spec => []RoutedUsesAreClosed
<1>1. RouterInv => RoutedUsesAreClosed
  BY DEF RouterInv
<1> QED BY <1>1, RouterInvariant, PTL

\* DRAINED is reported only after the worker really released its backend.
THEOREM DrainedCleanCorrect == Spec => []DrainedMeansCleaned
<1>1. RouterInv => DrainedMeansCleaned
  BY DEF RouterInv, DrainIsHonest, DrainedMeansCleaned
<1> QED BY <1>1, RouterInvariant, PTL

\* DRAINED is reported only while no use is open and none can be admitted.
THEOREM DrainedIdleCorrect == Spec => []DrainedIsIdle
<1>1. RouterInv => DrainedIsIdle
  BY DEF RouterInv, DrainIsHonest, DrainedIsIdle, MayAdmit
<1> QED BY <1>1, RouterInvariant, PTL

\* A router that died holds no command without a reply: every one accepted
\* before alive_ was cleared is failed, every later one is refused.
THEOREM NothingStrandedCorrect == Spec => []NothingStranded
<1>1. RouterInv => NothingStranded
  <2> SUFFICES ASSUME RouterInv, disp.pc \in {"unbind", "ended"}
               PROVE  /\ queue = <<>>
                      /\ \A c \in Command : At(c, "waiting") => promise[c] # "unset"
    BY DEF NothingStranded
  <2>1. NothingLost /\ queue = <<>> /\ Elements(queue) = {}
    BY ElementsEmpty DEF RouterInv, NothingLost
  <2> QED BY <2>1 DEF NothingLost, InHand
<1> QED BY <1>1, RouterInvariant, PTL
=============================================================================
