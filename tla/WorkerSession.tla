--------------------------- MODULE WorkerSession ---------------------------
(***************************************************************************)
(* A worker process outside command mode (src/src/tools/worker_main.cpp)    *)
(* and the coordinator session at the other end of its socket               *)
(* (src/src/coordinator/session.cpp): the worker registers, publishes its   *)
(* evidence, prepares, warms up, asks for its readiness, activates itself   *)
(* and serves.  A session is a thread of its own, and locks the runtime for *)
(* one operation at a time: the check that the incarnation is not fenced,   *)
(* the operation, and each operation of a registration or a preparation are *)
(* separate steps, and the other sessions and controllers run between them. *)
(*                                                                          *)
(* The worker reads a reply after each request but EXECUTION_RESULT, which  *)
(* is answered too, and never compares a reply with its request.            *)
(***************************************************************************)
EXTENDS Preparation, Sequences

CONSTANTS Serve,     \* requests each worker serves: --serve
          Mortal     \* workers that may exit, be killed, fenced or replaced;
                     \* the others were started with --stay-alive

\* seed_reference_engine: the coordinator defines one engine, and one profile.
SeededRequirements ==
  {"BACKEND", "DEVICE_CONTEXT", "MODEL", "KV_CAPACITY", "KERNEL", "GRAPH", "WARMUP"}

ASSUME SeedAssumption ==
  /\ Cardinality(Engine) = 1
  /\ Required \subseteq SeededRequirements /\ "WARMUP" \in Category

\* Each worker process is the first boot of its worker.
ASSUME ServeAssumption == Serve \in Nat /\ Mortal \subseteq Worker /\ 1 \in Boot

VARIABLES
  worker,      \* worker -> its program: next step, and what it remembers
  session,     \* worker -> the thread that serves its socket
  requests,    \* worker -> frames sent and not yet answered, oldest first
  replies      \* worker -> frames sent back and not yet read

runtime == <<vars, prepVars>>
channels == <<requests, replies>>
allVars == <<runtime, worker, session, channels>>

-----------------------------------------------------------------------------
(* The worker's program *)

Do(op) == [op |-> op, category |-> "NONE"]
Publish(c) == [op |-> "PUBLISH", category |-> c]

\* The bindings published before the preparation, of those that matter here.
Binding(c) == IF c \in Category THEN <<Publish(c)>> ELSE <<>>

Bindings ==
  Binding("BACKEND") \o Binding("DEVICE_CONTEXT") \o Binding("MODEL") \o
  Binding("KV_CAPACITY") \o Binding("KERNEL") \o Binding("GRAPH")

\* Wrong variant: the warmup is published before the preparation completes.
Wrong_Setup ==
  <<Do("HELLO"), Do("REGISTER")>> \o Bindings \o
  <<Publish("WARMUP"), Do("PREPARE"), Do("QUERY"), Do("ACTIVATE")>>

\* The warmup comes after the preparation, whose evaluation therefore fails
\* and leaves the readiness generation as the registration returned it.
Setup ==
  <<Do("HELLO"), Do("REGISTER")>> \o Bindings \o
  <<Do("PREPARE"), Publish("WARMUP"), Do("QUERY"), Do("ACTIVATE")>>

ServeOne == <<Do("ACQUIRE"), Do("RESULT"), Do("RELEASE")>>

Program ==
  Setup \o [n \in 1 .. 3 * Serve |-> ServeOne[((n - 1) % 3) + 1]]

\* Wrong variant: the publications are sent without waiting for their replies.
Wrong_Awaited(op) == op \notin {"RESULT", "PUBLISH"}

\* The worker reads one frame after sending this one.
Awaited(op) == op # "RESULT"

Running(w) == worker[w].pc \in {"send", "recv"}

Gone(w) == worker[w].pc \in {"exited", "crashed"}

\* Frames carry the epoch 0, which no session compares.
Request(w) ==
  LET step == Program[worker[w].step] IN
  [op |-> step.op, category |-> step.category,
   readiness_gen |-> IF step.op = "ACTIVATE" THEN worker[w].rgen ELSE 1,
   use_id |-> IF step.op = "RELEASE" THEN worker[w].use ELSE 0]

\* The worker after it has come to step n of its program.
AtStep(me, n) ==
  [me EXCEPT !.step = n, !.pc = IF n <= Len(Program) THEN "send" ELSE "done"]

Send(w) ==
  LET op == Program[worker[w].step].op IN
  /\ worker[w].pc = "send"
  /\ requests' = [requests EXCEPT ![w] = Append(@, Request(w))]
  /\ worker' = [worker EXCEPT ![w] =
       IF Awaited(op) THEN [@ EXCEPT !.pc = "recv"] ELSE AtStep(@, worker[w].step + 1)]
  /\ UNCHANGED <<runtime, session, replies>>

\* A field of a reply: only the answer to one request has it.
Field(reply, op, default) == IF reply.of = op /\ reply.ok THEN reply.value ELSE default

Recv(w) ==
  LET me    == worker[w]
      op    == Program[me.step].op
      reply == Head(replies[w])
  IN
  /\ me.pc = "recv"
  /\ replies[w] # <<>>
  /\ replies' = [replies EXCEPT ![w] = Tail(@)]
  /\ worker' = [worker EXCEPT ![w] =
       CASE op = "REGISTER" /\ ~reply.ok -> [me EXCEPT !.pc = "exited"]
         [] op = "REGISTER" /\ reply.ok ->
              AtStep([me EXCEPT !.rgen = Field(reply, "REGISTER", 1)], me.step + 1)
         [] op = "QUERY" /\ Field(reply, "QUERY", 0) = 0 -> AtStep(me, me.step + 2)
         [] op = "ACQUIRE" ->
              AtStep([me EXCEPT !.use = Field(reply, "ACQUIRE", 0)], me.step + 1)
         [] OTHER -> AtStep(me, me.step + 1)]
  /\ UNCHANGED <<runtime, session, requests>>

\* The process exits or is killed: what it last sent may be lost with it, except for
\* the request its session has begun to handle.
Crash(w) ==
  /\ Running(w) \/ worker[w].pc = "done"
  /\ worker' = [worker EXCEPT ![w].pc = "crashed"]
  /\ \E n \in (IF session[w].stage = "idle" THEN 0 ELSE 1) .. Len(requests[w]) :
       requests' = [requests EXCEPT ![w] = SubSeq(@, 1, n)]
  /\ replies' = [replies EXCEPT ![w] = <<>>]
  /\ UNCHANGED <<runtime, session>>

-----------------------------------------------------------------------------
(* The session *)

\* incarnation_is_fenced, which sessions ask: dead counts, FAILED does not.
IncarnationIsFenced(i) ==
  \/ IsFenced(incarnations[i])
  \/ incarnations[i].lifecycle \in {"LOST", "RETIRED"}

Idle == [stage |-> "idle", incarnation |-> 0, id |-> 0, left |-> 0]

\* The request the session is about, and how far the handler has come with it:
\* it stays at the head of the queue until it is answered.
Handles(w, ops, stage) ==
  /\ session[w].stage = stage
  /\ requests[w] # <<>>
  /\ Head(requests[w]).op \in ops

\* The session goes on to another stage of the same request.
Goto(w, stage, id, left) ==
  /\ session' = [session EXCEPT ![w] =
       [@ EXCEPT !.stage = stage, !.id = id, !.left = left]]
  /\ UNCHANGED <<worker, channels>>

\* The reply is sent, unless nobody is there to read it, and i kept.
Answer(w, ok, value, i) ==
  /\ replies' = IF Gone(w) THEN replies ELSE [replies EXCEPT ![w] =
       Append(@, [of |-> Head(requests[w]).op, ok |-> ok, value |-> value])]
  /\ requests' = [requests EXCEPT ![w] = Tail(@)]
  /\ session' = [session EXCEPT ![w] = [Idle EXCEPT !.incarnation = i]]
  /\ UNCHANGED worker

Reply(w, value) == Answer(w, TRUE, value, session[w].incarnation)

\* Wrong variant: a refused request is not answered.
Wrong_Refuse(w) ==
  /\ requests' = [requests EXCEPT ![w] = Tail(@)]
  /\ session' = [session EXCEPT ![w] = [Idle EXCEPT !.incarnation = session[w].incarnation]]
  /\ UNCHANGED <<worker, replies>>

\* The operation threw: ERROR is sent, and the runtime is as it was.
Refuse(w) == Answer(w, FALSE, 0, session[w].incarnation)

Refused(w) == Refuse(w) /\ UNCHANGED runtime

Hello(w) == Handles(w, {"HELLO"}, "idle") /\ Reply(w, 0) /\ UNCHANGED runtime

IssuePermit(w) ==
  /\ Handles(w, {"REGISTER"}, "idle")
  /\ \/ IssueRegistrationPermit(w, 1) /\ Goto(w, "register", ids.permit + 1, 0)
        /\ UNCHANGED prepVars
     \/ ~ENABLED IssueRegistrationPermit(w, 1) /\ Refused(w)

\* The sessions register incarnations of the one engine the coordinator seeds.
Register(w) ==
  LET Registers == \E e \in Engine : RegisterIncarnation(session[w].id, e) IN
  /\ Handles(w, {"REGISTER"}, "register")
  /\ \/ /\ Registers
        /\ LET i == ids.incarnation + 1 IN
           Answer(w, TRUE, incarnations'[i].readiness_generation, i)
        /\ UNCHANGED prepVars
     \/ ~ENABLED Registers /\ Refused(w)

\* PREPARE: a plan, an attempt at it, one step more than it has, completion.
\* No request cancels an attempt or advances the epoch: no step is refused.
Prepare(w) ==
  LET me == session[w] IN
  \/ /\ Handles(w, {"PREPARE"}, "idle")
     /\ \/ CreatePreparationPlan(me.incarnation)
           /\ Goto(w, "begin", Cardinality(DOMAIN plans) + 1, 0)
        \/ ~ENABLED CreatePreparationPlan(me.incarnation) /\ Refused(w)
  \/ /\ Handles(w, {"PREPARE"}, "begin")
     /\ \/ BeginPreparation(me.id)
           /\ Goto(w, "step", Cardinality(DOMAIN attempts) + 1, plans[me.id].steps + 1)
        \/ ~ENABLED BeginPreparation(me.id) /\ Refused(w)
  \/ /\ Handles(w, {"PREPARE"}, "step") /\ me.left > 0
     /\ StepPreparation(me.id) /\ Goto(w, "step", me.id, me.left - 1)
  \/ /\ Handles(w, {"PREPARE"}, "step") /\ me.left = 0
     /\ \/ CompletePreparation(me.id) /\ Reply(w, 0)
        \/ ~ENABLED CompletePreparation(me.id) /\ Refused(w)

Gated == {"PUBLISH", "QUERY", "ACTIVATE", "ACQUIRE", "RESULT", "RELEASE"}

CheckTarget(w) ==
  LET i == session[w].incarnation IN
  /\ Handles(w, Gated, "idle")
  /\ UNCHANGED runtime
  /\ IF i \notin DOMAIN incarnations \/ IncarnationIsFenced(i) \/ ~AdmissionOpen(i)
     THEN Refuse(w) ELSE Goto(w, "operation", 0, 0)

\* The operation a request that has passed the gate asks of the runtime.  The
\* evidence satisfies the profile, and is the first of its category.
Operation(msg, i) ==
  CASE msg.op = "PUBLISH" ->
         PublishComponent(i, msg.category) /\ msg.category \in verified'[i]
    [] msg.op = "ACTIVATE" ->
         \E s \in Slot : Activate(i, msg.readiness_gen, s, TRUE)
    [] msg.op = "ACQUIRE" -> AcquireServingUse(i, msg.readiness_gen)
    [] msg.op = "RELEASE" ->
         msg.use_id \in OpenUsesOf(i) /\ ReleaseServingUse(msg.use_id, i)
    [] OTHER -> UNCHANGED vars

\* The operation throws.  A release does if the token names no open use of i.
Throws(msg, i) ==
  IF msg.op = "RELEASE" THEN msg.use_id \notin OpenUsesOf(i)
                        ELSE ~ENABLED Operation(msg, i)

\* Wrong variant: the token carries the counter as it was before this use.
Wrong_ReplyValue(msg, i) ==
  CASE msg.op = "QUERY" ->
         IF incarnations[i].recovery = "NOMINAL" /\ Ready(i) THEN 1 ELSE 0
    [] msg.op = "ACQUIRE" -> ids.use
    [] OTHER -> 0

\* What the reply carries besides its success.
ReplyValue(msg, i) ==
  CASE msg.op = "QUERY" ->
         IF incarnations[i].recovery = "NOMINAL" /\ Ready(i) THEN 1 ELSE 0
    [] msg.op = "ACQUIRE" -> ids.use + 1
    [] OTHER -> 0

Perform(w) ==
  LET i   == session[w].incarnation
      msg == Head(requests[w])
  IN
  /\ Handles(w, Gated, "operation")
  /\ \/ Operation(msg, i) /\ UNCHANGED prepVars /\ Reply(w, ReplyValue(msg, i))
     \/ Throws(msg, i) /\ Refused(w)

\* The socket is closed and all that arrived was handled.  The session forgets
\* its worker; the runtime is told nothing.
EndSession(w) ==
  /\ session[w].stage = "idle" /\ Gone(w) /\ requests[w] = <<>>
  /\ session' = [session EXCEPT ![w] = [Idle EXCEPT !.stage = "ended"]]
  /\ UNCHANGED <<runtime, worker, channels>>

Session(w) ==
  \/ Hello(w) \/ IssuePermit(w) \/ Register(w) \/ Prepare(w)
  \/ CheckTarget(w) \/ Perform(w) \/ EndSession(w)

-----------------------------------------------------------------------------
\* Controllers fence and replace over sessions of their own.  They cannot drain
\* a worker that never asks for commands; that they retire an incarnation after
\* its cutover is left out, as the cutover has closed it.
Controllers ==
  /\ \/ \E w \in Mortal : FenceWorker(w, 1)
     \/ \E i, j \in DOMAIN incarnations :
          incarnations[i].worker \in Mortal /\ BeginReplacement(i, j)
     \/ \E r \in DOMAIN replacement_plans : CommitCutover(r)
  /\ UNCHANGED <<prepVars, worker, session, channels>>

WorkerInit ==
  /\ PrepInit
  /\ worker = [w \in Worker |-> [step |-> 1, pc |-> "send", rgen |-> 1, use |-> 0]]
  /\ session = [w \in Worker |-> Idle]
  /\ requests = [w \in Worker |-> <<>>] /\ replies = [w \in Worker |-> <<>>]

Process(w) == Send(w) \/ Recv(w)

WorkerNext ==
  \/ Controllers
  \/ \E w \in Worker : Process(w) \/ Session(w)
  \/ \E w \in Mortal : Crash(w)

\* A running process and a session thread are scheduled in the end.
WorkerSpec ==
  /\ WorkerInit /\ [][WorkerNext]_allVars
  /\ \A w \in Worker : WF_allVars(Process(w)) /\ WF_allVars(Session(w))

-----------------------------------------------------------------------------
(* What must hold *)

\* The incarnation of w can still be used: it is neither fenced nor closed.
Usable(w) ==
  LET i == session[w].incarnation IN
  /\ i \in DOMAIN incarnations
  /\ ~IncarnationIsFenced(i)
  /\ AdmissionOpen(i)

\* The worker and its session are never further apart than one frame and the
\* results it has reported: as many frames as the socket must hold at once.
WorkerTypeOK ==
  \A w \in Worker :
    /\ worker[w].step \in 1 .. Len(Program) + 1
    /\ session[w].incarnation \in {0} \cup DOMAIN incarnations
    /\ Len(requests[w]) + Len(replies[w]) <= Serve + 1

\* tests/test_property.cpp asserts "no underflow/leak" of a loop that acquires and
\* releases.  A worker that has come to the end of its serve loop leaves no use
\* open on an incarnation that can still be used.
ServedUsesAreReleased ==
  \A w \in Worker :
    /\ worker[w].pc = "done" /\ requests[w] = <<>>
    /\ Usable(w)
    => OpenUsesOf(session[w].incarnation) = {}

\* A worker that has registered becomes ACTIVE in the end, whatever the other
\* workers do meanwhile, unless it dies, is fenced or replaced, takes the place
\* of another as its candidate, or finds its slot with another.  The generation
\* it read at its registration must still be the one when it activates.
SetupActivates ==
  \A w \in Worker :
    session[w].incarnation # 0 /\ worker[w].step < Len(Setup) ~>
      \/ worker[w].pc = "crashed" \/ ~Usable(w)
      \/ incarnations[session[w].incarnation].activation \in {"ACTIVE", "STANDBY"}
      \/ \E s \in DOMAIN slots : slots[s] # session[w].incarnation

\* Every worker comes to the end of its program unless it is killed, whatever
\* is refused on the way: no request stays without an answer.
EveryWorkerFinishes == <>(\A w \in Worker : ~Running(w))
=============================================================================
