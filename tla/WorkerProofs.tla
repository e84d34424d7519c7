---------------------------- MODULE WorkerProofs ----------------------------
(***************************************************************************)
(* Worker processes and their sessions, for every number of workers, of    *)
(* components and of requests served: all that sessions do to the runtime  *)
(* is done through its operations; which reply a worker takes for which    *)
(* request; and that what it acquired it has released when it is done.     *)
(* That a session refuses a call is left open here (ENABLED), except for   *)
(* a release.                                                              *)
(***************************************************************************)
EXTENDS WorkerSession, PreparationProofs, SequenceTheorems

Op == {"HELLO", "REGISTER", "PREPARE"} \cup Gated

Instruction == [op : Op, category : Category \cup {"NONE"}]

\* The number of steps before the worker serves.
L == Len(Setup)

-----------------------------------------------------------------------------
(* The worker's program *)

LEMMA JoinFacts ==
  ASSUME NEW S, NEW s \in Seq(S), NEW t \in Seq(S), NEW st, st = s \o t
  PROVE  /\ st \in Seq(S) /\ Len(st) = Len(s) + Len(t)
         /\ \A n \in 1 .. Len(s) : st[n] = s[n]
         /\ \A n \in 1 .. Len(t) : st[Len(s) + n] = t[n]
<1>1. Len(s) \in Nat /\ Len(t) \in Nat
  BY LenProperties
<1>2. /\ st \in Seq(S) /\ Len(st) = Len(s) + Len(t)
      /\ \A n \in 1 .. Len(s) + Len(t) :
           st[n] = IF n <= Len(s) THEN s[n] ELSE t[n - Len(s)]
  BY ConcatProperties
<1>3. \A n \in 1 .. Len(s) : st[n] = s[n]
  BY <1>1, <1>2
<1>4. ASSUME NEW n \in 1 .. Len(t)
      PROVE  st[Len(s) + n] = t[n]
  <2>1. /\ Len(s) + n \in 1 .. Len(s) + Len(t) /\ ~(Len(s) + n <= Len(s))
        /\ (Len(s) + n) - Len(s) = n
    BY <1>1
  <2> QED BY <1>2, <2>1
<1> QED BY <1>2, <1>3, <1>4

LEMMA BindingFacts ==
  ASSUME NEW c
  PROVE  Binding(c) \in Seq([op : {"PUBLISH"}, category : Category])
<1> DEFINE S == [op : {"PUBLISH"}, category : Category]
<1>1. CASE c \in Category
  <2>1. Publish(c) \in S
    BY <1>1 DEF Publish
  <2> HIDE DEF S
  <2>2. <<Publish(c)>> \in Seq(S)
    BY <2>1
  <2> QED BY <1>1, <2>2 DEF Binding, S
<1>2. CASE c \notin Category
  BY <1>2, EmptySeq DEF Binding
<1> QED BY <1>1, <1>2

LEMMA BindingsFacts == Bindings \in Seq([op : {"PUBLISH"}, category : Category])
BY BindingFacts, ConcatProperties DEF Bindings

\* Where the requests of the setup stand, whatever components are bound.
LEMMA SetupFacts ==
  /\ Setup \in Seq(Instruction) /\ L \in Nat /\ L >= 6
  /\ Setup[1].op = "HELLO"
  /\ \A n \in 1 .. L :
       /\ Setup[n].op \in {"HELLO", "REGISTER", "PUBLISH", "PREPARE", "QUERY", "ACTIVATE"}
       /\ Setup[n].op = "REGISTER" <=> n = 2
       /\ Setup[n].op = "QUERY" <=> n = L - 1
       /\ Setup[n].op = "PUBLISH" => Setup[n].category \in Category
<1> DEFINE S == [op : {"HELLO", "REGISTER", "PUBLISH", "PREPARE", "QUERY", "ACTIVATE"},
                 category : Category \cup {"NONE"}]
           first == <<Do("HELLO"), Do("REGISTER")>>
           last  == <<Do("PREPARE"), Publish("WARMUP"), Do("QUERY"), Do("ACTIVATE")>>
           B == Len(Bindings)
<1>1. first \in Seq(S) /\ last \in Seq(S) /\ Len(first) = 2 /\ Len(last) = 4
  BY SeedAssumption DEF Do, Publish
<1>2. /\ first[1].op = "HELLO" /\ first[2].op = "REGISTER"
      /\ last[1].op = "PREPARE" /\ last[2].op = "PUBLISH" /\ last[2].category = "WARMUP"
      /\ last[3].op = "QUERY" /\ last[4].op = "ACTIVATE"
  BY DEF Do, Publish
<1>3. Bindings \in Seq(S)
  <2>1. ASSUME NEW x \in [op : {"PUBLISH"}, category : Category]
        PROVE  x \in S
    BY Zenon
  <2> QED BY <2>1, BindingsFacts, SeqMonotonic
<1>4. /\ B \in Nat
      /\ \A n \in 1 .. B : Bindings[n].op = "PUBLISH" /\ Bindings[n].category \in Category
  <2>1. ASSUME NEW n \in 1 .. B
        PROVE  Bindings[n] \in [op : {"PUBLISH"}, category : Category]
    BY BindingsFacts, ElementOfSeq
  <2> QED BY <2>1, BindingsFacts, LenProperties
<1> HIDE DEF first, last, B, S
<1> DEFINE front == first \o Bindings
<1>5. /\ front \in Seq(S) /\ Len(front) = 2 + B
      /\ front[1] = first[1] /\ front[2] = first[2]
      /\ \A n \in 1 .. B : front[2 + n] = Bindings[n]
  <2>0. front = first \o Bindings
    OBVIOUS
  <2> HIDE DEF front
  <2>1. /\ front \in Seq(S) /\ Len(front) = Len(first) + Len(Bindings)
        /\ \A n \in 1 .. Len(first) : front[n] = first[n]
        /\ \A n \in 1 .. Len(Bindings) : front[Len(first) + n] = Bindings[n]
    <3>1. first \in Seq(S) /\ Bindings \in Seq(S)
      BY <1>1, <1>3
    <3> QED BY <2>0, <3>1, JoinFacts
  <2>2. 1 \in 1 .. 2 /\ 2 \in 1 .. 2
    OBVIOUS
  <2> QED BY <1>1, <2>1, <2>2 DEF B
<1>6. /\ Setup \in Seq(S) /\ L = 6 + B
      /\ \A n \in 1 .. 2 + B : Setup[n] = front[n]
      /\ \A n \in 1 .. 4 : Setup[2 + B + n] = last[n]
  <2>1. Setup = front \o last
    BY DEF Setup, first, last
  <2> HIDE DEF front
  <2>2. 2 + B \in Nat /\ (2 + B) + 4 = 6 + B
    BY <1>4
  <2>3. /\ Setup \in Seq(S) /\ Len(Setup) = Len(front) + Len(last)
        /\ \A n \in 1 .. Len(front) : Setup[n] = front[n]
        /\ \A n \in 1 .. Len(last) : Setup[Len(front) + n] = last[n]
    <3>1. front \in Seq(S) /\ last \in Seq(S)
      BY <1>1, <1>5
    <3> QED BY <2>1, <3>1, JoinFacts
  <2> QED BY <1>1, <1>5, <2>2, <2>3 DEF L
<1> HIDE DEF front
<1>7. /\ Setup[1] = first[1] /\ Setup[2] = first[2]
      /\ \A n \in 1 .. B : Setup[2 + n] = Bindings[n]
      /\ Setup[3 + B] = last[1] /\ Setup[4 + B] = last[2]
      /\ Setup[5 + B] = last[3] /\ Setup[6 + B] = last[4]
  <2>1. 1 \in 1 .. 2 + B /\ 2 \in 1 .. 2 + B /\ \A n \in 1 .. B : 2 + n \in 1 .. 2 + B
    BY <1>4
  <2>2. /\ 3 + B = 2 + B + 1 /\ 4 + B = 2 + B + 2
        /\ 5 + B = 2 + B + 3 /\ 6 + B = 2 + B + 4
    BY <1>4
  <2>3. 1 \in 1 .. 4 /\ 2 \in 1 .. 4 /\ 3 \in 1 .. 4 /\ 4 \in 1 .. 4
    OBVIOUS
  <2> QED BY <1>5, <1>6, <2>1, <2>2, <2>3
<1>8. \A n \in 1 .. L : Setup[n] \in S
  BY <1>6, ElementOfSeq DEF L
<1>9. Setup \in Seq(Instruction)
  <2>1. S \subseteq Instruction
    BY DEF S, Instruction, Op, Gated
  <2> QED BY <1>6, <2>1, SeqMonotonic
<1>10. ASSUME NEW n \in 1 .. L
       PROVE  /\ Setup[n].op = "REGISTER" <=> n = 2
              /\ Setup[n].op = "QUERY" <=> n = L - 1
              /\ Setup[n].op = "PUBLISH" => Setup[n].category \in Category
  <2>1. L - 1 = 5 + B /\ L = 6 + B /\ B >= 0
    BY <1>4, <1>6
  <2>2. CASE n \in {1, 2, 3 + B, 4 + B, 5 + B, 6 + B}
    BY <1>2, <1>4, <1>7, <2>1, <2>2, SeedAssumption
  <2>3. CASE n \in 3 .. 2 + B
    <3>1. PICK k \in 1 .. B : n = 2 + k
      <4>1. n - 2 \in 1 .. B /\ n = 2 + (n - 2)
        BY <1>4, <2>3
      <4> QED BY <4>1
    <3>2. Setup[n].op = "PUBLISH" /\ Setup[n].category \in Category
      BY <1>4, <1>7, <3>1
    <3> QED BY <1>4, <2>1, <2>3, <3>2
  <2> QED BY <1>4, <2>1, <2>2, <2>3
<1>11. L \in Nat /\ L >= 6
  BY <1>4, <1>6
<1> QED BY <1>2, <1>7, <1>8, <1>9, <1>10, <1>11 DEF S

LEMMA ProgramFacts ==
  /\ Program \in Seq(Instruction) /\ Len(Program) = L + 3 * Serve
  /\ \A n \in 1 .. L : Program[n] = Setup[n]
  /\ \A n \in L + 1 .. L + 3 * Serve :
       Program[n].op = IF (n - L) % 3 = 1 THEN "ACQUIRE"
                       ELSE IF (n - L) % 3 = 2 THEN "RESULT" ELSE "RELEASE"
<1> DEFINE N == 3 * Serve
           served == [n \in 1 .. N |-> ServeOne[((n - 1) % 3) + 1]]
<1>1. N \in Nat
  BY ServeAssumption
<1>2. /\ ServeOne[1] \in Instruction /\ ServeOne[2] \in Instruction
      /\ ServeOne[3] \in Instruction
      /\ ServeOne[1].op = "ACQUIRE" /\ ServeOne[2].op = "RESULT" /\ ServeOne[3].op = "RELEASE"
  BY DEF ServeOne, Do, Instruction, Op, Gated
<1>3. \A n \in 1 .. N :
        /\ (n - 1) % 3 \in {0, 1, 2}
        /\ n % 3 = 1 => (n - 1) % 3 = 0
        /\ n % 3 = 2 => (n - 1) % 3 = 1
        /\ n % 3 = 0 => (n - 1) % 3 = 2
        /\ n % 3 \in {0, 1, 2}
  BY <1>1
<1>4. \A n \in 1 .. N : served[n] \in Instruction
  BY <1>2, <1>3
<1>5. served \in [1 .. N -> Instruction]
  BY <1>4
<1>6. served \in Seq(Instruction) /\ Len(served) = N
  <2>1. served \in Seq(Instruction)
    BY <1>1, <1>5, SeqDef
  <2>2. DOMAIN served = 1 .. N
    OBVIOUS
  <2> HIDE DEF served, N
  <2> QED BY <1>1, <2>1, <2>2, LenProperties
<1>7. Program = Setup \o served
  BY DEF Program
<1> HIDE DEF served
<1>8. /\ Program \in Seq(Instruction) /\ Len(Program) = L + N
      /\ \A n \in 1 .. L + N : Program[n] = IF n <= L THEN Setup[n] ELSE served[n - L]
  <2>1. Setup \in Seq(Instruction) /\ L = Len(Setup)
    BY SetupFacts DEF L
  <2> HIDE DEF N
  <2> QED BY <1>6, <1>7, <2>1, ConcatProperties
<1>9. ASSUME NEW n \in L + 1 .. L + N
      PROVE  Program[n].op = IF (n - L) % 3 = 1 THEN "ACQUIRE"
                             ELSE IF (n - L) % 3 = 2 THEN "RESULT" ELSE "RELEASE"
  <2> DEFINE k == n - L
  <2>1. k \in 1 .. N /\ ~(n <= L) /\ n \in 1 .. L + N
    BY <1>1, SetupFacts
  <2>2. Program[n] = served[k]
    BY <1>8, <2>1
  <2>3. served[k] = ServeOne[((k - 1) % 3) + 1]
    BY <2>1 DEF served
  <2> HIDE DEF k
  <2>4. Program[n].op = IF k % 3 = 1 THEN "ACQUIRE"
                        ELSE IF k % 3 = 2 THEN "RESULT" ELSE "RELEASE"
    BY <1>2, <1>3, <2>1, <2>2, <2>3
  <2> QED BY <2>4 DEF k
<1>10. \A n \in 1 .. L : n \in 1 .. L + N
  BY <1>1, SetupFacts
<1> QED BY <1>8, <1>9, <1>10

-----------------------------------------------------------------------------
(* Which reply the worker reads at which step *)

\* The results reported before step n, whose replies the worker has not read:
\* one in each round of its serve loop that has come past the report.
Unread(n) == IF n <= Len(Setup) THEN 0 ELSE (n - Len(Setup)) \div 3

\* The replies the worker has read when it comes to step n.
Read(n) == n - 1 - Unread(n)

LEMMA UnreadFacts ==
  ASSUME NEW n \in 1 .. Len(Program) + 1
  PROVE  /\ Unread(n) \in Nat /\ Unread(n) <= Serve
         /\ Read(n) \in Nat
         /\ n <= L + 2 => Unread(n) = 0
<1>1. /\ L \in Nat /\ L >= 6 /\ Serve \in Nat /\ Len(Program) = L + 3 * Serve
  BY SetupFacts, ProgramFacts, ServeAssumption
<1>2. CASE n <= L
  BY <1>1, <1>2 DEF Unread, L, Read
<1>3. CASE ~(n <= L)
  <2> DEFINE k == n - L
  <2>1. k \in Nat /\ k >= 1 /\ k <= 3 * Serve + 1 /\ n = L + k
    BY <1>1, <1>3
  <2>2. Unread(n) = k \div 3
    BY <1>3 DEF Unread, L
  <2> HIDE DEF k
  <2>3. k \div 3 \in Nat /\ k \div 3 <= Serve /\ k \div 3 <= k /\ (k <= 2 => k \div 3 = 0)
    BY <1>1, <2>1
  <2> QED BY <1>1, <2>1, <2>2, <2>3 DEF Read
<1> QED BY <1>2, <1>3

\* Each step but a report of a result reads its reply.
LEMMA UnreadStep ==
  ASSUME NEW n \in 1 .. Len(Program)
  PROVE  Unread(n + 1) = IF Program[n].op = "RESULT" THEN Unread(n) + 1 ELSE Unread(n)
<1>1. /\ L \in Nat /\ L >= 6 /\ Serve \in Nat /\ Len(Program) = L + 3 * Serve
  BY SetupFacts, ProgramFacts, ServeAssumption
<1>2. CASE n <= L
  <2>1. Program[n].op # "RESULT"
    <3>1. Program[n] = Setup[n] /\ n \in 1 .. L
      BY <1>1, <1>2, ProgramFacts
    <3> QED BY <3>1, SetupFacts
  <2>2. n + 1 \in 1 .. Len(Program) + 1 /\ n + 1 <= L + 2
    BY <1>1, <1>2
  <2>3. Unread(n + 1) = 0
    BY <2>2, UnreadFacts
  <2> QED BY <1>2, <2>1, <2>3 DEF Unread, L
<1>3. CASE ~(n <= L)
  <2> DEFINE k == n - L
  <2>1. /\ k \in Nat /\ k >= 1 /\ (n + 1) - L = k + 1
        /\ ~(n + 1 <= L) /\ n \in L + 1 .. L + 3 * Serve
    BY <1>1, <1>3
  <2>2. Unread(n) = k \div 3 /\ Unread(n + 1) = (k + 1) \div 3
    BY <1>3, <2>1 DEF Unread, L
  <2>3. Program[n].op = IF k % 3 = 1 THEN "ACQUIRE"
                        ELSE IF k % 3 = 2 THEN "RESULT" ELSE "RELEASE"
    BY <2>1, ProgramFacts
  <2> HIDE DEF k
  <2>4. (k + 1) \div 3 = IF k % 3 = 2 THEN (k \div 3) + 1 ELSE k \div 3
    BY <2>1
  <2>5. k % 3 = 2 <=> Program[n].op = "RESULT"
    BY <2>1, <2>3
  <2> QED BY <2>2, <2>4, <2>5
<1> QED BY <1>2, <1>3

\* The steps whose requests have a place of their own in the program.
LEMMA ProgramPlaces ==
  ASSUME NEW n \in 1 .. Len(Program)
  PROVE  /\ Program[n] \in Instruction
         /\ Program[n].op = "REGISTER" <=> n = 2
         /\ Program[n].op = "QUERY" <=> n = L - 1
         /\ Program[n].op = "PREPARE" => n >= 3
         /\ Program[n].op = "PUBLISH" => Program[n].category \in Category
         /\ Program[n].op = "RESULT" => n > L
<1>1. /\ L \in Nat /\ L >= 6 /\ Serve \in Nat /\ Len(Program) = L + 3 * Serve
  BY SetupFacts, ProgramFacts, ServeAssumption
<1>2. Program[n] \in Instruction
  BY ProgramFacts, ElementOfSeq
<1>3. CASE n <= L
  <2>1. Program[n] = Setup[n] /\ n \in 1 .. L
    BY <1>1, <1>3, ProgramFacts
  <2> QED BY <1>2, <1>3, <2>1, SetupFacts
<1>4. CASE ~(n <= L)
  <2>1. n \in L + 1 .. L + 3 * Serve
    BY <1>1, <1>4
  <2>2. Program[n].op \in {"ACQUIRE", "RESULT", "RELEASE"}
    BY <2>1, ProgramFacts
  <2> QED BY <1>1, <1>2, <1>4, <2>2
<1> QED BY <1>3, <1>4

-----------------------------------------------------------------------------
(* The frames between a worker and its session *)

WorkerRecord ==
  [step : 1 .. Len(Program) + 1, pc : {"send", "recv", "done", "exited", "crashed"},
   rgen : Nat, use : Nat]

SessionRecord ==
  [stage : {"idle", "register", "begin", "step", "operation", "ended"},
   incarnation : Nat, id : Nat, left : Nat]

RequestFrame ==
  [op : Op, category : Category \cup {"NONE"}, readiness_gen : Nat, use_id : Nat]

ReplyFrame == [of : Op, ok : BOOLEAN, value : Nat]

\* The frames on their way, when the worker has come to step n and waits for k
\* replies: first the replies, then the requests, in the order of the program.
Order(n, k, req, rep) ==
  /\ Len(rep) + Len(req) = Unread(n) + k
  /\ \A j \in 1 .. Len(rep) : rep[j].of = Program[Read(n) + j].op
  /\ \A j \in 1 .. Len(req) : req[j].op = Program[Read(n) + Len(rep) + j].op

LEMMA AppendFacts ==
  ASSUME NEW S, NEW s \in Seq(S), NEW x \in S, NEW t, t = Append(s, x)
  PROVE  /\ t \in Seq(S) /\ t # <<>> /\ Len(s) \in Nat /\ Len(t) = Len(s) + 1
         /\ \A j \in 1 .. Len(s) : t[j] = s[j]
         /\ t[Len(s) + 1] = x
BY AppendProperties, LenProperties

LEMMA TailFacts ==
  ASSUME NEW S, NEW s \in Seq(S), s # <<>>, NEW t, t = Tail(s)
  PROVE  /\ t \in Seq(S) /\ Len(s) \in Nat /\ Len(s) >= 1 /\ Len(t) = Len(s) - 1
         /\ \A j \in 1 .. Len(s) - 1 : t[j] = s[j + 1]
         /\ Head(s) = s[1] /\ s[1] \in S
<1>1. Len(s) \in Nat /\ Len(s) >= 1
  BY EmptySeq
<1>2. t \in Seq(S) /\ Len(t) = Len(s) - 1 /\ \A j \in 1 .. Len(t) : t[j] = s[j + 1]
  BY HeadTailProperties
<1>3. s[1] \in S
  <2>1. 1 \in 1 .. Len(s)
    BY <1>1
  <2> QED BY <2>1, ElementOfSeq
<1>4. Head(s) = s[1]
  BY <1>1
<1> QED BY <1>1, <1>2, <1>3, <1>4

\* A frame the worker sends is that of its step.
LEMMA OrderSends ==
  ASSUME NEW n \in 1 .. Len(Program), NEW req \in Seq(RequestFrame),
         NEW rep \in Seq(ReplyFrame), NEW x \in RequestFrame, x.op = Program[n].op,
         Order(n, 0, req, rep), NEW req2, req2 = Append(req, x)
  PROVE  /\ Order(n, 1, req2, rep)
         /\ Program[n].op = "RESULT" => Order(n + 1, 0, req2, rep)
<1>1. /\ Len(req) \in Nat /\ Len(req2) = Len(req) + 1
      /\ \A j \in 1 .. Len(req) : req2[j] = req[j]
      /\ req2[Len(req) + 1] = x
  BY AppendFacts
<1>2. Len(rep) \in Nat
  BY LenProperties
<1>3. n \in 1 .. Len(Program) + 1 /\ n \in Nat
  BY ProgramFacts, SetupFacts, ServeAssumption
<1>4. Unread(n) \in Nat /\ Read(n) \in Nat /\ Read(n) = n - 1 - Unread(n)
  BY <1>3, UnreadFacts DEF Read
<1>5. Len(rep) + Len(req) = Unread(n)
  BY <1>1, <1>2, <1>4 DEF Order
<1>6. Read(n) + Len(rep) + (Len(req) + 1) = n
  BY <1>1, <1>2, <1>3, <1>4, <1>5
<1>7. \A j \in 1 .. Len(req2) : req2[j].op = Program[Read(n) + Len(rep) + j].op
  <2> SUFFICES ASSUME NEW j \in 1 .. Len(req2)
               PROVE  req2[j].op = Program[Read(n) + Len(rep) + j].op
    OBVIOUS
  <2>1. CASE j = Len(req) + 1
    BY <1>1, <1>6, <2>1
  <2>2. CASE j \in 1 .. Len(req)
    BY <1>1, <2>2 DEF Order
  <2> QED BY <1>1, <2>1, <2>2
<1>8. Len(rep) + Len(req2) = Unread(n) + 1
  BY <1>1, <1>2, <1>5
<1>9. Program[n].op = "RESULT" => Unread(n + 1) = Unread(n) + 1 /\ Read(n + 1) = Read(n)
  <2>1. Program[n].op = "RESULT" => Unread(n + 1) = Unread(n) + 1
    BY UnreadStep
  <2> QED BY <1>3, <1>4, <2>1 DEF Read
<1>10. Unread(n) + 1 + 0 = Unread(n) + 1
  BY <1>4
<1> QED BY <1>7, <1>8, <1>9, <1>10 DEF Order

\* A frame the session sends answers the oldest request.
LEMMA OrderAnswers ==
  ASSUME NEW n \in 1 .. Len(Program) + 1, NEW k \in {0, 1}, NEW req \in Seq(RequestFrame),
         NEW rep \in Seq(ReplyFrame), req # <<>>, NEW x \in ReplyFrame,
         x.of = req[1].op, Order(n, k, req, rep),
         NEW req2, req2 = Tail(req), NEW rep2, rep2 = Append(rep, x)
  PROVE  Order(n, k, req2, rep2)
<1>1. /\ Len(rep) \in Nat /\ Len(rep2) = Len(rep) + 1
      /\ \A j \in 1 .. Len(rep) : rep2[j] = rep[j]
      /\ rep2[Len(rep) + 1] = x
  BY AppendFacts
<1>2. /\ Len(req) \in Nat /\ Len(req) >= 1 /\ Len(req2) = Len(req) - 1
      /\ \A j \in 1 .. Len(req) - 1 : req2[j] = req[j + 1]
  BY TailFacts
<1>3. Unread(n) \in Nat /\ Read(n) \in Nat
  BY UnreadFacts
<1>4. Len(rep2) + Len(req2) = Unread(n) + k
  BY <1>1, <1>2 DEF Order
<1>5. \A j \in 1 .. Len(rep2) : rep2[j].of = Program[Read(n) + j].op
  <2> SUFFICES ASSUME NEW j \in 1 .. Len(rep2)
               PROVE  rep2[j].of = Program[Read(n) + j].op
    OBVIOUS
  <2>1. CASE j = Len(rep) + 1
    <3>1. req[1].op = Program[Read(n) + Len(rep) + 1].op
      BY <1>2 DEF Order
    <3>2. Read(n) + Len(rep) + 1 = Read(n) + (Len(rep) + 1)
      BY <1>1, <1>3
    <3> QED BY <1>1, <2>1, <3>1, <3>2
  <2>2. CASE j \in 1 .. Len(rep)
    BY <1>1, <2>2 DEF Order
  <2> QED BY <1>1, <2>1, <2>2
<1>6. \A j \in 1 .. Len(req2) : req2[j].op = Program[Read(n) + Len(rep2) + j].op
  <2> SUFFICES ASSUME NEW j \in 1 .. Len(req2)
               PROVE  req2[j].op = Program[Read(n) + Len(rep2) + j].op
    OBVIOUS
  <2>1. j \in 1 .. Len(req) - 1 /\ j + 1 \in 1 .. Len(req)
    BY <1>2
  <2>2. Read(n) + Len(rep2) + j = Read(n) + Len(rep) + (j + 1)
    BY <1>1, <1>3, <2>1
  <2>3. req[j + 1].op = Program[Read(n) + Len(rep) + (j + 1)].op
    BY <2>1 DEF Order
  <2> QED BY <1>2, <2>1, <2>2, <2>3
<1> QED BY <1>4, <1>5, <1>6 DEF Order

\* The worker reads the oldest reply, and goes on to the next step; or over the
\* activation to the first request it serves, when nothing else is on its way.
LEMMA OrderReads ==
  ASSUME NEW n \in 1 .. Len(Program), NEW req \in Seq(RequestFrame),
         NEW rep \in Seq(ReplyFrame), rep # <<>>, Program[n].op # "RESULT",
         Order(n, 1, req, rep), NEW rep2, rep2 = Tail(rep)
  PROVE  /\ Order(n + 1, 0, req, rep2)
         /\ n = L - 1 => Order(n + 2, 0, req, rep2)
         /\ n <= L => req = <<>> /\ rep2 = <<>>
<1>1. /\ rep2 \in Seq(ReplyFrame) /\ Len(rep) \in Nat /\ Len(rep) >= 1
      /\ Len(rep2) = Len(rep) - 1
      /\ \A j \in 1 .. Len(rep) - 1 : rep2[j] = rep[j + 1]
  BY TailFacts
<1>2. Len(req) \in Nat
  BY LenProperties
<1>3. n \in 1 .. Len(Program) + 1 /\ n \in Nat /\ L \in Nat /\ L >= 6
  BY ProgramFacts, SetupFacts, ServeAssumption
<1>4. /\ Unread(n) \in Nat /\ Read(n) \in Nat /\ Read(n) = n - 1 - Unread(n)
      /\ n <= L => Unread(n) = 0
  BY <1>3, UnreadFacts DEF Read, Unread, L
<1>5. Len(rep) + Len(req) = Unread(n) + 1
  BY DEF Order
<1>6. Unread(n + 1) = Unread(n) /\ Read(n + 1) = Read(n) + 1
  <2>1. Unread(n + 1) = Unread(n)
    BY UnreadStep
  <2> QED BY <1>3, <1>4, <2>1 DEF Read
<1>7. Len(rep2) + Len(req) = Unread(n) + 0
  <2>1. Len(rep) \in Nat /\ Len(rep2) = Len(rep) - 1 /\ Unread(n) \in Nat
    BY <1>1, <1>4
  <2> QED BY <1>2, <1>5, <2>1
<1>8. \A j \in 1 .. Len(rep2) : rep2[j].of = Program[Read(n) + 1 + j].op
  <2> SUFFICES ASSUME NEW j \in 1 .. Len(rep2)
               PROVE  rep2[j].of = Program[Read(n) + 1 + j].op
    OBVIOUS
  <2>1. j \in 1 .. Len(rep) - 1 /\ j + 1 \in 1 .. Len(rep)
        /\ Read(n) + 1 + j = Read(n) + (j + 1)
    BY <1>1, <1>4
  <2>2. rep[j + 1].of = Program[Read(n) + (j + 1)].op
    BY <2>1 DEF Order
  <2> QED BY <1>1, <2>1, <2>2
<1>9. \A j \in 1 .. Len(req) : req[j].op = Program[Read(n) + 1 + Len(rep2) + j].op
  <2> SUFFICES ASSUME NEW j \in 1 .. Len(req)
               PROVE  req[j].op = Program[Read(n) + 1 + Len(rep2) + j].op
    OBVIOUS
  <2>1. Read(n) + 1 + Len(rep2) + j = Read(n) + Len(rep) + j
    BY <1>1, <1>2, <1>4
  <2> QED BY <2>1 DEF Order
<1>10. Order(n + 1, 0, req, rep2)
  BY <1>6, <1>7, <1>8, <1>9 DEF Order
<1>11. ASSUME n <= L PROVE Len(req) = 0 /\ Len(rep2) = 0 /\ req = <<>> /\ rep2 = <<>>
  <2>1. Len(req) = 0 /\ Len(rep2) = 0
    BY <1>1, <1>2, <1>4, <1>5, <1>11
  <2> QED BY <1>1, <2>1, EmptySeq
<1>12. ASSUME n = L - 1 PROVE Order(n + 2, 0, req, rep2)
  <2>1. Unread(n + 2) = 0
    <3>1. n + 2 \in 1 .. Len(Program) + 1 /\ n + 2 <= L + 2
      BY <1>3, <1>12, ProgramFacts, ServeAssumption
    <3> QED BY <3>1, UnreadFacts
  <2>2. Len(req) = 0 /\ Len(rep2) = 0
    BY <1>3, <1>11, <1>12
  <2> QED BY <2>1, <2>2 DEF Order
<1> QED BY <1>10, <1>11, <1>12

-----------------------------------------------------------------------------
(* What holds between a worker and its session *)

Live == {"send", "recv", "done"}

InOrder(me, req, rep) ==
  /\ me.pc \in {"send", "recv"} => me.step \in 1 .. Len(Program)
  /\ me.pc = "recv" => Program[me.step].op # "RESULT"
  /\ me.pc = "done" => me.step = Len(Program) + 1
  /\ me.pc \in Live => Order(me.step, IF me.pc = "recv" THEN 1 ELSE 0, req, rep)
  /\ me.pc \notin Live => rep = <<>> /\ Len(req) <= Serve + 1
  /\ \A j \in 1 .. Len(req) : req[j].op = "PUBLISH" => req[j].category \in Category

\* The request a session has begun is still at the head of the queue.
Stage(ses, req) ==
  /\ ses.stage = "register" => req # <<>> /\ req[1].op = "REGISTER"
  /\ ses.stage \in {"begin", "step"} => req # <<>> /\ req[1].op = "PREPARE"
  /\ ses.stage = "operation" => req # <<>> /\ req[1].op \in Gated
  /\ ses.stage = "ended" => req = <<>>

\* A worker gets past its registration only with an incarnation, which its
\* session keeps: so a preparation is of one that exists.
Enrolled(me, ses, req, rep) ==
  /\ me.step >= 3 /\ ses.stage # "ended" => ses.incarnation # 0
  /\ me.pc = "recv" /\ me.step = 2 /\ rep # <<>> /\ rep[1].ok => ses.incarnation # 0
  /\ \A j \in 1 .. Len(req) : req[j].op = "PREPARE" => me.step >= 3
  /\ ses.stage = "ended" => me.pc \notin Live
  /\ ses.stage \in {"begin", "step", "operation"} => ses.incarnation # 0

Framed(me, ses, req, rep) ==
  /\ me \in WorkerRecord /\ ses \in SessionRecord
  /\ req \in Seq(RequestFrame) /\ rep \in Seq(ReplyFrame)

Link(me, ses, req, rep) ==
  /\ Framed(me, ses, req, rep)
  /\ InOrder(me, req, rep) /\ Stage(ses, req) /\ Enrolled(me, ses, req, rep)

LEMMA AtStepFacts ==
  ASSUME NEW me \in WorkerRecord, NEW n \in 1 .. Len(Program) + 1
  PROVE  /\ AtStep(me, n) \in WorkerRecord /\ AtStep(me, n).step = n
         /\ AtStep(me, n).pc = IF n <= Len(Program) THEN "send" ELSE "done"
         /\ AtStep(me, n).use = me.use
BY DEF AtStep, WorkerRecord

\* A worker at a step it has come to.
LEMMA InOrderAtStep ==
  ASSUME NEW me \in WorkerRecord, NEW n \in 1 .. Len(Program) + 1, NEW req, NEW rep,
         Order(n, 0, req, rep),
         \A j \in 1 .. Len(req) : req[j].op = "PUBLISH" => req[j].category \in Category
  PROVE  InOrder(AtStep(me, n), req, rep)
<1>1. Len(Program) \in Nat /\ n \in Nat
  BY ProgramFacts, SetupFacts, ServeAssumption
<1> DEFINE m == AtStep(me, n)
<1>2. m.step = n /\ m.pc = IF n <= Len(Program) THEN "send" ELSE "done"
  BY AtStepFacts
<1> HIDE DEF m
<1>3. CASE n <= Len(Program)
  BY <1>1, <1>2, <1>3 DEF InOrder, Live, m
<1>4. CASE ~(n <= Len(Program))
  <2>1. n = Len(Program) + 1
    BY <1>1, <1>4
  <2> QED BY <1>1, <1>2, <1>4, <2>1 DEF InOrder, Live, m
<1> QED BY <1>3, <1>4

LEMMA SendLink ==
  ASSUME NEW me, NEW ses, NEW req, NEW rep, Link(me, ses, req, rep), me.pc = "send",
         NEW x \in RequestFrame, x.op = Program[me.step].op,
         x.category = Program[me.step].category,
         NEW me2, me2 = IF Awaited(Program[me.step].op) THEN [me EXCEPT !.pc = "recv"]
                                                       ELSE AtStep(me, me.step + 1),
         NEW req2, req2 = Append(req, x)
  PROVE  Link(me2, ses, req2, rep)
<1> DEFINE n == me.step
<1>0. Framed(me, ses, req, rep) /\ InOrder(me, req, rep) /\ Stage(ses, req)
      /\ Enrolled(me, ses, req, rep)
  BY DEF Link
<1>1. n \in 1 .. Len(Program) /\ n \in Nat /\ Len(Program) \in Nat
  BY <1>0, ProgramFacts, SetupFacts, ServeAssumption DEF InOrder
<1>2. req \in Seq(RequestFrame) /\ rep \in Seq(ReplyFrame) /\ me \in WorkerRecord
  BY <1>0 DEF Framed
<1>3. /\ req2 \in Seq(RequestFrame) /\ req2 # <<>> /\ Len(req) \in Nat
      /\ Len(req2) = Len(req) + 1
      /\ \A j \in 1 .. Len(req) : req2[j] = req[j]
      /\ req2[Len(req) + 1] = x
  BY <1>2, AppendFacts
<1>4. Order(n, 0, req, rep)
  BY <1>0 DEF InOrder, Live
<1>5. Order(n, 1, req2, rep) /\ (Program[n].op = "RESULT" => Order(n + 1, 0, req2, rep))
  BY <1>1, <1>2, <1>4, OrderSends
<1>6. /\ Program[n].op = "PREPARE" => n >= 3
      /\ Program[n].op = "PUBLISH" => Program[n].category \in Category
      /\ Program[n].op = "RESULT" => n > L
  BY <1>1, ProgramPlaces
<1>7. \A j \in 1 .. Len(req2) :
        /\ req2[j].op = "PUBLISH" => req2[j].category \in Category
        /\ req2[j].op = "PREPARE" => n >= 3
  <2> SUFFICES ASSUME NEW j \in 1 .. Len(req2)
               PROVE  /\ req2[j].op = "PUBLISH" => req2[j].category \in Category
                      /\ req2[j].op = "PREPARE" => n >= 3
    OBVIOUS
  <2>1. CASE j = Len(req) + 1
    BY <1>3, <1>6, <2>1
  <2>2. CASE j \in 1 .. Len(req)
    BY <1>0, <1>3, <2>2 DEF InOrder, Enrolled
  <2> QED BY <1>3, <2>1, <2>2
<1>8. Stage(ses, req2)
  <2>1. ses.stage # "ended"
    BY <1>0 DEF Enrolled, Live
  <2>2. req # <<>> => req2[1] = req[1]
    BY <1>2, <1>3, EmptySeq
  <2> QED BY <1>0, <1>3, <2>1, <2>2 DEF Stage
<1>9. n = 2 => rep = <<>>
  <2>1. n = 2 => Len(rep) + Len(req) = 0
    <3>1. n = 2 => Unread(n) = 0
      BY SetupFacts DEF Unread, L
    <3> QED BY <1>4, <3>1 DEF Order
  <2>2. Len(rep) \in Nat
    BY <1>2, LenProperties
  <2> QED BY <1>2, <1>3, <2>1, <2>2, EmptySeq
<1>10. CASE Awaited(Program[n].op)
  <2>1. me2 \in WorkerRecord /\ me2.step = n /\ me2.pc = "recv"
    BY <1>2, <1>10 DEF WorkerRecord
  <2>2. InOrder(me2, req2, rep)
    BY <1>1, <1>5, <1>7, <1>10, <2>1 DEF InOrder, Live, Awaited
  <2>3. Enrolled(me2, ses, req2, rep)
    BY <1>0, <1>7, <1>9, <2>1 DEF Enrolled, Live
  <2> QED BY <1>0, <1>3, <1>8, <2>1, <2>2, <2>3 DEF Link, Framed
<1>11. CASE ~Awaited(Program[n].op)
  <2>1. me2 = AtStep(me, n + 1) /\ Program[n].op = "RESULT"
        /\ n + 1 \in 1 .. Len(Program) + 1
    BY <1>1, <1>11 DEF Awaited
  <2>2. me2 \in WorkerRecord /\ me2.step = n + 1 /\ me2.pc \in {"send", "done"}
    <3>1. /\ AtStep(me, n + 1) \in WorkerRecord /\ AtStep(me, n + 1).step = n + 1
          /\ AtStep(me, n + 1).pc \in {"send", "done"}
      BY <1>2, <2>1, AtStepFacts, Zenon
    <3> QED BY <2>1, <3>1
  <2>3. InOrder(me2, req2, rep)
    BY <1>2, <1>5, <1>7, <2>1, InOrderAtStep
  <2>4. n >= 3
    BY <1>1, <1>6, <2>1, SetupFacts
  <2>5. Enrolled(me2, ses, req2, rep)
    BY <1>0, <1>1, <1>7, <2>2, <2>4 DEF Enrolled, Live
  <2> QED BY <1>0, <1>3, <1>8, <2>2, <2>3, <2>5 DEF Link, Framed
<1> QED BY <1>10, <1>11

\* The worker takes the reply: it stops, goes on to the next step or, when it
\* finds itself not ready, leaves out its activation.
RecvOutcome(me, reply, me2) ==
  \/ /\ Program[me.step].op = "REGISTER" /\ ~reply.ok
     /\ me2 = [me EXCEPT !.pc = "exited"]
  \/ /\ Program[me.step].op = "REGISTER" => reply.ok
     /\ \E m \in WorkerRecord : me2 = AtStep(m, me.step + 1)
  \/ /\ Program[me.step].op = "QUERY"
     /\ me2 = AtStep(me, me.step + 2)

LEMMA ArriveLink ==
  ASSUME NEW me, NEW ses, NEW req, NEW rep, Link(me, ses, req, rep),
         NEW m \in WorkerRecord, NEW n \in 1 .. Len(Program) + 1, n >= me.step,
         NEW rep2 \in Seq(ReplyFrame), Order(n, 0, req, rep2), me.pc \in Live,
         n >= 3 => ses.incarnation # 0
  PROVE  Link(AtStep(m, n), ses, req, rep2)
<1> DEFINE m2 == AtStep(m, n)
<1>0. /\ Framed(me, ses, req, rep) /\ InOrder(me, req, rep) /\ Stage(ses, req)
      /\ Enrolled(me, ses, req, rep)
  BY DEF Link
<1>1. m2 \in WorkerRecord /\ m2.step = n /\ m2.pc \in {"send", "done"}
  BY AtStepFacts
<1>2. InOrder(m2, req, rep2)
  BY <1>0, InOrderAtStep DEF InOrder
<1> HIDE DEF m2
<1>3. me.step \in Nat /\ n \in Nat
  BY <1>0, ProgramFacts, SetupFacts, ServeAssumption DEF Framed, WorkerRecord
<1>4. Enrolled(m2, ses, req, rep2)
  BY <1>0, <1>1, <1>3 DEF Enrolled, Live
<1>5. Framed(m2, ses, req, rep2)
  BY <1>0, <1>1 DEF Framed
<1> QED BY <1>0, <1>2, <1>4, <1>5 DEF Link, m2

LEMMA RecvLink ==
  ASSUME NEW me, NEW ses, NEW req, NEW rep, Link(me, ses, req, rep), me.pc = "recv",
         rep # <<>>, NEW me2, RecvOutcome(me, rep[1], me2), NEW rep2, rep2 = Tail(rep)
  PROVE  Link(me2, ses, req, rep2)
<1> DEFINE n == me.step
<1>0. /\ Framed(me, ses, req, rep) /\ InOrder(me, req, rep) /\ Stage(ses, req)
      /\ Enrolled(me, ses, req, rep) /\ me.pc \in Live
  BY DEF Link, Live
<1>1. /\ n \in 1 .. Len(Program) /\ Program[n].op # "RESULT"
      /\ n \in Nat /\ Len(Program) \in Nat /\ L \in Nat /\ L >= 6 /\ Serve \in Nat
  BY <1>0, ProgramFacts, SetupFacts, ServeAssumption DEF InOrder
<1>2. req \in Seq(RequestFrame) /\ rep \in Seq(ReplyFrame) /\ me \in WorkerRecord
      /\ ses \in SessionRecord
  BY <1>0 DEF Framed
<1>3. rep2 \in Seq(ReplyFrame)
  BY <1>2, TailFacts
<1>4. Order(n, 1, req, rep)
  BY <1>0 DEF InOrder, Live
<1>5. /\ Order(n + 1, 0, req, rep2)
      /\ n = L - 1 => Order(n + 2, 0, req, rep2)
      /\ n <= L => req = <<>> /\ rep2 = <<>>
  BY <1>1, <1>2, <1>4, OrderReads
<1>6. /\ Program[n].op = "REGISTER" <=> n = 2
      /\ Program[n].op = "QUERY" <=> n = L - 1
  BY <1>1, ProgramPlaces
<1>7. ses.stage # "ended" /\ (n >= 3 => ses.incarnation # 0)
      /\ (n = 2 /\ rep[1].ok => ses.incarnation # 0)
  BY <1>0 DEF Enrolled
<1> HIDE DEF n
<1>8. CASE Program[n].op = "REGISTER" /\ me2 = [me EXCEPT !.pc = "exited"]
  <2>1. n = 2 /\ n <= L
    BY <1>1, <1>6, <1>8
  <2>2. me2 \in WorkerRecord /\ me2.step = n /\ me2.pc = "exited"
    BY <1>2, <1>8 DEF WorkerRecord, n
  <2>3. req = <<>> /\ rep2 = <<>> /\ Len(req) = 0
    BY <1>5, <2>1, EmptySeq
  <2>4. InOrder(me2, req, rep2)
    BY <1>1, <2>2, <2>3 DEF InOrder, Live
  <2>5. Enrolled(me2, ses, req, rep2)
    BY <1>0, <1>7, <2>2, <2>3 DEF Enrolled, Live, n
  <2> QED BY <1>0, <1>2, <1>3, <2>2, <2>4, <2>5 DEF Link, Framed
<1>9. CASE /\ Program[n].op = "REGISTER" => rep[1].ok
           /\ \E m \in WorkerRecord : me2 = AtStep(m, n + 1)
  <2>1. PICK m \in WorkerRecord : me2 = AtStep(m, n + 1)
    BY <1>9
  <2>2. n + 1 \in 1 .. Len(Program) + 1 /\ n + 1 >= me.step
    BY <1>1 DEF n
  <2>3. n + 1 >= 3 => ses.incarnation # 0
    BY <1>1, <1>6, <1>7, <1>9
  <2> QED BY <1>0, <1>3, <1>5, <2>1, <2>2, <2>3, ArriveLink
<1>10. CASE Program[n].op = "QUERY" /\ me2 = AtStep(me, n + 2)
  <2>1. n = L - 1 /\ n + 2 \in 1 .. Len(Program) + 1 /\ n + 2 >= me.step
    BY <1>1, <1>6, <1>10, ProgramFacts DEF n
  <2>2. n >= 3
    BY <1>1, <2>1
  <2> QED BY <1>0, <1>2, <1>3, <1>5, <1>7, <1>10, <2>1, <2>2, ArriveLink
<1> QED BY <1>8, <1>9, <1>10 DEF RecvOutcome, n

LEMMA CrashLink ==
  ASSUME NEW me, NEW ses, NEW req, NEW rep, Link(me, ses, req, rep), me.pc \in Live,
         NEW n \in (IF ses.stage = "idle" THEN 0 ELSE 1) .. Len(req),
         NEW req2, req2 = SubSeq(req, 1, n)
  PROVE  Link([me EXCEPT !.pc = "crashed"], ses, req2, <<>>)
<1> DEFINE me2 == [me EXCEPT !.pc = "crashed"]
<1>0. /\ Framed(me, ses, req, rep) /\ InOrder(me, req, rep) /\ Stage(ses, req)
      /\ Enrolled(me, ses, req, rep)
  BY DEF Link
<1>1. /\ req \in Seq(RequestFrame) /\ rep \in Seq(ReplyFrame) /\ me \in WorkerRecord
      /\ ses \in SessionRecord
  BY <1>0 DEF Framed
<1>2. Len(req) \in Nat /\ Len(rep) \in Nat /\ n \in Nat /\ n <= Len(req)
  BY <1>1, LenProperties
<1>3. req2 \in Seq(RequestFrame) /\ Len(req2) = n /\ \A j \in 1 .. n : req2[j] = req[j]
  <2>1. \A j \in 1 .. n : req[j] \in RequestFrame
    <3> TAKE j \in 1 .. n
    <3>1. j \in 1 .. Len(req)
      BY <1>2
    <3> QED BY <1>1, <3>1, ElementOfSeq
  <2>2. /\ req2 \in Seq(RequestFrame) /\ Len(req2) = IF 1 <= n THEN n - 1 + 1 ELSE 0
        /\ \A j \in 1 .. n - 1 + 1 : req2[j] = req[1 + j - 1]
    BY <1>2, <2>1, SubSeqProperties
  <2> QED BY <1>2, <2>2
<1>4. Len(req) <= Serve + 1
  <2>1. me.step \in 1 .. Len(Program) + 1
    BY <1>1 DEF WorkerRecord
  <2>2. Unread(me.step) \in Nat /\ Unread(me.step) <= Serve /\ Serve \in Nat
    BY <2>1, UnreadFacts, ServeAssumption
  <2>3. Len(rep) + Len(req) = Unread(me.step) + (IF me.pc = "recv" THEN 1 ELSE 0)
    BY <1>0 DEF InOrder, Order
  <2> QED BY <1>2, <2>2, <2>3
<1>5. me2 \in WorkerRecord /\ me2.pc = "crashed" /\ me2.step = me.step
  BY <1>1 DEF WorkerRecord
<1> HIDE DEF me2
<1>6. \A j \in 1 .. Len(req2) : j \in 1 .. Len(req) /\ req2[j] = req[j]
  BY <1>2, <1>3
<1>7. InOrder(me2, req2, <<>>)
  <2>1. Len(req2) <= Serve + 1
    BY <1>2, <1>3, <1>4, ServeAssumption
  <2> QED BY <1>0, <1>5, <1>6, <2>1 DEF InOrder, Live
<1>8. ses.stage # "ended"
  BY <1>0 DEF Enrolled
<1>9. ses.stage # "idle" => req2 # <<>> /\ req2[1] = req[1]
  <2>1. ses.stage # "idle" => 1 \in 1 .. Len(req2)
    BY <1>2, <1>3
  <2> QED BY <1>3, <2>1, EmptySeq
<1>10. Stage(ses, req2)
  BY <1>0, <1>8, <1>9 DEF Stage
<1>11. Enrolled(me2, ses, req2, <<>>)
  BY <1>0, <1>5, <1>6, <1>8 DEF Enrolled, Live
<1>12. Framed(me2, ses, req2, <<>>)
  BY <1>1, <1>3, <1>5, EmptySeq DEF Framed
<1> QED BY <1>7, <1>10, <1>11, <1>12 DEF Link, me2

\* A stage that a session with incarnation i may reach with a request op.
Fits(stage, op, i) ==
  /\ stage = "register" => op = "REGISTER"
  /\ stage \in {"begin", "step"} => op = "PREPARE"
  /\ stage = "operation" => op \in Gated
  /\ stage # "register" => i # 0

LEMMA GotoLink ==
  ASSUME NEW me, NEW ses, NEW req, NEW rep, Link(me, ses, req, rep),
         NEW stage \in {"register", "begin", "step", "operation"},
         NEW id \in Nat, NEW left \in Nat, req # <<>>,
         Fits(stage, req[1].op, ses.incarnation)
  PROVE  Link(me, [ses EXCEPT !.stage = stage, !.id = id, !.left = left], req, rep)
<1> DEFINE ses2 == [ses EXCEPT !.stage = stage, !.id = id, !.left = left]
<1>0. /\ Framed(me, ses, req, rep) /\ InOrder(me, req, rep) /\ Stage(ses, req)
      /\ Enrolled(me, ses, req, rep)
  BY DEF Link
<1>1. /\ ses2 \in SessionRecord /\ ses2.stage = stage
      /\ ses2.incarnation = ses.incarnation
  BY <1>0 DEF Framed, SessionRecord
<1> HIDE DEF ses2
<1>2. ses.stage # "ended"
  BY <1>0 DEF Stage
<1>3. Framed(me, ses2, req, rep) /\ Stage(ses2, req)
  BY <1>0, <1>1 DEF Framed, Stage, Fits
<1>4. Enrolled(me, ses2, req, rep)
  BY <1>0, <1>1, <1>2 DEF Enrolled, Fits
<1> QED BY <1>0, <1>3, <1>4 DEF Link, ses2

\* What a session that held incarnation old may hold after it answered op.
Holds(old, op, ok, i) == (old # 0 => i # 0) /\ (ok /\ op = "REGISTER" => i # 0)

\* The reply to the oldest request, when there is a worker to read it.
Answered(me, rep, x) == IF me.pc \in {"exited", "crashed"} THEN rep ELSE Append(rep, x)

LEMMA AnswerLink ==
  ASSUME NEW me, NEW ses, NEW req, NEW rep, Link(me, ses, req, rep), req # <<>>,
         NEW x \in ReplyFrame, x.of = req[1].op, NEW i \in Nat,
         Holds(ses.incarnation, req[1].op, x.ok, i)
  PROVE  Link(me, [Idle EXCEPT !.incarnation = i], Tail(req), Answered(me, rep, x))
<1> DEFINE req2 == Tail(req)
           rep2 == Answered(me, rep, x)
           ses2 == [Idle EXCEPT !.incarnation = i]
           n == me.step
           k == IF me.pc = "recv" THEN 1 ELSE 0
<1>0. /\ Framed(me, ses, req, rep) /\ InOrder(me, req, rep) /\ Stage(ses, req)
      /\ Enrolled(me, ses, req, rep)
  BY DEF Link
<1>1. /\ req \in Seq(RequestFrame) /\ rep \in Seq(ReplyFrame) /\ me \in WorkerRecord
      /\ ses \in SessionRecord
  BY <1>0 DEF Framed
<1>2. ses2 \in SessionRecord /\ ses2.stage = "idle" /\ ses2.incarnation = i
  BY DEF Idle, SessionRecord
<1>3. /\ req2 \in Seq(RequestFrame) /\ Len(req) \in Nat /\ Len(req) >= 1
      /\ req2 = Tail(req) /\ rep2 = Answered(me, rep, x)
      /\ Len(req2) = Len(req) - 1 /\ \A j \in 1 .. Len(req) - 1 : req2[j] = req[j + 1]
  BY <1>1, TailFacts
<1>4. \A j \in 1 .. Len(req2) : j + 1 \in 1 .. Len(req) /\ req2[j] = req[j + 1]
  BY <1>3
<1>5. ses.stage # "ended"
  BY <1>0 DEF Stage
<1>6. n \in 1 .. Len(Program) + 1 /\ n \in Nat /\ k \in {0, 1}
  BY <1>1, ProgramFacts, SetupFacts, ServeAssumption DEF WorkerRecord
<1> HIDE DEF req2, rep2, ses2, k, n
<1>7. /\ \A j \in 1 .. Len(req2) : req2[j].op = "PUBLISH" => req2[j].category \in Category
      /\ \A j \in 1 .. Len(req2) : req2[j].op = "PREPARE" => n >= 3
  BY <1>0, <1>4 DEF InOrder, Enrolled, n
<1>8. CASE me.pc \notin Live
  <2>1. rep2 = rep /\ rep = <<>> /\ Len(req) <= Serve + 1
    BY <1>0, <1>1, <1>3, <1>8 DEF InOrder, Live, WorkerRecord, Answered
  <2>2. Len(req2) <= Serve + 1
    BY <1>3, <2>1, ServeAssumption
  <2>3. me.pc \notin {"send", "recv", "done"}
    BY <1>8 DEF Live
  <2>4. InOrder(me, req2, rep2)
    BY <1>7, <2>1, <2>2, <2>3 DEF InOrder, Live
  <2>5. Enrolled(me, ses2, req2, rep2)
    BY <1>0, <1>2, <1>5, <1>7, <2>3 DEF Enrolled, Holds, n
  <2>6. Framed(me, ses2, req2, rep2) /\ Stage(ses2, req2)
    BY <1>1, <1>2, <1>3, <2>1 DEF Framed, Stage
  <2> QED BY <2>4, <2>5, <2>6 DEF Link, ses2, req2, rep2
<1>9. CASE me.pc \in Live
  <2>1. rep2 = Append(rep, x)
    BY <1>3, <1>9 DEF Live, Answered
  <2>2. /\ rep2 \in Seq(ReplyFrame) /\ Len(rep) \in Nat /\ Len(rep2) = Len(rep) + 1
        /\ \A j \in 1 .. Len(rep) : rep2[j] = rep[j] /\ rep2[Len(rep) + 1] = x
    BY <1>1, <2>1, AppendFacts
  <2>3. rep2[1] = IF rep = <<>> THEN x ELSE rep[1]
    <3>1. CASE rep = <<>>
      <4>1. Len(rep) + 1 = 1 /\ rep2[Len(rep) + 1] = x
        BY <1>1, <2>1, <3>1, AppendFacts, EmptySeq
      <4> QED BY <3>1, <4>1
    <3>2. CASE rep # <<>>
      <4>1. 1 \in 1 .. Len(rep)
        BY <1>1, <3>2, EmptySeq
      <4> QED BY <2>2, <3>2, <4>1
    <3> QED BY <3>1, <3>2
  <2>4. Order(n, k, req, rep)
    BY <1>0, <1>9 DEF InOrder, n, k
  <2>5. Order(n, k, req2, rep2)
    BY <1>1, <1>3, <1>6, <2>1, <2>4, OrderAnswers
  <2>6. InOrder(me, req2, rep2)
    BY <1>0, <1>7, <1>9, <2>5 DEF InOrder, n, k
  <2>7. n = 2 /\ rep = <<>> => req[1].op = "REGISTER"
    <3> SUFFICES ASSUME n = 2, rep = <<>> PROVE req[1].op = "REGISTER"
      OBVIOUS
    <3>1. Read(2) = 1 /\ Len(rep) = 0
      BY SetupFacts, EmptySeq DEF Read, Unread, L
    <3>2. req[1].op = Program[Read(2) + Len(rep) + 1].op
      BY <1>3, <2>4 DEF Order
    <3>3. Program[2].op = "REGISTER"
      <4>1. 2 \in 1 .. Len(Program)
        BY ProgramFacts, SetupFacts, ServeAssumption
      <4> QED BY <4>1, ProgramPlaces
    <3> QED BY <3>1, <3>2, <3>3
  <2>8. Enrolled(me, ses2, req2, rep2)
    <3>1. n >= 3 => i # 0
      BY <1>0, <1>5 DEF Enrolled, Holds, n
    <3>2. me.pc = "recv" /\ n = 2 /\ rep2[1].ok => i # 0
      BY <1>0, <2>3, <2>7 DEF Enrolled, Holds, n
    <3> QED BY <1>2, <1>7, <3>1, <3>2 DEF Enrolled, n
  <2>9. Framed(me, ses2, req2, rep2) /\ Stage(ses2, req2)
    BY <1>1, <1>2, <1>3, <2>2 DEF Framed, Stage
  <2> QED BY <2>6, <2>8, <2>9 DEF Link, ses2, req2, rep2
<1> QED BY <1>8, <1>9

LEMMA EndLink ==
  ASSUME NEW me, NEW ses, NEW rep, NEW req, Link(me, ses, req, rep), req = <<>>,
         me.pc \in {"exited", "crashed"}
  PROVE  Link(me, [Idle EXCEPT !.stage = "ended"], req, rep)
<1> DEFINE ses2 == [Idle EXCEPT !.stage = "ended"]
<1>0. /\ Framed(me, ses, req, rep) /\ InOrder(me, req, rep) /\ Enrolled(me, ses, req, rep)
  BY DEF Link
<1>1. ses2 \in SessionRecord /\ ses2.stage = "ended"
  BY DEF Idle, SessionRecord
<1> HIDE DEF ses2
<1>2. Framed(me, ses2, req, rep) /\ Stage(ses2, req)
  BY <1>0, <1>1 DEF Framed, Stage
<1>3. Enrolled(me, ses2, req, rep)
  BY <1>0, <1>1 DEF Enrolled, Live
<1> QED BY <1>0, <1>2, <1>3 DEF Link, ses2

-----------------------------------------------------------------------------
(* All workers and sessions *)

Domains ==
  /\ DOMAIN worker = Worker /\ DOMAIN session = Worker
  /\ DOMAIN requests = Worker /\ DOMAIN replies = Worker

Linked ==
  Domains /\ \A w \in Worker : Link(worker[w], session[w], requests[w], replies[w])

\* Worker w, its session and the frames between them become these; the others
\* stay as they are.
Becomes(w, me, ses, req, rep) ==
  /\ Domains'
  /\ worker'[w] = me /\ session'[w] = ses /\ requests'[w] = req /\ replies'[w] = rep
  /\ \A v \in Worker \ {w} :
       /\ worker'[v] = worker[v] /\ session'[v] = session[v]
       /\ requests'[v] = requests[v] /\ replies'[v] = replies[v]

LEMMA LinkedUpdate ==
  ASSUME Linked, NEW w \in Worker, NEW me, NEW ses, NEW req, NEW rep,
         Becomes(w, me, ses, req, rep), Link(me, ses, req, rep)
  PROVE  Linked'
<1>1. ASSUME NEW v \in Worker
      PROVE  Link(worker'[v], session'[v], requests'[v], replies'[v])
  BY DEF Becomes, Linked
<1> QED BY <1>1 DEF Becomes, Linked

LEMMA SendStep ==
  ASSUME Linked, NEW w \in Worker, Send(w)
  PROVE  \E me2, req2 :
           /\ Becomes(w, me2, session[w], req2, replies[w])
           /\ me2 = IF Awaited(Program[worker[w].step].op)
                    THEN [worker[w] EXCEPT !.pc = "recv"]
                    ELSE AtStep(worker[w], worker[w].step + 1)
           /\ req2 = Append(requests[w], Request(w))
           /\ Link(me2, session[w], req2, replies[w])
<1> DEFINE me == worker[w]
           me2 == IF Awaited(Program[me.step].op) THEN [me EXCEPT !.pc = "recv"]
                                                  ELSE AtStep(me, me.step + 1)
           req2 == Append(requests[w], Request(w))
<1>1. /\ me.pc = "send" /\ worker' = [worker EXCEPT ![w] = me2]
      /\ requests' = [requests EXCEPT ![w] = req2]
      /\ session' = session /\ replies' = replies
  BY DEF Send
<1>2. Link(me, session[w], requests[w], replies[w]) /\ Domains
  BY DEF Linked
<1>3. /\ Request(w) \in RequestFrame
      /\ Request(w).op = Program[me.step].op
      /\ Request(w).category = Program[me.step].category
  <2>1. me \in WorkerRecord /\ me.step \in 1 .. Len(Program)
    BY <1>1, <1>2 DEF Link, Framed, InOrder
  <2>2. Program[me.step] \in Instruction /\ me.rgen \in Nat /\ me.use \in Nat
    BY <2>1, ProgramPlaces DEF WorkerRecord
  <2> QED BY <2>2 DEF Request, RequestFrame, Instruction
<1>4. Link(me2, session[w], req2, replies[w])
  BY <1>1, <1>2, <1>3, SendLink
<1> HIDE DEF me2, req2
<1>5. Becomes(w, me2, session[w], req2, replies[w])
  BY <1>1, <1>2 DEF Becomes, Domains
<1> QED BY <1>4, <1>5 DEF me2, req2

LEMMA RecvStep ==
  ASSUME Linked, NEW w \in Worker, Recv(w)
  PROVE  \E me2 :
           /\ Becomes(w, me2, session[w], requests[w], Tail(replies[w]))
           /\ Link(me2, session[w], requests[w], Tail(replies[w]))
           /\ worker[w].pc = "recv" /\ replies[w] # <<>>
           /\ RecvOutcome(worker[w], replies[w][1], me2)
           /\ me2.use = IF Program[worker[w].step].op = "ACQUIRE"
                        THEN Field(replies[w][1], "ACQUIRE", 0) ELSE worker[w].use
<1> DEFINE me    == worker[w]
           n     == me.step
           op    == Program[n].op
           reply == Head(replies[w])
           rgen2 == Field(reply, "REGISTER", 1)
           use2  == Field(reply, "ACQUIRE", 0)
           me2   == CASE op = "REGISTER" /\ ~reply.ok -> [me EXCEPT !.pc = "exited"]
                      [] op = "REGISTER" /\ reply.ok ->
                           AtStep([me EXCEPT !.rgen = rgen2], n + 1)
                      [] op = "QUERY" /\ Field(reply, "QUERY", 0) = 0 -> AtStep(me, n + 2)
                      [] op = "ACQUIRE" -> AtStep([me EXCEPT !.use = use2], n + 1)
                      [] OTHER -> AtStep(me, n + 1)
<1>1. /\ me.pc = "recv" /\ replies[w] # <<>>
      /\ worker' = [worker EXCEPT ![w] = me2]
      /\ replies' = [replies EXCEPT ![w] = Tail(replies[w])]
      /\ session' = session /\ requests' = requests
  BY DEF Recv
<1>2. Link(me, session[w], requests[w], replies[w]) /\ Domains
  BY DEF Linked
<1>3. me \in WorkerRecord /\ n \in 1 .. Len(Program) /\ replies[w] \in Seq(ReplyFrame)
      /\ n + 1 \in 1 .. Len(Program) + 1
  <2>1. me \in WorkerRecord /\ replies[w] \in Seq(ReplyFrame)
    BY <1>2 DEF Link, Framed
  <2>2. n \in 1 .. Len(Program)
    BY <1>1, <1>2 DEF Link, InOrder
  <2>3. Len(Program) \in Nat
    BY ProgramFacts, SetupFacts, ServeAssumption
  <2> HIDE DEF n
  <2>4. n + 1 \in 1 .. Len(Program) + 1
    BY <2>2, <2>3
  <2> QED BY <2>1, <2>2, <2>4
<1>4. reply = replies[w][1] /\ reply \in ReplyFrame
  BY <1>1, <1>3, TailFacts
<1>5. rgen2 \in Nat /\ use2 \in Nat
  BY <1>4 DEF Field, ReplyFrame
<1>6. /\ [me EXCEPT !.rgen = rgen2] \in WorkerRecord
      /\ [me EXCEPT !.use = use2] \in WorkerRecord
      /\ [me EXCEPT !.rgen = rgen2].use = me.use
      /\ [me EXCEPT !.use = use2].use = use2
      /\ [me EXCEPT !.pc = "exited"].use = me.use
  BY <1>3, <1>5 DEF WorkerRecord
<1>7. n + 2 \in 1 .. Len(Program) + 1 \/ op # "QUERY"
  BY <1>3, ProgramPlaces, ProgramFacts, SetupFacts, ServeAssumption
<1> HIDE DEF rgen2, use2, reply
<1>8. RecvOutcome(me, reply, me2)
  <2>1. CASE op = "REGISTER" /\ ~reply.ok
    BY <2>1 DEF RecvOutcome
  <2>2. CASE op = "REGISTER" /\ reply.ok
    <3>1. me2 = AtStep([me EXCEPT !.rgen = rgen2], n + 1)
      BY <2>2
    <3> HIDE DEF me2
    <3> QED BY <1>6, <2>2, <3>1 DEF RecvOutcome
  <2>3. CASE op = "QUERY" /\ Field(reply, "QUERY", 0) = 0
    BY <2>3 DEF RecvOutcome
  <2>4. CASE op = "ACQUIRE"
    <3>1. me2 = AtStep([me EXCEPT !.use = use2], n + 1)
      BY <2>4
    <3> HIDE DEF me2
    <3> QED BY <1>6, <2>4, <3>1 DEF RecvOutcome
  <2>5. CASE op \notin {"REGISTER", "ACQUIRE"} /\ ~(op = "QUERY" /\ Field(reply, "QUERY", 0) = 0)
    <3>1. me2 = AtStep(me, n + 1)
      BY <2>5
    <3> HIDE DEF me2
    <3> QED BY <1>3, <2>5, <3>1 DEF RecvOutcome
  <2> QED BY <2>1, <2>2, <2>3, <2>4, <2>5
<1>9. me2.use = IF op = "ACQUIRE" THEN use2 ELSE me.use
  <2>1. CASE op = "REGISTER" /\ ~reply.ok
    BY <1>6, <2>1
  <2>2. CASE op = "REGISTER" /\ reply.ok
    <3>1. me2 = AtStep([me EXCEPT !.rgen = rgen2], n + 1)
      BY <2>2
    <3> QED BY <1>3, <1>6, <2>2, <3>1, AtStepFacts
  <2>3. CASE op = "QUERY" /\ Field(reply, "QUERY", 0) = 0
    <3>1. me2 = AtStep(me, n + 2)
      BY <2>3
    <3> QED BY <1>3, <1>7, <2>3, <3>1, AtStepFacts
  <2>4. CASE op = "ACQUIRE"
    <3>1. me2 = AtStep([me EXCEPT !.use = use2], n + 1)
      BY <2>4
    <3> QED BY <1>3, <1>6, <2>4, <3>1, AtStepFacts
  <2>5. CASE op \notin {"REGISTER", "ACQUIRE"} /\ ~(op = "QUERY" /\ Field(reply, "QUERY", 0) = 0)
    <3>1. me2 = AtStep(me, n + 1)
      BY <2>5
    <3> QED BY <1>3, <2>5, <3>1, AtStepFacts
  <2> QED BY <2>1, <2>2, <2>3, <2>4, <2>5
<1> HIDE DEF me2
<1>10. Link(me2, session[w], requests[w], Tail(replies[w]))
  BY <1>1, <1>2, <1>4, <1>8, RecvLink
<1>11. Becomes(w, me2, session[w], requests[w], Tail(replies[w]))
  BY <1>1, <1>2 DEF Becomes, Domains
<1> QED BY <1>1, <1>4, <1>8, <1>9, <1>10, <1>11 DEF use2

LEMMA CrashStep ==
  ASSUME Linked, NEW w \in Worker, Crash(w)
  PROVE  \E req2 :
           LET me2 == [worker[w] EXCEPT !.pc = "crashed"] IN
           Becomes(w, me2, session[w], req2, <<>>) /\ Link(me2, session[w], req2, <<>>)
<1> DEFINE me2 == [worker[w] EXCEPT !.pc = "crashed"]
<1>1. worker[w].pc \in Live
  BY DEF Crash, Running, Live
<1>2. PICK n \in (IF session[w].stage = "idle" THEN 0 ELSE 1) .. Len(requests[w]) :
        /\ requests' = [requests EXCEPT ![w] = SubSeq(requests[w], 1, n)]
        /\ worker' = [worker EXCEPT ![w] = me2]
        /\ replies' = [replies EXCEPT ![w] = <<>>] /\ session' = session
  BY DEF Crash
<1>3. Link(worker[w], session[w], requests[w], replies[w]) /\ Domains
  BY DEF Linked
<1>4. Link(me2, session[w], SubSeq(requests[w], 1, n), <<>>)
  BY <1>1, <1>3, CrashLink
<1> HIDE DEF me2
<1>5. Becomes(w, me2, session[w], SubSeq(requests[w], 1, n), <<>>)
  BY <1>2, <1>3 DEF Becomes, Domains
<1> QED BY <1>4, <1>5 DEF me2

LEMMA AnswerStep ==
  ASSUME Linked, NEW w \in Worker, NEW ok \in BOOLEAN, NEW value \in Nat, NEW i \in Nat,
         Answer(w, ok, value, i), requests[w] # <<>>,
         Holds(session[w].incarnation, Head(requests[w]).op, ok, i)
  PROVE  LET ses2 == [Idle EXCEPT !.incarnation = i]
             x    == [of |-> Head(requests[w]).op, ok |-> ok, value |-> value]
             rep2 == Answered(worker[w], replies[w], x)
         IN
         /\ ses2.incarnation = i /\ ses2.stage = "idle"
         /\ x \in ReplyFrame /\ Head(requests[w]) = requests[w][1]
         /\ Becomes(w, worker[w], ses2, Tail(requests[w]), rep2)
         /\ Link(worker[w], ses2, Tail(requests[w]), rep2)
<1> DEFINE ses2 == [Idle EXCEPT !.incarnation = i]
           x == [of |-> Head(requests[w]).op, ok |-> ok, value |-> value]
           rep2 == Answered(worker[w], replies[w], x)
<1>1. Link(worker[w], session[w], requests[w], replies[w]) /\ Domains
  BY DEF Linked
<1>2. requests[w] \in Seq(RequestFrame)
  BY <1>1 DEF Link, Framed
<1>3. Head(requests[w]) = requests[w][1] /\ requests[w][1] \in RequestFrame
  BY <1>2, TailFacts
<1>4. x \in ReplyFrame /\ x.of = requests[w][1].op /\ x.ok = ok /\ x.value = value
  BY <1>3 DEF ReplyFrame, RequestFrame
<1>5. /\ session' = [session EXCEPT ![w] = ses2] /\ worker' = worker
      /\ requests' = [requests EXCEPT ![w] = Tail(requests[w])]
      /\ replies' = IF Gone(w) THEN replies
                    ELSE [replies EXCEPT ![w] = Append(replies[w], x)]
  BY DEF Answer
<1>6. ses2.incarnation = i /\ ses2.stage = "idle"
  BY DEF Idle
<1> HIDE DEF x
<1>7. Link(worker[w], ses2, Tail(requests[w]), rep2)
  <2>1. Holds(session[w].incarnation, requests[w][1].op, x.ok, i)
    BY <1>3, <1>4
  <2>2. x \in ReplyFrame /\ x.of = requests[w][1].op
    BY <1>4
  <2> QED BY <1>1, <2>1, <2>2, AnswerLink
<1> HIDE DEF ses2
<1>8. Becomes(w, worker[w], ses2, Tail(requests[w]), rep2)
  <2>1. DOMAIN replies' = Worker /\ replies'[w] = rep2
        /\ \A v \in Worker \ {w} : replies'[v] = replies[v]
    BY <1>1, <1>5 DEF Domains, Gone, Answered
  <2> HIDE DEF rep2
  <2> QED BY <1>1, <1>5, <2>1 DEF Becomes, Domains
<1> QED BY <1>3, <1>4, <1>6, <1>7, <1>8 DEF ses2, x

LEMMA EndStep ==
  ASSUME Linked, NEW w \in Worker, EndSession(w)
  PROVE  LET ses2 == [Idle EXCEPT !.stage = "ended"] IN
         /\ Becomes(w, worker[w], ses2, requests[w], replies[w])
         /\ Link(worker[w], ses2, requests[w], replies[w])
         /\ ses2.incarnation = 0 /\ ses2.stage = "ended"
<1> DEFINE ses2 == [Idle EXCEPT !.stage = "ended"]
<1>1. /\ session' = [session EXCEPT ![w] = ses2]
      /\ worker' = worker /\ requests' = requests /\ replies' = replies
      /\ worker[w].pc \in {"exited", "crashed"} /\ requests[w] = <<>>
  BY DEF EndSession, channels, Gone
<1>2. Link(worker[w], session[w], requests[w], replies[w]) /\ Domains
  BY DEF Linked
<1>3. Link(worker[w], ses2, requests[w], replies[w])
  BY <1>1, <1>2, EndLink
<1>4. ses2.incarnation = 0 /\ ses2.stage = "ended"
  BY DEF Idle
<1> HIDE DEF ses2
<1>5. Becomes(w, worker[w], ses2, requests[w], replies[w])
  BY <1>1, <1>2 DEF Becomes, Domains
<1> QED BY <1>3, <1>4, <1>5 DEF ses2

-----------------------------------------------------------------------------
(* Sessions and the runtime *)

\* What a session holds is there: its incarnation, which is of its worker, and
\* the permit, the plan or the attempt it has come to.
Refers(ses, w, inc, per, pl, at) ==
  /\ ses.incarnation # 0 => ses.incarnation \in DOMAIN inc /\ inc[ses.incarnation].worker = w
  /\ ses.stage = "register" => ses.id \in DOMAIN per /\ per[ses.id].worker = w
  /\ ses.stage = "begin" => ses.id \in DOMAIN pl
  /\ ses.stage = "step" => ses.id \in DOMAIN at

References ==
  \A w \in Worker : Refers(session[w], w, incarnations, permits, plans, attempts)

WorkerInv == TypeOK /\ PreparationInv /\ GenerationsBounded /\ Linked /\ References

\* Nothing is erased, and nothing changes hands.
LEMMA RuntimeGrows ==
  ASSUME TypeOK, RecordsType, [PrepNext]_runtime
  PROVE  /\ \A i \in DOMAIN incarnations :
              i \in DOMAIN incarnations' /\ incarnations'[i].worker = incarnations[i].worker
         /\ \A p \in DOMAIN permits :
              p \in DOMAIN permits' /\ permits'[p].worker = permits[p].worker
         /\ DOMAIN plans \subseteq DOMAIN plans' /\ DOMAIN attempts \subseteq DOMAIN attempts'
<1>1. [Next]_vars
  BY PrepStepsAreSteps DEF runtime
<1>2. DOMAIN incarnations \subseteq DOMAIN incarnations'
  BY <1>1, IncarnationsGrow
<1>3. ASSUME NEW i \in DOMAIN incarnations
      PROVE  incarnations'[i].worker = incarnations[i].worker
  <2>1. CASE \E w \in Worker, b \in Boot : FenceWorker(w, b)
    BY <2>1, TypeWellFormed, FenceEffect
  <2>2. CASE ~ \E w \in Worker, b \in Boot : FenceWorker(w, b)
    <3>1. Evolved(incarnations[i], incarnations'[i])
      BY <1>1, <2>2, IncarnationsEvolve
    <3> QED BY <3>1 DEF Evolved
  <2> QED BY <2>1, <2>2
<1>4. ASSUME NEW p \in DOMAIN permits
      PROVE  p \in DOMAIN permits' /\ permits'[p].worker = permits[p].worker
  <2>0. permits \in [DOMAIN permits -> Permit] /\ ids.permit + 1 \notin DOMAIN permits
    BY DEF TypeOK, PermitsType, AuthorityType
  <2>1. CASE UNCHANGED permits
    BY <2>1
  <2>2. ASSUME NEW w \in Worker, NEW b \in Boot, IssueRegistrationPermit(w, b)
        PROVE  p \in DOMAIN permits' /\ permits'[p].worker = permits[p].worker
    <3>1. PICK x : permits' = Put(permits, ids.permit + 1, x)
      BY <2>2 DEF IssueRegistrationPermit
    <3> QED BY <2>0, <3>1 DEF Put
  <2>3. ASSUME NEW q \in DOMAIN permits, NEW e \in Engine, RegisterIncarnation(q, e)
        PROVE  p \in DOMAIN permits' /\ permits'[p].worker = permits[p].worker
    <3>1. permits' = [permits EXCEPT ![q] = [permits[q] EXCEPT !.consumed = TRUE]]
      BY <2>3 DEF RegisterIncarnation
    <3> QED BY <2>0, <3>1 DEF Permit
  <2> QED BY <1>1, <2>1, <2>2, <2>3, PermitSteps
<1>5. DOMAIN plans \subseteq DOMAIN plans' /\ DOMAIN attempts \subseteq DOMAIN attempts'
  <2>1. CASE UNCHANGED prepVars
    BY <2>1 DEF prepVars
  <2>2. ASSUME NEW i \in DOMAIN incarnations, CreatePreparationPlan(i)
        PROVE  DOMAIN plans \subseteq DOMAIN plans' /\ attempts' = attempts
    BY <2>2 DEF CreatePreparationPlan, Put
  <2>3. ASSUME NEW p \in DOMAIN plans, BeginPreparation(p)
        PROVE  plans' = plans /\ DOMAIN attempts \subseteq DOMAIN attempts'
    BY <2>3 DEF BeginPreparation, Put
  <2>4. ASSUME NEW a \in DOMAIN attempts,
               \/ StepPreparation(a) \/ CompletePreparation(a)
               \/ CancelPreparation(a) \/ RollbackPreparation(a)
        PROVE  plans' = plans /\ DOMAIN attempts = DOMAIN attempts'
    <3>1. plans' = plans
      BY <2>4 DEF StepPreparation, CompletePreparation, CancelPreparation,
                  RollbackPreparation
    <3>2. PICK at : attempts' = [attempts EXCEPT ![a] = at]
      BY <2>4, AttemptWrites
    <3> QED BY <3>1, <3>2
  <2> QED BY <2>1, <2>2, <2>3, <2>4 DEF PrepNext, runtime, prepVars
<1> QED BY <1>2, <1>3, <1>4, <1>5

LEMMA RefersGrows ==
  ASSUME TypeOK, RecordsType, [PrepNext]_runtime, NEW ses, NEW w,
         Refers(ses, w, incarnations, permits, plans, attempts)
  PROVE  Refers(ses, w, incarnations', permits', plans', attempts')
BY RuntimeGrows DEF Refers

\* A step of w or of its session is one of the runtime with preparation, and
\* keeps w and its session together.
Keeps(w) ==
  /\ [PrepNext]_runtime
  /\ Linked'
  /\ Refers(session'[w], w, incarnations', permits', plans', attempts')
  /\ \A v \in Worker \ {w} : session'[v] = session[v]

LEMMA ReplyKeeps ==
  ASSUME WorkerInv, NEW w \in Worker, NEW ok \in BOOLEAN, NEW value \in Nat,
         Answer(w, ok, value, session[w].incarnation), requests[w] # <<>>,
         ok => Head(requests[w]).op # "REGISTER", [PrepNext]_runtime
  PROVE  Keeps(w)
<1> DEFINE i == session[w].incarnation
<1>0. TypeOK /\ RecordsType /\ Linked
  BY DEF WorkerInv, PreparationInv, PreparationTypeOK
<1>1. i \in Nat
  BY <1>0 DEF Linked, Link, Framed, SessionRecord
<1> DEFINE ses2 == [Idle EXCEPT !.incarnation = i]
           x    == [of |-> Head(requests[w]).op, ok |-> ok, value |-> value]
           req2 == Tail(requests[w])
           rep2 == Answered(worker[w], replies[w], x)
<1>2. /\ ses2.incarnation = i /\ ses2.stage = "idle"
      /\ Becomes(w, worker[w], ses2, req2, rep2)
      /\ Link(worker[w], ses2, req2, rep2)
  <2>1. Holds(i, Head(requests[w]).op, ok, i)
    BY DEF Holds
  <2> QED BY <1>0, <1>1, <2>1, AnswerStep
<1> HIDE DEF ses2, req2, rep2
<1>3. Linked'
  BY <1>0, <1>2, LinkedUpdate
<1>4. Refers(session[w], w, incarnations', permits', plans', attempts')
  BY <1>0, RefersGrows DEF WorkerInv, References
<1>5. session'[w] = ses2 /\ \A v \in Worker \ {w} : session'[v] = session[v]
  BY <1>2 DEF Becomes
<1>6. Refers(ses2, w, incarnations', permits', plans', attempts')
  BY <1>2, <1>4 DEF Refers
<1> QED BY <1>3, <1>5, <1>6 DEF Keeps

LEMMA RefusedKeeps ==
  ASSUME WorkerInv, NEW w \in Worker, Refuse(w), UNCHANGED runtime, requests[w] # <<>>
  PROVE  Keeps(w)
<1>1. Answer(w, FALSE, 0, session[w].incarnation)
  BY DEF Refuse
<1> QED BY <1>1, ReplyKeeps

LEMMA GotoKeeps ==
  ASSUME WorkerInv, NEW w \in Worker, NEW id \in Nat, NEW left \in Nat,
         NEW stage \in {"register", "begin", "step", "operation"},
         Goto(w, stage, id, left), requests[w] # <<>>,
         Fits(stage, Head(requests[w]).op, session[w].incarnation),
         [PrepNext]_runtime,
         stage = "register" => id \in DOMAIN permits' /\ permits'[id].worker = w,
         stage = "begin" => id \in DOMAIN plans',
         stage = "step" => id \in DOMAIN attempts'
  PROVE  Keeps(w)
<1>0. TypeOK /\ RecordsType /\ Linked
  BY DEF WorkerInv, PreparationInv, PreparationTypeOK
<1> DEFINE ses2 == [session[w] EXCEPT !.stage = stage, !.id = id, !.left = left]
<1>1. /\ ses2.incarnation = session[w].incarnation /\ ses2.stage = stage /\ ses2.id = id
      /\ Becomes(w, worker[w], ses2, requests[w], replies[w])
      /\ Link(worker[w], ses2, requests[w], replies[w])
  <2>1. Link(worker[w], session[w], requests[w], replies[w]) /\ Domains
    BY <1>0 DEF Linked
  <2>2. requests[w] \in Seq(RequestFrame) /\ session[w] \in SessionRecord
    BY <2>1 DEF Link, Framed
  <2>3. Head(requests[w]) = requests[w][1]
    BY <2>2, TailFacts
  <2>4. Link(worker[w], ses2, requests[w], replies[w])
    BY <2>1, <2>3, GotoLink
  <2>5. ses2.incarnation = session[w].incarnation /\ ses2.stage = stage /\ ses2.id = id
    BY <2>2 DEF SessionRecord
  <2> HIDE DEF ses2
  <2>6. /\ session' = [session EXCEPT ![w] = ses2]
        /\ worker' = worker /\ requests' = requests /\ replies' = replies
    BY DEF Goto, channels, ses2
  <2>7. Becomes(w, worker[w], ses2, requests[w], replies[w])
    BY <2>1, <2>6 DEF Becomes, Domains
  <2> QED BY <2>4, <2>5, <2>7
<1> HIDE DEF ses2
<1>2. Linked'
  BY <1>0, <1>1, LinkedUpdate
<1>3. Refers(session[w], w, incarnations', permits', plans', attempts')
  BY <1>0, RefersGrows DEF WorkerInv, References
<1>4. session'[w] = ses2 /\ \A v \in Worker \ {w} : session'[v] = session[v]
  BY <1>1 DEF Becomes
<1>5. Refers(ses2, w, incarnations', permits', plans', attempts')
  BY <1>1, <1>3 DEF Refers
<1> QED BY <1>2, <1>4, <1>5 DEF Keeps

\* A session about to handle a request.
LEMMA HandledRequest ==
  ASSUME WorkerInv, NEW w \in Worker, NEW ops, NEW stage, Handles(w, ops, stage)
  PROVE  /\ session[w].stage = stage /\ requests[w] # <<>>
         /\ Head(requests[w]) = requests[w][1] /\ Head(requests[w]) \in RequestFrame
         /\ Head(requests[w]).op \in ops
         /\ Head(requests[w]).op = "PUBLISH" => Head(requests[w]).category \in Category
         /\ Head(requests[w]).op = "PREPARE" => session[w].incarnation # 0
         /\ stage \in {"begin", "step", "operation"} => session[w].incarnation # 0
         /\ session[w].incarnation # 0 => /\ session[w].incarnation \in DOMAIN incarnations
                                          /\ incarnations[session[w].incarnation].worker = w
         /\ session[w] \in SessionRecord /\ session[w].incarnation \in Nat
<1>1. Link(worker[w], session[w], requests[w], replies[w])
  BY DEF WorkerInv, Linked
<1>2. /\ Framed(worker[w], session[w], requests[w], replies[w])
      /\ InOrder(worker[w], requests[w], replies[w]) /\ Stage(session[w], requests[w])
      /\ Enrolled(worker[w], session[w], requests[w], replies[w])
  BY <1>1 DEF Link
<1>3. session[w].stage = stage /\ requests[w] # <<>> /\ Head(requests[w]).op \in ops
  BY DEF Handles
<1>4. requests[w] \in Seq(RequestFrame) /\ session[w] \in SessionRecord
      /\ session[w].incarnation \in Nat
  BY <1>2 DEF Framed, SessionRecord
<1>5. Head(requests[w]) = requests[w][1] /\ requests[w][1] \in RequestFrame
      /\ 1 \in 1 .. Len(requests[w])
  BY <1>3, <1>4, TailFacts
<1>6. session[w].stage # "ended"
  BY <1>2, <1>3 DEF Stage
<1>7. Head(requests[w]).op = "PREPARE" => session[w].incarnation # 0
  BY <1>2, <1>5, <1>6 DEF Enrolled
<1>8. Head(requests[w]).op = "PUBLISH" => Head(requests[w]).category \in Category
  BY <1>2, <1>5 DEF InOrder
<1>9. stage \in {"begin", "step", "operation"} => session[w].incarnation # 0
  BY <1>2, <1>3 DEF Enrolled
<1>10. session[w].incarnation # 0 => /\ session[w].incarnation \in DOMAIN incarnations
                                     /\ incarnations[session[w].incarnation].worker = w
  BY DEF WorkerInv, References, Refers
<1> QED BY <1>3, <1>4, <1>5, <1>7, <1>8, <1>9, <1>10

LEMMA HelloKeeps ==
  ASSUME WorkerInv, NEW w \in Worker, Hello(w)
  PROVE  Keeps(w)
<1>1. /\ Handles(w, {"HELLO"}, "idle") /\ UNCHANGED runtime
      /\ Answer(w, TRUE, 0, session[w].incarnation)
  BY DEF Hello, Reply
<1>2. requests[w] # <<>> /\ Head(requests[w]).op = "HELLO"
  BY <1>1, HandledRequest
<1> QED BY <1>1, <1>2, ReplyKeeps

LEMMA IssuePermitKeeps ==
  ASSUME WorkerInv, NEW w \in Worker, IssuePermit(w)
  PROVE  Keeps(w)
<1>1. Handles(w, {"REGISTER"}, "idle")
  BY DEF IssuePermit
<1>2. requests[w] # <<>> /\ Head(requests[w]).op = "REGISTER"
  BY <1>1, HandledRequest
<1>3. CASE /\ IssueRegistrationPermit(w, 1) /\ UNCHANGED prepVars
           /\ Goto(w, "register", ids.permit + 1, 0)
  <2> DEFINE id == ids.permit + 1
  <2>1. id \in Nat /\ ids' = [ids EXCEPT !.permit = id]
    BY <1>3 DEF WorkerInv, TypeOK, AuthorityType, IssueRegistrationPermit
  <2>2. [PrepNext]_runtime
    BY <1>3, ServeAssumption DEF PrepNext, Operations
  <2>3. PICK x : permits' = Put(permits, id, x) /\ x.worker = w
    BY <1>3 DEF IssueRegistrationPermit
  <2>4. id \in DOMAIN permits' /\ permits'[id].worker = w
    BY <2>3 DEF Put
  <2> HIDE DEF id
  <2>5. Goto(w, "register", id, 0)
    BY <1>3 DEF id
  <2>6. Fits("register", Head(requests[w]).op, session[w].incarnation)
    BY <1>2 DEF Fits
  <2> QED BY <1>2, <2>1, <2>2, <2>4, <2>5, <2>6, GotoKeeps
<1>4. CASE Refused(w)
  BY <1>2, <1>4, RefusedKeeps DEF Refused
<1> QED BY <1>3, <1>4 DEF IssuePermit

LEMMA RegisterKeeps ==
  ASSUME WorkerInv, NEW w \in Worker, Register(w)
  PROVE  Keeps(w)
<1> DEFINE p == session[w].id
           i == ids.incarnation + 1
           g == incarnations'[i].readiness_generation
<1>1. Handles(w, {"REGISTER"}, "register")
  BY DEF Register
<1>2. requests[w] # <<>> /\ Head(requests[w]).op = "REGISTER" /\ session[w].stage = "register"
  BY <1>1, HandledRequest
<1>3. p \in DOMAIN permits /\ permits[p].worker = w
  BY <1>2 DEF WorkerInv, References, Refers
<1>4. TypeOK /\ RecordsType /\ Linked
  BY DEF WorkerInv, PreparationInv, PreparationTypeOK
<1>5. ASSUME NEW e \in Engine, RegisterIncarnation(p, e), UNCHANGED prepVars,
             Answer(w, TRUE, g, i)
      PROVE  Keeps(w)
  <2>1. /\ i \in Nat /\ DOMAIN incarnations' = DOMAIN incarnations \cup {i}
        /\ incarnations'[i].worker = w /\ g = 1
    <3> HIDE DEF p
    <3>1. PICK id \in Nat :
            /\ id = ids.incarnation + 1
            /\ DOMAIN incarnations' = DOMAIN incarnations \cup {id}
            /\ incarnations'[id].worker = permits[p].worker
            /\ incarnations'[id].readiness_generation = 1
      BY <1>3, <1>4, <1>5, RegisterNew
    <3> QED BY <1>3, <3>1
  <2>2. [PrepNext]_runtime
    BY <1>3, <1>5 DEF PrepNext, Operations
  <2>3. i # 0
    BY <1>4 DEF TypeOK, AuthorityType
  <2>0. Answer(w, TRUE, 1, i)
    BY <1>5, <2>1
  <2> HIDE DEF i, g, p
  <2> DEFINE ses2 == [Idle EXCEPT !.incarnation = i]
             x    == [of |-> Head(requests[w]).op, ok |-> TRUE, value |-> 1]
             req2 == Tail(requests[w])
             rep2 == Answered(worker[w], replies[w], x)
  <2>4. /\ ses2.incarnation = i /\ ses2.stage = "idle"
        /\ Becomes(w, worker[w], ses2, req2, rep2)
        /\ Link(worker[w], ses2, req2, rep2)
    <3>1. i \in Nat /\ i # 0 /\ TRUE \in BOOLEAN /\ 1 \in Nat
      BY <2>1, <2>3
    <3>2. requests[w] # <<>> /\ Linked
      BY <1>2, <1>4
    <3>3. Holds(session[w].incarnation, Head(requests[w]).op, TRUE, i)
      BY <2>3 DEF Holds
    <3> QED BY <2>0, <3>1, <3>2, <3>3, AnswerStep
  <2> HIDE DEF ses2, req2, rep2
  <2>5. Linked'
    BY <1>4, <2>4, LinkedUpdate
  <2>6. session'[w] = ses2 /\ \A v \in Worker \ {w} : session'[v] = session[v]
    BY <2>4 DEF Becomes
  <2>7. Refers(ses2, w, incarnations', permits', plans', attempts')
    BY <2>1, <2>4 DEF Refers
  <2> QED BY <2>2, <2>5, <2>6, <2>7 DEF Keeps
<1>6. CASE Refused(w)
  BY <1>2, <1>6, RefusedKeeps DEF Refused
<1> QED BY <1>5, <1>6 DEF Register

LEMMA PrepareKeeps ==
  ASSUME WorkerInv, NEW w \in Worker, Prepare(w)
  PROVE  Keeps(w)
<1> DEFINE me == session[w]
           i  == me.incarnation
<1>0. /\ TypeOK /\ RecordsType /\ PreparationInv
      /\ Refers(me, w, incarnations, permits, plans, attempts)
  BY DEF WorkerInv, PreparationInv, PreparationTypeOK, References
<1>1. ASSUME NEW stage, Handles(w, {"PREPARE"}, stage)
      PROVE  /\ me.stage = stage /\ requests[w] # <<>> /\ Head(requests[w]).op = "PREPARE"
             /\ i # 0 /\ i \in DOMAIN incarnations /\ i \in Nat /\ me \in SessionRecord
             /\ Fits("begin", Head(requests[w]).op, i)
             /\ Fits("step", Head(requests[w]).op, i)
  <2>1. /\ me.stage = stage /\ requests[w] # <<>> /\ Head(requests[w]).op = "PREPARE"
        /\ i # 0 /\ i \in DOMAIN incarnations /\ i \in Nat /\ me \in SessionRecord
    BY <1>1, HandledRequest
  <2> QED BY <2>1 DEF Fits
<1>2. Cardinality(DOMAIN plans) \in Nat /\ Cardinality(DOMAIN attempts) \in Nat
  <2>1. IsFiniteSet(DOMAIN plans) /\ Numbered(attempts)
    BY <1>0 DEF RecordsType, PreparationInv
  <2>2. PICK n \in Nat : DOMAIN attempts = 1 .. n
    BY <2>1 DEF Numbered
  <2>3. IsFiniteSet(DOMAIN attempts)
    BY <2>2, FS_Interval
  <2> QED BY <2>1, <2>3, FS_CardinalityType
<1>3. ASSUME Handles(w, {"PREPARE"}, "idle"), CreatePreparationPlan(i),
             Goto(w, "begin", Cardinality(DOMAIN plans) + 1, 0)
      PROVE  Keeps(w)
  <2> DEFINE k == Cardinality(DOMAIN plans) + 1
  <2>1. [PrepNext]_runtime
    BY <1>1, <1>3 DEF PrepNext
  <2>2. k \in Nat /\ k \in DOMAIN plans'
    BY <1>2, <1>3 DEF CreatePreparationPlan, Put
  <2>3. Goto(w, "begin", k, 0)
    BY <1>3
  <2> HIDE DEF k
  <2> QED BY <1>1, <1>3, <2>1, <2>2, <2>3, GotoKeeps
<1>4. ASSUME Handles(w, {"PREPARE"}, "begin"), BeginPreparation(me.id),
             Goto(w, "step", Cardinality(DOMAIN attempts) + 1, plans[me.id].steps + 1)
      PROVE  Keeps(w)
  <2> DEFINE k == Cardinality(DOMAIN attempts) + 1
             n == plans[me.id].steps + 1
  <2>1. me.id \in DOMAIN plans
    BY <1>0, <1>1, <1>4 DEF Refers
  <2>2. [PrepNext]_runtime
    BY <1>4, <2>1 DEF PrepNext
  <2>3. n \in Nat
    BY <1>0, <2>1 DEF RecordsType, Plan
  <2>4. k \in Nat /\ k \in DOMAIN attempts'
    BY <1>2, <1>4 DEF BeginPreparation, Put
  <2>5. Goto(w, "step", k, n)
    BY <1>4
  <2> HIDE DEF k, n
  <2> QED BY <1>1, <1>4, <2>2, <2>3, <2>4, <2>5, GotoKeeps
<1>5. ASSUME Handles(w, {"PREPARE"}, "step"), me.left > 0, StepPreparation(me.id),
             Goto(w, "step", me.id, me.left - 1)
      PROVE  Keeps(w)
  <2> DEFINE k == me.id
             n == me.left - 1
  <2>1. k \in DOMAIN attempts
    BY <1>0, <1>1, <1>5 DEF Refers
  <2>2. [PrepNext]_runtime
    BY <1>5, <2>1 DEF PrepNext
  <2>3. k \in Nat /\ n \in Nat
    BY <1>1, <1>5 DEF SessionRecord
  <2>4. k \in DOMAIN attempts'
    BY <1>0, <2>1, <2>2, RuntimeGrows
  <2>5. Goto(w, "step", k, n)
    BY <1>5
  <2> HIDE DEF k, n
  <2> QED BY <1>1, <1>5, <2>2, <2>3, <2>4, <2>5, GotoKeeps
<1>6. ASSUME Handles(w, {"PREPARE"}, "step"), CompletePreparation(me.id), Reply(w, 0)
      PROVE  Keeps(w)
  <2>1. me.id \in DOMAIN attempts
    BY <1>0, <1>1, <1>6 DEF Refers
  <2>2. [PrepNext]_runtime
    BY <1>6, <2>1 DEF PrepNext
  <2>3. Answer(w, TRUE, 0, session[w].incarnation)
    BY <1>6 DEF Reply
  <2>4. requests[w] # <<>> /\ Head(requests[w]).op # "REGISTER"
    BY <1>1, <1>6
  <2> QED BY <2>2, <2>3, <2>4, ReplyKeeps
<1>7. ASSUME NEW stage, Handles(w, {"PREPARE"}, stage), Refused(w)
      PROVE  Keeps(w)
  BY <1>1, <1>7, RefusedKeeps DEF Refused
<1> QED BY <1>3, <1>4, <1>5, <1>6, <1>7 DEF Prepare

LEMMA CheckTargetKeeps ==
  ASSUME WorkerInv, NEW w \in Worker, CheckTarget(w)
  PROVE  Keeps(w)
<1>1. Handles(w, Gated, "idle") /\ UNCHANGED runtime
  BY DEF CheckTarget
<1>2. requests[w] # <<>> /\ Head(requests[w]).op \in Gated /\ session[w].incarnation \in Nat
  BY <1>1, HandledRequest
<1>3. CASE Refuse(w)
  BY <1>1, <1>2, <1>3, RefusedKeeps
<1>4. CASE session[w].incarnation \in DOMAIN incarnations /\ Goto(w, "operation", 0, 0)
  <2>1. session[w].incarnation # 0
    BY <1>4 DEF WorkerInv, TypeOK, IncarnationsType
  <2>2. Fits("operation", Head(requests[w]).op, session[w].incarnation)
    BY <1>2, <2>1 DEF Fits
  <2>3. [PrepNext]_runtime
    BY <1>1
  <2> QED BY <1>2, <1>4, <2>2, <2>3, GotoKeeps
<1> QED BY <1>3, <1>4 DEF CheckTarget

\* What a request that passed the gate asks for is an operation of the runtime.
LEMMA OperationCases ==
  ASSUME NEW msg, NEW i, Operation(msg, i)
  PROVE  \/ msg.op = "PUBLISH" /\ PublishComponent(i, msg.category)
         \/ msg.op = "ACTIVATE" /\ \E s \in Slot : Activate(i, msg.readiness_gen, s, TRUE)
         \/ msg.op = "ACQUIRE" /\ AcquireServingUse(i, msg.readiness_gen)
         \/ msg.op = "RELEASE" /\ msg.use_id \in OpenUsesOf(i) /\ ReleaseServingUse(msg.use_id, i)
         \/ msg.op \notin {"PUBLISH", "ACTIVATE", "ACQUIRE", "RELEASE"} /\ UNCHANGED vars
BY DEF Operation

LEMMA OperationSteps ==
  ASSUME TypeOK, GenerationsBounded, NEW msg, NEW i \in DOMAIN incarnations,
         msg.op = "PUBLISH" => msg.category \in Category,
         Operation(msg, i), UNCHANGED prepVars
  PROVE  [PrepNext]_runtime
<1>0. incarnations[i].readiness_generation \in 1 .. MaxReadinessGeneration
  BY DEF GenerationsBounded
<1>1. CASE msg.op = "PUBLISH" /\ PublishComponent(i, msg.category)
  BY <1>1 DEF PrepNext, Operations
<1>2. ASSUME NEW s \in Slot, Activate(i, msg.readiness_gen, s, TRUE)
      PROVE  [PrepNext]_runtime
  <2>1. msg.readiness_gen \in 1 .. MaxReadinessGeneration
    BY <1>0, <1>2 DEF Activate, GenerationCurrent
  <2>2. s \in Slot \cup {NoSlot} /\ TRUE \in BOOLEAN
    OBVIOUS
  <2>3. Operations
    BY <1>2, <2>1, <2>2 DEF Operations
  <2> QED BY <2>3 DEF PrepNext
<1>3. CASE AcquireServingUse(i, msg.readiness_gen)
  <2>1. msg.readiness_gen \in 1 .. MaxReadinessGeneration
    BY <1>0, <1>3 DEF AcquireServingUse, GenerationCurrent
  <2> QED BY <1>3, <2>1 DEF PrepNext, Operations
<1>4. CASE msg.use_id \in OpenUsesOf(i) /\ ReleaseServingUse(msg.use_id, i)
  <2>1. msg.use_id \in DOMAIN active_uses
    BY <1>4 DEF OpenUsesOf, OpenUses
  <2> QED BY <1>4, <2>1 DEF PrepNext, Operations
<1>5. CASE UNCHANGED vars
  BY <1>5 DEF runtime
<1> QED BY <1>1, <1>2, <1>3, <1>4, <1>5, OperationCases

LEMMA PerformKeeps ==
  ASSUME WorkerInv, NEW w \in Worker, Perform(w)
  PROVE  Keeps(w)
<1> DEFINE i   == session[w].incarnation
           msg == Head(requests[w])
           val == ReplyValue(msg, i)
<1>1. Handles(w, Gated, "operation")
  BY DEF Perform
<1>2. /\ requests[w] # <<>> /\ msg.op \in Gated /\ i \in DOMAIN incarnations
      /\ msg.op = "PUBLISH" => msg.category \in Category
  BY <1>1, HandledRequest
<1>3. CASE Operation(msg, i) /\ UNCHANGED prepVars /\ Reply(w, val)
  <2>1. [PrepNext]_runtime
    BY <1>2, <1>3, OperationSteps DEF WorkerInv
  <2>2. val \in Nat
    BY DEF ReplyValue, WorkerInv, TypeOK, AuthorityType
  <2>3. Answer(w, TRUE, val, session[w].incarnation)
    BY <1>3 DEF Reply
  <2>4. msg.op # "REGISTER"
    BY <1>2 DEF Gated
  <2> HIDE DEF val
  <2> QED BY <1>2, <2>1, <2>2, <2>3, <2>4, ReplyKeeps
<1>4. CASE Refused(w)
  BY <1>2, <1>4, RefusedKeeps DEF Refused
<1> QED BY <1>3, <1>4 DEF Perform

LEMMA EndSessionKeeps ==
  ASSUME WorkerInv, NEW w \in Worker, EndSession(w)
  PROVE  Keeps(w)
<1> DEFINE ses2 == [Idle EXCEPT !.stage = "ended"]
<1>1. /\ Becomes(w, worker[w], ses2, requests[w], replies[w])
      /\ Link(worker[w], ses2, requests[w], replies[w])
      /\ ses2.incarnation = 0 /\ ses2.stage = "ended"
  BY EndStep DEF WorkerInv
<1> HIDE DEF ses2
<1>2. Linked'
  BY <1>1, LinkedUpdate DEF WorkerInv
<1>3. session'[w] = ses2 /\ \A v \in Worker \ {w} : session'[v] = session[v]
  BY <1>1 DEF Becomes
<1>4. Refers(ses2, w, incarnations', permits', plans', attempts')
  BY <1>1 DEF Refers
<1>5. UNCHANGED runtime
  BY DEF EndSession
<1> QED BY <1>2, <1>3, <1>4, <1>5 DEF Keeps

\* Every step of the workers, their sessions and the controllers.
LEMMA WorkerStep ==
  ASSUME WorkerInv, [WorkerNext]_allVars
  PROVE  WorkerInv' /\ [PrepNext]_runtime
<1>0. TypeOK /\ RecordsType /\ PreparationInv /\ GenerationsBounded /\ Linked /\ References
  BY DEF WorkerInv, PreparationInv, PreparationTypeOK
<1>1. ASSUME [PrepNext]_runtime, Linked', References' PROVE WorkerInv'
  <2>1. [PrepNext]_<<vars, prepVars>>
    BY <1>1 DEF runtime
  <2>2. [Next]_vars
    BY <1>0, <2>1, PrepStepsAreSteps
  <2>3. TypeOK' /\ PreparationInv' /\ GenerationsBounded'
    BY <1>0, <2>1, <2>2, TypeStep, PreparationStep, GenerationsStep
  <2> QED BY <1>1, <2>3 DEF WorkerInv
<1>2. ASSUME [PrepNext]_runtime, session' = session PROVE References'
  BY <1>0, <1>2, RefersGrows DEF References
<1>3. ASSUME NEW w \in Worker, Keeps(w) PROVE WorkerInv' /\ [PrepNext]_runtime
  <2>1. ASSUME NEW v \in Worker
        PROVE  Refers(session'[v], v, incarnations', permits', plans', attempts')
    <3>1. CASE v = w
      BY <1>3, <3>1 DEF Keeps
    <3>2. CASE v # w
      <4>1. session'[v] = session[v]
        BY <1>3, <3>2 DEF Keeps
      <4>2. Refers(session[v], v, incarnations', permits', plans', attempts')
        BY <1>0, <1>3, RefersGrows DEF References, Keeps
      <4> QED BY <4>1, <4>2
    <3> QED BY <3>1, <3>2
  <2>2. References'
    BY <2>1 DEF References
  <2> QED BY <1>1, <1>3, <2>2 DEF Keeps
<1>4. ASSUME NEW w \in Worker, NEW me2, NEW req2, NEW rep2,
             Becomes(w, me2, session[w], req2, rep2), Link(me2, session[w], req2, rep2),
             UNCHANGED runtime, session' = session
      PROVE  WorkerInv' /\ [PrepNext]_runtime
  <2>1. Linked'
    BY <1>0, <1>4, LinkedUpdate
  <2>2. References'
    BY <1>2, <1>4
  <2> QED BY <1>1, <1>4, <2>1, <2>2
<1>5. ASSUME NEW w \in Worker, Send(w) PROVE WorkerInv' /\ [PrepNext]_runtime
  <2>1. UNCHANGED runtime /\ session' = session
    BY <1>5 DEF Send
  <2> QED BY <1>0, <1>4, <1>5, <2>1, SendStep
<1>6. ASSUME NEW w \in Worker, Recv(w) PROVE WorkerInv' /\ [PrepNext]_runtime
  <2>1. UNCHANGED runtime /\ session' = session
    BY <1>6 DEF Recv
  <2> QED BY <1>0, <1>4, <1>6, <2>1, RecvStep
<1>7. ASSUME NEW w \in Worker, Crash(w) PROVE WorkerInv' /\ [PrepNext]_runtime
  <2>1. UNCHANGED runtime /\ session' = session
    BY <1>7 DEF Crash
  <2> QED BY <1>0, <1>4, <1>7, <2>1, CrashStep
<1>8. ASSUME NEW w \in Worker, Session(w) PROVE WorkerInv' /\ [PrepNext]_runtime
  BY <1>3, <1>8, HelloKeeps, IssuePermitKeeps, RegisterKeeps, PrepareKeeps,
     CheckTargetKeeps, PerformKeeps, EndSessionKeeps DEF Session
<1>9. ASSUME [PrepNext]_runtime, UNCHANGED <<worker, session, channels>>
      PROVE  WorkerInv' /\ [PrepNext]_runtime
  <2>1. Linked'
    BY <1>0, <1>9 DEF Linked, Domains, channels
  <2> QED BY <1>1, <1>2, <1>9, <2>1
<1>10. CASE Controllers
  <2>1. [PrepNext]_runtime
    <3>1. CASE \E w \in Mortal : FenceWorker(w, 1)
      BY <1>10, <3>1, ServeAssumption DEF Controllers, PrepNext, Operations
    <3>2. CASE \E i, j \in DOMAIN incarnations : BeginReplacement(i, j)
      BY <1>10, <3>2 DEF Controllers, PrepNext, Operations
    <3>3. CASE \E r \in DOMAIN replacement_plans : CommitCutover(r)
      BY <1>10, <3>3 DEF Controllers, PrepNext, Operations
    <3> QED BY <1>10, <3>1, <3>2, <3>3 DEF Controllers
  <2> QED BY <1>9, <1>10, <2>1 DEF Controllers
<1>11. CASE UNCHANGED allVars
  BY <1>9, <1>11 DEF allVars, runtime
<1> QED BY <1>5, <1>6, <1>7, <1>8, <1>10, <1>11, ServeAssumption DEF WorkerNext, Process

-----------------------------------------------------------------------------
(* The invariant, and what follows from it *)

LEMMA WorkerInvInit == WorkerInit => WorkerInv
<1> SUFFICES ASSUME WorkerInit PROVE WorkerInv
  OBVIOUS
<1>1. PrepInit
  BY DEF WorkerInit
<1>2. TypeOK /\ PreparationInv /\ GenerationsBounded
  BY <1>1, TypeInit, PreparationInvInit DEF PrepInit, Init, NoMap, GenerationsBounded
<1>3. Domains
  BY DEF WorkerInit, Domains
<1> DEFINE me == [step |-> 1, pc |-> "send", rgen |-> 1, use |-> 0]
<1>4. L \in Nat /\ L >= 6 /\ Len(Program) \in Nat /\ Len(Program) >= 6
  BY SetupFacts, ProgramFacts, ServeAssumption
<1>5. Framed(me, Idle, <<>>, <<>>)
  BY <1>4 DEF Framed, WorkerRecord, SessionRecord, Idle
<1>6. InOrder(me, <<>>, <<>>)
  <2>1. Unread(1) = 0
    BY <1>4 DEF Unread, L
  <2>2. Order(1, 0, <<>>, <<>>)
    BY <2>1 DEF Order
  <2>3. 1 \in 1 .. Len(Program)
    BY <1>4
  <2> QED BY <2>2, <2>3 DEF InOrder, Live
<1>7. Stage(Idle, <<>>) /\ Enrolled(me, Idle, <<>>, <<>>)
  BY DEF Stage, Enrolled, Idle
<1>8. Link(me, Idle, <<>>, <<>>)
  BY <1>5, <1>6, <1>7 DEF Link
<1>9. Linked
  BY <1>3, <1>8 DEF WorkerInit, Linked
<1>10. References
  BY DEF WorkerInit, References, Refers, Idle
<1> QED BY <1>2, <1>9, <1>10 DEF WorkerInv

LEMMA WorkerInvariant == WorkerSpec => []WorkerInv
<1>1. WorkerInv /\ [WorkerNext]_allVars => WorkerInv'
  BY WorkerStep
<1> QED BY <1>1, WorkerInvInit, PTL DEF WorkerSpec

\* Whatever the workers send, in whatever order their sessions and the controllers
\* take the runtime's lock, the runtime goes through steps of its own operations
\* only: what is proved of PrepSpec, and of Spec, holds of it under its sessions.
THEOREM SessionsImplementPreparation == WorkerSpec => PrepSpec
<1>1. WorkerInit => PrepInit
  BY DEF WorkerInit
<1>2. WorkerInv /\ [WorkerNext]_allVars => [PrepNext]_<<vars, prepVars>>
  BY WorkerStep DEF runtime
<1> QED BY <1>1, <1>2, WorkerInvariant, PTL DEF WorkerSpec, PrepSpec

\* However many requests a worker serves, it and its session are never further
\* apart than one frame and one report for each request served; and the session
\* holds an incarnation that exists.
THEOREM WorkerTypeCorrect == WorkerSpec => []WorkerTypeOK
<1>1. ASSUME WorkerInv, NEW w \in Worker
      PROVE  /\ worker[w].step \in 1 .. Len(Program) + 1
             /\ session[w].incarnation \in {0} \cup DOMAIN incarnations
             /\ Len(requests[w]) + Len(replies[w]) <= Serve + 1
  <2>1. /\ Framed(worker[w], session[w], requests[w], replies[w])
        /\ InOrder(worker[w], requests[w], replies[w])
        /\ Refers(session[w], w, incarnations, permits, plans, attempts)
    BY <1>1 DEF WorkerInv, Linked, Link, References
  <2>2. worker[w].step \in 1 .. Len(Program) + 1
    BY <2>1 DEF Framed, WorkerRecord
  <2>3. session[w].incarnation \in {0} \cup DOMAIN incarnations
    BY <2>1 DEF Refers
  <2>4. Len(requests[w]) \in Nat /\ Len(replies[w]) \in Nat /\ Serve \in Nat
    BY <2>1, ServeAssumption, LenProperties DEF Framed
  <2>5. CASE worker[w].pc \in Live
    <3>1. PICK k \in {0, 1} : Order(worker[w].step, k, requests[w], replies[w])
      BY <2>1, <2>5 DEF InOrder
    <3>2. Unread(worker[w].step) \in Nat /\ Unread(worker[w].step) <= Serve
      BY <2>2, UnreadFacts
    <3>3. Len(replies[w]) + Len(requests[w]) = Unread(worker[w].step) + k
      BY <3>1 DEF Order
    <3>4. k \in Nat /\ k <= 1
      BY <3>1
    <3> DEFINE a == Len(requests[w])
               b == Len(replies[w])
               u == Unread(worker[w].step)
    <3>5. a \in Nat /\ b \in Nat /\ u \in Nat /\ u <= Serve /\ b + a = u + k /\ Serve \in Nat
      BY <2>4, <3>2, <3>3
    <3> HIDE DEF a, b, u
    <3>6. a + b <= Serve + 1
      BY <3>4, <3>5
    <3> QED BY <2>2, <2>3, <3>6 DEF a, b
  <2>6. CASE worker[w].pc \notin Live
    <3>1. Len(replies[w]) = 0 /\ Len(requests[w]) <= Serve + 1
      BY <2>1, <2>6 DEF InOrder
    <3> QED BY <2>2, <2>3, <2>4, <3>1
  <2> QED BY <2>5, <2>6
<1>2. WorkerInv => WorkerTypeOK
  BY <1>1 DEF WorkerTypeOK
<1> QED BY <1>2, WorkerInvariant, PTL

\* In its n-th step, the worker takes for its answer the reply to the request
\* it sent as many steps before as it has reported results: in each round of its
\* serve loop it falls one reply further behind, and nothing that is refused,
\* fenced or replaced meanwhile puts it out of step in another way.
RepliesLag ==
  \A w \in Worker :
    LET n == worker[w].step IN
    worker[w].pc = "recv" /\ replies[w] # <<>> =>
      n - Unread(n) \in 1 .. n /\ Head(replies[w]).of = Program[n - Unread(n)].op

\* However many requests a worker serves, which reply it reads at which step is
\* settled by the number of results reported before, and by nothing that its
\* session, other sessions or controllers do: no reply is lost, doubled or early.
THEOREM LagCorrect == WorkerSpec => []RepliesLag
<1>1. ASSUME WorkerInv, NEW w \in Worker, worker[w].pc = "recv", replies[w] # <<>>
      PROVE  LET n == worker[w].step IN
             n - Unread(n) \in 1 .. n /\ Head(replies[w]).of = Program[n - Unread(n)].op
  <2> DEFINE n == worker[w].step
  <2>1. /\ InOrder(worker[w], requests[w], replies[w])
        /\ Framed(worker[w], session[w], requests[w], replies[w])
    BY <1>1 DEF WorkerInv, Linked, Link
  <2>2. n \in 1 .. Len(Program) /\ Order(n, 1, requests[w], replies[w])
    BY <1>1, <2>1 DEF InOrder, Live
  <2>3. replies[w] \in Seq(ReplyFrame)
    BY <2>1 DEF Framed
  <2> HIDE DEF n
  <2>4. n \in 1 .. Len(Program) + 1 /\ Len(Program) \in Nat /\ n \in Nat
    BY <2>2, ProgramFacts, SetupFacts, ServeAssumption
  <2>5. Unread(n) \in Nat /\ Read(n) \in Nat
    BY <2>4, UnreadFacts
  <2>6. n - Unread(n) \in 1 .. n /\ n - Unread(n) = Read(n) + 1
    BY <2>4, <2>5 DEF Read
  <2>7. 1 \in 1 .. Len(replies[w]) /\ Head(replies[w]) = replies[w][1]
    BY <1>1, <2>3, HeadTailProperties, EmptySeq, LenProperties
  <2>8. replies[w][1].of = Program[Read(n) + 1].op
    BY <2>2, <2>7 DEF Order
  <2> QED BY <2>6, <2>7, <2>8 DEF n
<1>2. WorkerInv => RepliesLag
  BY <1>1 DEF RepliesLag
<1> QED BY <1>2, WorkerInvariant, PTL

\* Up to its first acquisition a worker reads the reply to what it asked.
FirstRepliesMatch ==
  \A w \in Worker :
    worker[w].pc = "recv" /\ replies[w] # <<>> /\ worker[w].step <= L + 1 =>
      Head(replies[w]).of = Program[worker[w].step].op

\* However many requests a worker is to serve, its registration, its publications,
\* its preparation, its readiness, its activation and its first use are never
\* read off the reply to another request.
THEOREM FirstRepliesCorrect == WorkerSpec => []FirstRepliesMatch
<1>1. ASSUME RepliesLag, WorkerInv, NEW w \in Worker,
             worker[w].pc = "recv", replies[w] # <<>>, worker[w].step <= L + 1
      PROVE  Head(replies[w]).of = Program[worker[w].step].op
  <2> DEFINE n == worker[w].step
  <2>1. n \in 1 .. Len(Program) /\ n <= L + 1
    BY <1>1 DEF WorkerInv, Linked, Link, InOrder
  <2>2. Head(replies[w]).of = Program[n - Unread(n)].op
    BY <1>1 DEF RepliesLag
  <2> HIDE DEF n
  <2>3. n \in Nat /\ n \in 1 .. Len(Program) + 1 /\ n <= L + 2
    BY <2>1, ProgramFacts, SetupFacts, ServeAssumption
  <2>4. n - Unread(n) = n
    BY <2>3, UnreadFacts
  <2> QED BY <2>2, <2>4 DEF n
<1>2. RepliesLag /\ WorkerInv => FirstRepliesMatch
  BY <1>1 DEF FirstRepliesMatch
<1> QED BY <1>2, WorkerInvariant, LagCorrect, PTL

\* A worker that serves one request acquires its use in one place of its program,
\* and releases it in one.
LEMMA OneRound ==
  ASSUME Serve <= 1, NEW n \in 1 .. Len(Program)
  PROVE  /\ Program[n].op = "ACQUIRE" <=> n = L + 1
         /\ Program[n].op = "RELEASE" <=> n = L + 3
         /\ Program[n].op = "RESULT" <=> n = L + 2
         /\ Program[n].op = "ACTIVATE" => n <= L
<1>1. /\ L \in Nat /\ Serve \in Nat /\ Len(Program) = L + 3 * Serve
  BY SetupFacts, ProgramFacts, ServeAssumption
<1>2. CASE n <= L
  <2>1. Program[n] = Setup[n] /\ n \in 1 .. L
    BY <1>1, <1>2, ProgramFacts
  <2>2. Program[n].op \notin {"ACQUIRE", "RELEASE", "RESULT"}
    BY <2>1, SetupFacts
  <2> QED BY <1>1, <1>2, <2>2
<1>3. CASE ~(n <= L)
  <2>1. n \in L + 1 .. L + 3 * Serve
    BY <1>1, <1>3
  <2>2. n - L \in {1, 2, 3}
    BY <1>1, <2>1
  <2>3. Program[n].op = IF (n - L) % 3 = 1 THEN "ACQUIRE"
                        ELSE IF (n - L) % 3 = 2 THEN "RESULT" ELSE "RELEASE"
    BY <2>1, ProgramFacts
  <2>4. CASE n - L = 1
    BY <1>1, <2>3, <2>4
  <2>5. CASE n - L = 2
    BY <1>1, <2>3, <2>5
  <2>6. CASE n - L = 3
    BY <1>1, <2>3, <2>6
  <2> QED BY <2>2, <2>4, <2>5, <2>6
<1> QED BY <1>2, <1>3

-----------------------------------------------------------------------------
(* The use of a worker that serves one request *)

LEMMA UnreadValues ==
  ASSUME Serve <= 1, NEW n \in 1 .. Len(Program) + 1
  PROVE  /\ n \in Nat /\ n <= L + 4 /\ L \in Nat
         /\ n <= L + 2 => Unread(n) = 0
         /\ n \in {L + 3, L + 4} => Unread(n) = 1
<1>1. /\ L \in Nat /\ Serve \in Nat /\ Len(Program) = L + 3 * Serve
  BY SetupFacts, ProgramFacts, ServeAssumption
<1>2. n \in Nat /\ n <= L + 4
  BY <1>1
<1>3. CASE n = L + 3
  <2>1. ~(n <= L) /\ n - L = 3 /\ 3 \div 3 = 1
    BY <1>1, <1>3
  <2> QED BY <1>1, <1>2, <1>3, <2>1 DEF Unread, L
<1>4. CASE n = L + 4
  <2>1. ~(n <= L) /\ n - L = 4 /\ 4 \div 3 = 1
    BY <1>1, <1>4
  <2> QED BY <1>1, <1>2, <1>4, <2>1 DEF Unread, L
<1> QED BY <1>1, <1>2, <1>3, <1>4, UnreadFacts

\* Where a live worker is when the request its session is to answer asks for a
\* use or releases one.
LEMMA Places ==
  ASSUME Serve <= 1, NEW me \in WorkerRecord, NEW req \in Seq(RequestFrame),
         NEW rep \in Seq(ReplyFrame), InOrder(me, req, rep), me.pc \in Live
  PROVE  /\ me.step \in 1 .. Len(Program) + 1
         /\ me.step = L + 1 /\ me.pc # "recv" => rep = <<>> /\ req = <<>>
         /\ me.step = L + 1 => rep = <<>> \/ req = <<>>
         /\ me.pc = "recv" => me.step # L + 2
         /\ req # <<>> /\ req[1].op = "ACQUIRE" =>
              me.step = L + 1 /\ me.pc = "recv" /\ rep = <<>>
         /\ req # <<>> /\ req[1].op = "RELEASE" => me.step >= L + 3
         /\ me.pc = "done" /\ me.step # L + 1 => me.step = L + 4
         /\ Len(req) = 1 /\ me.step >= L + 3 /\ me.pc # "send" => req[1].op = "RELEASE"
<1> DEFINE n == me.step
           k == IF me.pc = "recv" THEN 1 ELSE 0
           u == Unread(n)
           a == Len(rep)
           b == Len(req)
           p == Read(n) + a + 1
<1>1. /\ n \in 1 .. Len(Program) + 1
      /\ me.pc \in {"send", "recv"} => n \in 1 .. Len(Program)
      /\ me.pc = "recv" => Program[n].op # "RESULT"
      /\ me.pc = "done" => n = Len(Program) + 1
      /\ Order(n, k, req, rep)
  BY DEF InOrder, WorkerRecord
<1>2. /\ a \in Nat /\ b \in Nat /\ (a = 0 <=> rep = <<>>) /\ (b = 0 <=> req = <<>>)
  BY EmptySeq, LenProperties
<1>3. a + b = u + k /\ (b >= 1 => req[1].op = Program[p].op)
  <2>1. b >= 1 => 1 \in 1 .. Len(req)
    BY <1>2
  <2> QED BY <1>1, <2>1 DEF Order
<1>4. /\ n \in Nat /\ L \in Nat /\ n <= L + 4
      /\ n <= L + 2 => u = 0
      /\ n \in {L + 3, L + 4} => u = 1
  BY <1>1, UnreadValues
<1>5. p = n - u + a /\ u \in Nat /\ k \in {0, 1}
  <2>1. Read(n) = n - 1 - u
    BY DEF Read
  <2>2. u \in Nat
    BY <1>1, UnreadFacts
  <2> HIDE DEF n, u, a
  <2> QED BY <1>2, <1>4, <2>1, <2>2
<1>6. Serve \in {0, 1} /\ Len(Program) = L + 3 * Serve
  BY ProgramFacts, ServeAssumption
<1>7. /\ me.pc = "recv" => n <= Len(Program) /\ k = 1
      /\ me.pc # "recv" => k = 0
      /\ me.pc = "send" => n <= Len(Program)
      /\ me.pc = "done" => n = Len(Program) + 1
      /\ n >= 1 /\ n <= Len(Program) + 1
  BY <1>1, <1>6
<1>8. me.pc = "recv" => n # L + 2
  BY <1>1, OneRound
<1> HIDE DEF n, k, u, a, b, p
<1>9. b >= 1 => p \in 1 .. Len(Program)
  <2>1. CASE k = 1
    BY <1>2, <1>3, <1>4, <1>5, <1>6, <1>7, <2>1
  <2>2. CASE k = 0
    BY <1>2, <1>3, <1>4, <1>5, <1>6, <1>7, <2>2
  <2> QED BY <1>5, <2>1, <2>2
<1>10. n = L + 1 => a + b = k
  BY <1>3, <1>4, <1>5
<1>11. ASSUME b >= 1, p = L + 1 PROVE n = L + 1 /\ a = 0 /\ k = 1
  <2>1. CASE n <= L + 2
    BY <1>2, <1>3, <1>4, <1>5, <1>11, <2>1
  <2>2. CASE n = L + 3 \/ n = L + 4
    BY <1>2, <1>3, <1>4, <1>5, <1>11, <2>2
  <2> QED BY <1>4, <2>1, <2>2
<1>12. ASSUME b >= 1, p = L + 3 PROVE n >= L + 3
  BY <1>2, <1>3, <1>4, <1>5, <1>12
<1>13. ASSUME b = 1, n >= L + 3, me.pc # "send" PROVE p = L + 3
  <2>1. a = u + k - 1 /\ u = 1 /\ (n = L + 3 \/ n = L + 4)
    BY <1>2, <1>3, <1>4, <1>5, <1>13
  <2>2. Len(Program) = L + 3
    BY <1>4, <1>6, <1>7, <1>13
  <2>3. me.pc \in {"recv", "done"}
    BY <1>13 DEF Live
  <2> QED BY <1>4, <1>5, <1>7, <2>1, <2>2, <2>3
<1>14. b >= 1 => /\ Program[p].op = "ACQUIRE" <=> p = L + 1
                 /\ Program[p].op = "RELEASE" <=> p = L + 3
  BY <1>9, OneRound
<1>15. req # <<>> => b >= 1
  BY <1>2
<1>16. me.pc = "done" /\ n # L + 1 => n = L + 4
  BY <1>4, <1>6, <1>7
<1>17. req # <<>> /\ req[1].op = "ACQUIRE" => n = L + 1 /\ me.pc = "recv" /\ rep = <<>>
  BY <1>2, <1>3, <1>7, <1>11, <1>14, <1>15
<1>18. req # <<>> /\ req[1].op = "RELEASE" => n >= L + 3
  BY <1>3, <1>12, <1>14, <1>15
<1>19. b = 1 /\ n >= L + 3 /\ me.pc # "send" => req[1].op = "RELEASE"
  BY <1>3, <1>13, <1>14
<1>20. n = L + 1 /\ me.pc # "recv" => rep = <<>> /\ req = <<>>
  BY <1>2, <1>7, <1>10
<1>21. n = L + 1 => rep = <<>> \/ req = <<>>
  BY <1>2, <1>5, <1>10
<1> QED BY <1>1, <1>8, <1>16, <1>17, <1>18, <1>19, <1>20, <1>21 DEF n, b

\* The use the worker will name in its release: the one it remembers, or the one
\* in the reply it is about to read.
Claim(me, rep) ==
  IF me.pc = "recv" /\ me.step = L + 1 THEN Field(rep[1], "ACQUIRE", 0) ELSE me.use

\* The acquisition has not been answered yet.
Before(me, rep) == me.step <= L \/ (me.step = L + 1 /\ rep = <<>>)

\* The release has been answered.
After(me, req) == me.step >= L + 3 /\ me.pc # "send" /\ req = <<>>

\* uses are open on the worker's incarnation, which may be closed to it.
Tracks(me, req, rep, uses, closed) ==
  /\ Before(me, rep) => uses = {}
  /\ uses \subseteq {Claim(me, rep)}
  /\ After(me, req) => uses = {} \/ closed
  /\ \A j \in 1 .. Len(req) : req[j].op = "RELEASE" => req[j].use_id = me.use

LEMMA TracksShrinks ==
  ASSUME NEW me, NEW req, NEW rep, NEW uses, NEW closed, Tracks(me, req, rep, uses, closed),
         NEW uses2, uses2 \subseteq uses, NEW closed2, closed => closed2
  PROVE  Tracks(me, req, rep, uses2, closed2)
<1>1. uses = {} => uses2 = {}
  OBVIOUS
<1>2. uses2 \subseteq {Claim(me, rep)}
  BY DEF Tracks
<1> QED BY <1>1, <1>2 DEF Tracks

LEMMA SendTracks ==
  ASSUME Serve <= 1, NEW me \in WorkerRecord, NEW req \in Seq(RequestFrame),
         NEW rep \in Seq(ReplyFrame), InOrder(me, req, rep), me.pc = "send",
         NEW uses, NEW closed, Tracks(me, req, rep, uses, closed),
         NEW x \in RequestFrame, x.op = "RELEASE" => x.use_id = me.use,
         NEW me2, me2 = IF Awaited(Program[me.step].op) THEN [me EXCEPT !.pc = "recv"]
                                                        ELSE AtStep(me, me.step + 1)
  PROVE  Tracks(me2, Append(req, x), rep, uses, closed)
<1> DEFINE n == me.step
<1>1. n \in 1 .. Len(Program) /\ n + 1 \in 1 .. Len(Program) + 1 /\ n \in Nat /\ L \in Nat
  BY ProgramFacts, SetupFacts, ServeAssumption DEF InOrder
<1>2. me.pc \in Live
  BY DEF Live
<1>3. n = L + 1 => rep = <<>>
  BY <1>2, Places
<1>4. /\ me2.use = me.use
      /\ me2.step = n \/ (n = L + 2 /\ me2.step = L + 3 /\ me2.pc # "recv")
      /\ me2.step # L + 1 => me.step # L + 1
  <2>1. CASE Awaited(Program[n].op)
    <3>1. me2.use = me.use /\ me2.step = n
      BY <2>1 DEF WorkerRecord
    <3> QED BY <3>1
  <2>2. CASE ~Awaited(Program[n].op)
    <3>1. n = L + 2
      BY <1>1, <2>2, OneRound DEF Awaited
    <3>2. me2.use = me.use /\ me2.step = n + 1 /\ me2.pc \in {"send", "done"}
      BY <1>1, <2>2, AtStepFacts
    <3>3. me2.step = L + 3 /\ me2.pc # "recv" /\ me.step # L + 1
      BY <1>1, <3>1, <3>2
    <3> QED BY <3>1, <3>2, <3>3
  <2> QED BY <2>1, <2>2
<1>5. /\ Append(req, x) # <<>> /\ Len(Append(req, x)) = Len(req) + 1 /\ Len(req) \in Nat
      /\ \A j \in 1 .. Len(req) : Append(req, x)[j] = req[j]
      /\ Append(req, x)[Len(req) + 1] = x
  BY AppendProperties, LenProperties
<1>6. Before(me2, rep) => uses = {}
  <2>1. Before(me2, rep) => Before(me, rep)
    <3>1. CASE me2.step = n
      BY <3>1 DEF Before
    <3>2. CASE me2.step = L + 3
      BY <1>1, <3>2 DEF Before
    <3> QED BY <1>4, <3>1, <3>2
  <2> QED BY <2>1 DEF Tracks
<1>7. uses \subseteq {Claim(me2, rep)}
  <2>1. CASE n = L + 1
    BY <1>3, <2>1 DEF Tracks, Before
  <2>2. CASE n # L + 1
    <3>1. ~(me2.pc = "recv" /\ me2.step = L + 1)
      BY <1>1, <1>4, <2>2
    <3>2. Claim(me2, rep) = Claim(me, rep)
      BY <1>4, <3>1 DEF Claim
    <3> QED BY <3>2 DEF Tracks
  <2> QED BY <2>1, <2>2
<1>8. ASSUME NEW j \in 1 .. Len(req) + 1, Append(req, x)[j].op = "RELEASE"
      PROVE  Append(req, x)[j].use_id = me2.use
  <2>1. CASE j \in 1 .. Len(req)
    BY <1>4, <1>5, <1>8, <2>1 DEF Tracks
  <2>2. CASE j = Len(req) + 1
    BY <1>4, <1>5, <1>8, <2>2
  <2> QED BY <1>5, <2>1, <2>2
<1>9. ~After(me2, Append(req, x))
  BY <1>5 DEF After
<1>10. \A j \in 1 .. Len(Append(req, x)) :
         Append(req, x)[j].op = "RELEASE" => Append(req, x)[j].use_id = me2.use
  BY <1>5, <1>8
<1> QED BY <1>6, <1>7, <1>9, <1>10 DEF Tracks

LEMMA RecvTracks ==
  ASSUME Serve <= 1, NEW me \in WorkerRecord, NEW req \in Seq(RequestFrame),
         NEW rep \in Seq(ReplyFrame), InOrder(me, req, rep), me.pc = "recv", rep # <<>>,
         NEW uses, NEW closed, Tracks(me, req, rep, uses, closed),
         NEW me2, RecvOutcome(me, rep[1], me2), me2.pc \in Live,
         me2.use = IF Program[me.step].op = "ACQUIRE" THEN Field(rep[1], "ACQUIRE", 0)
                                                      ELSE me.use
  PROVE  Tracks(me2, req, Tail(rep), uses, closed)
<1> DEFINE n == me.step
<1>1. /\ n \in 1 .. Len(Program) /\ n + 1 \in 1 .. Len(Program) + 1 /\ n \in Nat
      /\ L \in Nat /\ L >= 6 /\ me.pc \in Live /\ n <= Len(Program) /\ Len(Program) \in Nat
  BY ProgramFacts, SetupFacts, ServeAssumption DEF InOrder, Live
<1>2. n # L + 2 /\ (n = L + 1 => req = <<>>)
  BY <1>1, Places
<1>3. Program[n].op = "ACQUIRE" <=> n = L + 1
  BY <1>1, OneRound
<1>4. /\ me2.pc # "recv"
      /\ \/ me2.step = n + 1 /\ (me2.pc = "send" <=> n + 1 <= Len(Program))
         \/ n = L - 1 /\ me2.step = L + 1
  <2>1. Program[n].op = "QUERY" => n = L - 1 /\ n + 2 \in 1 .. Len(Program) + 1 /\ n + 2 = L + 1
    BY <1>1, ProgramPlaces, ProgramFacts, ServeAssumption
  <2>2. CASE me2 = [me EXCEPT !.pc = "exited"]
    <3>1. me2.pc = "exited"
      BY <2>2 DEF WorkerRecord
    <3> QED BY <3>1 DEF Live
  <2>3. ASSUME NEW m \in WorkerRecord, me2 = AtStep(m, n + 1)
        PROVE  /\ me2.pc # "recv" /\ me2.step = n + 1
               /\ me2.pc = "send" <=> n + 1 <= Len(Program)
    BY <1>1, <2>3, AtStepFacts
  <2>4. CASE Program[n].op = "QUERY" /\ me2 = AtStep(me, n + 2)
    <3>1. n + 2 \in 1 .. Len(Program) + 1 /\ n = L - 1 /\ n + 2 = L + 1
      BY <2>1, <2>4
    <3>2. me2.step = n + 2 /\ me2.pc \in {"send", "done"}
      BY <2>4, <3>1, AtStepFacts
    <3> QED BY <3>1, <3>2
  <2> QED BY <2>2, <2>3, <2>4 DEF RecvOutcome
<1>5. Before(me2, Tail(rep)) => uses = {}
  <2>1. Before(me2, Tail(rep)) => n <= L
    BY <1>1, <1>4 DEF Before
  <2> QED BY <2>1 DEF Tracks, Before
<1>6. Claim(me2, Tail(rep)) = Claim(me, rep)
  <2>1. Claim(me2, Tail(rep)) = me2.use
    BY <1>4 DEF Claim
  <2> QED BY <1>3, <2>1 DEF Claim
<1>7. After(me2, req) => uses = {} \/ closed
  <2>1. After(me2, req) => After(me, req)
    BY <1>1, <1>2, <1>4 DEF After
  <2> QED BY <2>1 DEF Tracks
<1>8. \A j \in 1 .. Len(req) : req[j].op = "RELEASE" => req[j].use_id = me2.use
  <2>1. CASE n = L + 1
    <3>1. 1 .. Len(req) = {}
      BY <1>2, <2>1
    <3> QED BY <3>1
  <2>2. CASE n # L + 1
    BY <1>3, <2>2 DEF Tracks
  <2> QED BY <2>1, <2>2
<1> QED BY <1>5, <1>6, <1>7, <1>8 DEF Tracks

LEMMA AnswerTracks ==
  ASSUME Serve <= 1, NEW me \in WorkerRecord, NEW req \in Seq(RequestFrame),
         NEW rep \in Seq(ReplyFrame), InOrder(me, req, rep), me.pc \in Live, req # <<>>,
         NEW uses, NEW closed, Tracks(me, req, rep, uses, closed),
         NEW x \in ReplyFrame, x.of = req[1].op, NEW uses2, NEW closed2,
         \/ uses2 \subseteq uses
         \/ req[1].op = "ACQUIRE" /\ x.ok /\ uses2 \subseteq uses \cup {x.value},
         req[1].op = "RELEASE" => uses2 = {} \/ closed2
  PROVE  Tracks(me, Tail(req), Append(rep, x), uses2, closed2)
<1> DEFINE rep2 == Append(rep, x)
           req2 == Tail(req)
<1>1. /\ rep2 # <<>> /\ (rep = <<>> => rep2[1] = x) /\ (rep # <<>> => rep2[1] = rep[1])
  <2>1. Len(rep) \in Nat /\ (rep = <<>> <=> Len(rep) = 0)
    BY EmptySeq, LenProperties
  <2>2. /\ Len(rep2) = Len(rep) + 1 /\ rep2[Len(rep) + 1] = x
        /\ \A j \in 1 .. Len(rep) : rep2[j] = rep[j]
    BY AppendProperties
  <2> HIDE DEF rep2
  <2>3. rep # <<>> => 1 \in 1 .. Len(rep)
    BY <2>1
  <2> QED BY <2>1, <2>2, <2>3
<1>2. /\ Len(req2) = Len(req) - 1 /\ Len(req) \in Nat /\ Len(req) >= 1
      /\ \A j \in 1 .. Len(req2) : req2[j] = req[j + 1] /\ j + 1 \in 1 .. Len(req)
      /\ req2 = <<>> => Len(req) = 1
  <2>1. /\ Len(req2) = Len(req) - 1 /\ Len(req) \in Nat /\ Len(req) >= 1
        /\ \A j \in 1 .. Len(req) - 1 : req2[j] = req[j + 1]
    BY TailFacts
  <2> HIDE DEF req2
  <2>2. req2 = <<>> => Len(req2) = 0
    OBVIOUS
  <2> QED BY <2>1, <2>2
<1>3. me.step \in Nat /\ L \in Nat
  BY UnreadValues DEF WorkerRecord
<1>4. Before(me, rep2) => uses2 = {}
  <2>1. ASSUME Before(me, rep2) PROVE me.step <= L
    BY <1>1, <2>1 DEF Before
  <2>2. ASSUME me.step <= L PROVE uses = {} /\ req[1].op # "ACQUIRE"
    BY <1>3, <2>2, Places DEF Before, Tracks
  <2> QED BY <2>1, <2>2
<1>5. uses2 \subseteq {Claim(me, rep2)}
  <2>1. CASE req[1].op = "ACQUIRE"
    <3>1. me.step = L + 1 /\ me.pc = "recv" /\ rep = <<>>
      BY <2>1, Places
    <3>2. uses = {}
      BY <3>1 DEF Tracks, Before
    <3>3. x.ok => Claim(me, rep2) = x.value
      BY <1>1, <2>1, <3>1 DEF Claim, Field
    <3> QED BY <3>2, <3>3
  <2>2. CASE req[1].op # "ACQUIRE"
    <3>1. CASE me.pc = "recv" /\ me.step = L + 1
      <4>1. rep = <<>>
        BY <3>1, Places
      <4> QED BY <2>2, <3>1, <4>1 DEF Tracks, Before
    <3>2. CASE ~(me.pc = "recv" /\ me.step = L + 1)
      BY <2>2, <3>2 DEF Tracks, Claim
    <3> QED BY <3>1, <3>2
  <2> QED BY <2>1, <2>2
<1>6. After(me, req2) => uses2 = {} \/ closed2
  BY <1>2, Places DEF After
<1>7. \A j \in 1 .. Len(req2) : req2[j].op = "RELEASE" => req2[j].use_id = me.use
  BY <1>2 DEF Tracks
<1> QED BY <1>4, <1>5, <1>6, <1>7 DEF Tracks

LEMMA ReleaseClaims ==
  ASSUME Serve <= 1, NEW me \in WorkerRecord, NEW req \in Seq(RequestFrame),
         NEW rep \in Seq(ReplyFrame), InOrder(me, req, rep), me.pc \in Live, req # <<>>,
         NEW uses, NEW closed, Tracks(me, req, rep, uses, closed), req[1].op = "RELEASE"
  PROVE  uses \subseteq {req[1].use_id}
<1>1. 1 \in 1 .. Len(req)
  BY EmptySeq, LenProperties
<1>2. req[1].use_id = me.use
  BY <1>1 DEF Tracks
<1>3. me.step \in Nat /\ L \in Nat /\ me.step >= L + 3
  BY Places, UnreadValues DEF WorkerRecord
<1>4. me.step # L + 1
  BY <1>3
<1> QED BY <1>2, <1>4 DEF Tracks, Claim

-----------------------------------------------------------------------------
(* Uses and closed incarnations, as the runtime's operations change them *)

\* OpenUsesOf, of a table of uses.
UsesIn(uses, i) == {u \in DOMAIN uses : ~uses[u].released /\ uses[u].incarnation = i}

\* The incarnation is fenced, or its admission is, for good.
ClosedIn(inc, dr, i) ==
  /\ i \in DOMAIN inc
  /\ inc[i].registration = "FENCED" \/ (i \in DOMAIN dr /\ dr[i].admission_fenced)

LEMMA UsesInIs ==
  ASSUME NEW i
  PROVE  OpenUsesOf(i) = UsesIn(active_uses, i) /\ OpenUsesOf(i)' = UsesIn(active_uses', i)
BY DEF OpenUsesOf, OpenUses, UsesIn

LEMMA NoUseOfNone ==
  ASSUME TypeOK, NEW i, i \notin DOMAIN incarnations
  PROVE  UsesIn(active_uses, i) = {}
BY DEF TypeOK, UsesType, UsesIn

LEMMA ClosedStays ==
  ASSUME TypeOK, [Next]_vars, NEW i, ClosedIn(incarnations, drains, i)
  PROVE  ClosedIn(incarnations', drains', i)
<1>0. i \in DOMAIN incarnations
  BY DEF ClosedIn
<1>1. i \in DOMAIN incarnations'
  BY <1>0, IncarnationsGrow
<1>2. CASE incarnations[i].registration = "FENCED"
  <2>1. CASE \E w \in Worker, b \in Boot : FenceWorker(w, b)
    <3>1. PICK w \in Worker, b \in Boot : FenceWorker(w, b)
      BY <2>1
    <3>2. incarnations'[i].registration = "FENCED" \/ incarnations'[i] = incarnations[i]
      BY <1>0, <3>1, TypeWellFormed, FenceEffect
    <3> QED BY <1>1, <1>2, <3>2 DEF ClosedIn
  <2>2. CASE ~ \E w \in Worker, b \in Boot : FenceWorker(w, b)
    <3>1. Evolved(incarnations[i], incarnations'[i])
      BY <1>0, <2>2, IncarnationsEvolve
    <3>2. incarnations'[i].registration = "FENCED"
      BY <1>2, <3>1 DEF Evolved
    <3> QED BY <1>1, <3>2 DEF ClosedIn
  <2> QED BY <2>1, <2>2
<1>3. CASE i \in DOMAIN drains /\ drains[i].admission_fenced
  <2>1. DrainOf(i).admission_fenced
    BY <1>3 DEF DrainOf
  <2>2. DrainOf(i)'.admission_fenced
    BY <2>1, FenceStays
  <2>3. i \in DOMAIN drains' /\ drains'[i].admission_fenced
    BY <2>2 DEF DrainOf, NoDrain
  <2> QED BY <1>1, <2>3 DEF ClosedIn
<1> QED BY <1>2, <1>3 DEF ClosedIn

\* What an operation asked for by a session does to the open uses.
LEMMA OperationUses ==
  ASSUME TypeOK, GenerationsBounded, NEW msg, NEW i \in DOMAIN incarnations,
         Operation(msg, i), NEW j
  PROVE  /\ j # i => UsesIn(active_uses', j) \subseteq UsesIn(active_uses, j)
         /\ msg.op # "ACQUIRE" => UsesIn(active_uses', j) \subseteq UsesIn(active_uses, j)
         /\ UsesIn(active_uses', j) \subseteq UsesIn(active_uses, j) \cup {ids.use + 1}
         /\ msg.op = "RELEASE" => /\ msg.use_id \in UsesIn(active_uses, i)
                                  /\ UsesIn(active_uses', i) =
                                       UsesIn(active_uses, i) \ {msg.use_id}
<1> DEFINE old(k) == UsesIn(active_uses, k)
           new(k) == UsesIn(active_uses', k)
<1>1. CASE active_uses' = active_uses /\ msg.op # "RELEASE"
  BY <1>1
<1>2. CASE msg.op = "ACQUIRE" /\ AcquireServingUse(i, msg.readiness_gen)
  <2> DEFINE g == msg.readiness_gen
  <2>1. g \in Nat
    BY <1>2, LimitsAssumption DEF AcquireServingUse, GenerationCurrent, GenerationsBounded
  <2>2. AcquireServingUse(i, g)
    BY <1>2
  <2> HIDE DEF g
  <2>3. OpenUsesOf(j)' = IF j = i THEN OpenUsesOf(j) \cup {ids'.use} ELSE OpenUsesOf(j)
    BY <2>1, <2>2, AcquireOpens
  <2>4. ids'.use = ids.use + 1
    BY <2>2 DEF AcquireServingUse, TypeOK, AuthorityType
  <2>5. new(j) = IF j = i THEN old(j) \cup {ids.use + 1} ELSE old(j)
    BY <2>3, <2>4, UsesInIs
  <2> HIDE DEF old, new
  <2>6. /\ j # i => new(j) \subseteq old(j)
        /\ new(j) \subseteq old(j) \cup {ids.use + 1}
    BY <2>5
  <2> QED BY <1>2, <2>6 DEF old, new
<1>3. CASE /\ msg.op = "RELEASE" /\ msg.use_id \in OpenUsesOf(i)
           /\ ReleaseServingUse(msg.use_id, i)
  <2> DEFINE u == msg.use_id
  <2>1. u \in DOMAIN active_uses /\ u \in OpenUsesOf(i) /\ ReleaseServingUse(u, i)
    BY <1>3 DEF OpenUsesOf, OpenUses
  <2> HIDE DEF u
  <2>2. \A k : OpenUsesOf(k)' = IF k = i THEN OpenUsesOf(k) \ {u} ELSE OpenUsesOf(k)
    BY <2>1, ReleaseCloses
  <2>3. \A k : new(k) = IF k = i THEN old(k) \ {u} ELSE old(k)
    BY <2>2, UsesInIs
  <2>4. u \in old(i)
    BY <2>1, UsesInIs
  <2> HIDE DEF old, new
  <2>5. new(j) \subseteq old(j) /\ new(i) = old(i) \ {u}
    BY <2>3
  <2> QED BY <1>3, <2>4, <2>5 DEF u, old, new
<1>4. \/ active_uses' = active_uses /\ msg.op # "RELEASE"
      \/ msg.op = "ACQUIRE" /\ AcquireServingUse(i, msg.readiness_gen)
      \/ /\ msg.op = "RELEASE" /\ msg.use_id \in OpenUsesOf(i)
         /\ ReleaseServingUse(msg.use_id, i)
  <2>1. ASSUME NEW c, PublishComponent(i, c) PROVE active_uses' = active_uses
    BY <2>1 DEF PublishComponent, useVars
  <2>2. ASSUME NEW g, NEW s, Activate(i, g, s, TRUE) PROVE active_uses' = active_uses
    BY <2>2 DEF Activate, useVars
  <2>3. UNCHANGED vars => active_uses' = active_uses
    BY DEF vars, useVars
  <2> QED BY <2>1, <2>2, <2>3, OperationCases
<1> QED BY <1>1, <1>2, <1>3, <1>4

\* What marks an incarnation as fenced or dead, under these sessions and
\* controllers, is a fence of its boot.
Marked(inc) ==
  (inc.health = "FENCED" \/ inc.lifecycle \in {"LOST", "RETIRED"}) =>
    inc.registration = "FENCED"

FenceMarks == \A i \in DOMAIN incarnations : Marked(incarnations[i])

LEMMA MarkedUpdates ==
  ASSUME NEW inc \in Incarnation
  PROVE  /\ Marked([inc EXCEPT !.lifecycle = "RUNNING", !.health = "HEALTHY"])
         /\ Marked([inc EXCEPT !.health = "FENCED", !.lifecycle = "LOST",
                               !.activation = "FENCED", !.registration = "FENCED",
                               !.is_current = FALSE])
BY DEF Marked, Incarnation

LEMMA MarkedKept ==
  ASSUME NEW inc \in Incarnation, Marked(inc), NEW act, NEW cur, NEW g
  PROVE  /\ Marked([inc EXCEPT !.activation = act, !.is_current = cur])
         /\ Marked([inc EXCEPT !.readiness_generation = g])
BY DEF Marked, Incarnation

\* The operations that sessions and controllers use, of those that change an
\* incarnation.
Moves ==
  \/ UNCHANGED incarnations
  \/ \E w \in Worker : FenceWorker(w, 1)
  \/ \E r \in DOMAIN replacement_plans : CommitCutover(r)
  \/ \E p \in DOMAIN permits, e \in Engine : RegisterIncarnation(p, e)
  \/ \E i \in DOMAIN incarnations : PublishReady(i)
  \/ \E i \in DOMAIN incarnations, c \in Category : PublishComponent(i, c)
  \/ \E i \in DOMAIN incarnations : \E g, s : Activate(i, g, s, TRUE)

LEMMA MovesMark ==
  ASSUME TypeOK, FenceMarks, Moves
  PROVE  FenceMarks'
<1>0. /\ incarnations \in [DOMAIN incarnations -> Incarnation] /\ WellFormed
      /\ \A i \in DOMAIN incarnations : incarnations[i] \in Incarnation /\ Marked(incarnations[i])
  BY TypeWellFormed DEF TypeOK, IncarnationsType, FenceMarks
<1>1. ASSUME NEW j \in DOMAIN incarnations, NEW inc,
             incarnations' = [incarnations EXCEPT ![j] = inc], Marked(inc)
      PROVE  FenceMarks'
  BY <1>0, <1>1 DEF FenceMarks
<1>2. CASE UNCHANGED incarnations
  BY <1>2 DEF FenceMarks
<1>3. ASSUME NEW w \in Worker, FenceWorker(w, 1) PROVE FenceMarks'
  <2>1. DOMAIN incarnations' = DOMAIN incarnations
    BY <1>3 DEF FenceWorker
  <2>2. ASSUME NEW i \in DOMAIN incarnations PROVE Marked(incarnations'[i])
    <3> DEFINE lost == [incarnations[i] EXCEPT !.health = "FENCED", !.lifecycle = "LOST",
                                               !.activation = "FENCED",
                                               !.registration = "FENCED",
                                               !.is_current = FALSE]
    <3>1. Marked(lost)
      BY <1>0, MarkedUpdates
    <3>2. incarnations'[i] = lost \/ incarnations'[i] = incarnations[i]
      BY <1>3 DEF FenceWorker
    <3> HIDE DEF lost
    <3> QED BY <1>0, <3>1, <3>2
  <2> QED BY <2>1, <2>2 DEF FenceMarks
<1>4. ASSUME NEW r \in DOMAIN replacement_plans, CommitCutover(r) PROVE FenceMarks'
  <2> DEFINE old == replacement_plans[r].old
             cand == replacement_plans[r].candidate
             closed == [incarnations EXCEPT ![old] =
                         [incarnations[old] EXCEPT !.activation = "FENCED",
                                                   !.is_current = FALSE]]
  <2>1. old \in DOMAIN incarnations /\ cand \in DOMAIN incarnations
    BY <1>0 DEF WellFormed
  <2>2. incarnations' = [closed EXCEPT ![cand] =
          [closed[cand] EXCEPT !.activation = "STANDBY", !.is_current = TRUE]]
    BY <1>4 DEF CommitCutover
  <2>3. DOMAIN closed = DOMAIN incarnations /\ closed \in [DOMAIN incarnations -> Incarnation]
    BY <1>0, <2>1, IncarnationUpdates, ReplaceType
  <2>4. \A i \in DOMAIN incarnations : Marked(closed[i])
    <3>1. Marked([incarnations[old] EXCEPT !.activation = "FENCED", !.is_current = FALSE])
      BY <1>0, <2>1, MarkedKept
    <3> QED BY <1>0, <2>1, <3>1
  <2> HIDE DEF closed
  <2>5. Marked([closed[cand] EXCEPT !.activation = "STANDBY", !.is_current = TRUE])
    BY <2>1, <2>3, <2>4, MarkedKept
  <2>6. DOMAIN incarnations' = DOMAIN incarnations
        /\ \A i \in DOMAIN incarnations : Marked(incarnations'[i])
    BY <2>1, <2>2, <2>3, <2>4, <2>5
  <2> QED BY <2>6 DEF FenceMarks
<1>5. ASSUME NEW p \in DOMAIN permits, NEW e \in Engine, RegisterIncarnation(p, e)
      PROVE  FenceMarks'
  <2>1. PICK id, inc : /\ incarnations' = Put(incarnations, id, inc)
                       /\ inc.health = "UNKNOWN" /\ inc.lifecycle = "STARTING"
    BY <1>5 DEF RegisterIncarnation
  <2>2. Marked(inc)
    BY <2>1 DEF Marked
  <2> QED BY <1>0, <2>1, <2>2 DEF FenceMarks, Put
<1>6. ASSUME NEW i \in DOMAIN incarnations, PublishReady(i) PROVE FenceMarks'
  <2> DEFINE inc == [incarnations[i] EXCEPT
                       !.readiness_generation = incarnations[i].readiness_generation + 1]
  <2>1. incarnations' = [incarnations EXCEPT ![i] = inc]
    BY <1>6 DEF PublishReady
  <2>2. Marked(inc)
    BY <1>0, MarkedKept
  <2> HIDE DEF inc
  <2> QED BY <1>1, <2>1, <2>2
<1>7. ASSUME NEW i \in DOMAIN incarnations, NEW c \in Category, PublishComponent(i, c)
      PROVE  FenceMarks'
  <2> DEFINE inc == [incarnations[i] EXCEPT !.lifecycle = "RUNNING", !.health = "HEALTHY"]
  <2>1. incarnations' = [incarnations EXCEPT ![i] = inc] \/ incarnations' = incarnations
    BY <1>7 DEF PublishComponent
  <2>2. Marked(inc)
    BY <1>0, MarkedUpdates
  <2> HIDE DEF inc
  <2> QED BY <1>1, <1>2, <2>1, <2>2
<1>8. ASSUME NEW i \in DOMAIN incarnations, NEW g, NEW s, Activate(i, g, s, TRUE)
      PROVE  FenceMarks'
  <2> DEFINE inc == [incarnations[i] EXCEPT !.activation = "ACTIVE", !.is_current = TRUE]
  <2>1. incarnations' = [incarnations EXCEPT ![i] = inc]
    BY <1>8 DEF Activate
  <2>2. Marked(inc)
    BY <1>0, MarkedKept
  <2> HIDE DEF inc
  <2> QED BY <1>1, <2>1, <2>2
<1> QED BY <1>2, <1>3, <1>4, <1>5, <1>6, <1>7, <1>8 DEF Moves

LEMMA StepMoves ==
  ASSUME WorkerInv, [WorkerNext]_allVars
  PROVE  Moves
<1>0. UNCHANGED runtime => UNCHANGED incarnations
  BY DEF runtime, vars
<1>1. ASSUME NEW w \in Worker, Send(w) \/ Recv(w) \/ Crash(w) \/ EndSession(w) \/ Hello(w)
             \/ CheckTarget(w) \/ Refused(w)
      PROVE  Moves
  BY <1>0, <1>1 DEF Send, Recv, Crash, EndSession, Hello, CheckTarget, Refused, Moves
<1>2. ASSUME NEW w \in Worker, IssuePermit(w) PROVE Moves
  <2>1. IssueRegistrationPermit(w, 1) => UNCHANGED incarnations
    BY DEF IssueRegistrationPermit
  <2> QED BY <1>1, <1>2, <2>1 DEF IssuePermit, Moves
<1>3. ASSUME NEW w \in Worker, Register(w) PROVE Moves
  <2>1. Handles(w, {"REGISTER"}, "register")
    BY <1>3 DEF Register
  <2>2. session[w].stage = "register"
    BY <2>1, HandledRequest
  <2>3. session[w].id \in DOMAIN permits
    BY <2>2 DEF WorkerInv, References, Refers
  <2> QED BY <1>1, <1>3, <2>3 DEF Register, Moves
<1>4. ASSUME NEW w \in Worker, Prepare(w) PROVE Moves
  <2> DEFINE me == session[w]
  <2>1. ASSUME NEW x, CreatePreparationPlan(x) \/ BeginPreparation(x) \/ StepPreparation(x)
        PROVE  Moves
    <3>1. UNCHANGED incarnations
      BY <2>1 DEF CreatePreparationPlan, BeginPreparation, StepPreparation, vars
    <3> QED BY <3>1 DEF Moves
  <2>2. ASSUME Handles(w, {"PREPARE"}, "step"), CompletePreparation(me.id) PROVE Moves
    <3>1. session[w].stage = "step"
      BY <2>2, HandledRequest
    <3>2. me.id \in DOMAIN attempts
      BY <3>1 DEF WorkerInv, References, Refers
    <3>3. attempts[me.id].incarnation \in DOMAIN incarnations
      BY <3>2 DEF WorkerInv, PreparationInv, PreparationTypeOK, RecordsType
    <3>4. PublishReady(attempts[me.id].incarnation) \/ UNCHANGED incarnations
      BY <2>2 DEF CompletePreparation, vars
    <3> QED BY <3>3, <3>4 DEF Moves
  <2> HIDE DEF me
  <2> QED BY <1>1, <1>4, <2>1, <2>2 DEF Prepare, me
<1>5. ASSUME NEW w \in Worker, Perform(w) PROVE Moves
  <2> DEFINE i   == session[w].incarnation
             msg == Head(requests[w])
  <2>1. Handles(w, Gated, "operation")
    BY <1>5 DEF Perform
  <2>2. i \in DOMAIN incarnations /\ (msg.op = "PUBLISH" => msg.category \in Category)
    BY <2>1, HandledRequest
  <2>3. Operation(msg, i) \/ Refused(w)
    BY <1>5 DEF Perform
  <2> HIDE DEF i, msg
  <2>4. ASSUME Operation(msg, i) PROVE Moves
    <3>1. ASSUME NEW u, ReleaseServingUse(u, i) PROVE UNCHANGED incarnations
      BY <3>1 DEF ReleaseServingUse
    <3>2. ASSUME NEW g, AcquireServingUse(i, g) PROVE UNCHANGED incarnations
      BY <3>2 DEF AcquireServingUse
    <3>3. UNCHANGED vars => UNCHANGED incarnations
      BY DEF vars
    <3> QED BY <2>2, <2>4, <3>1, <3>2, <3>3, OperationCases DEF Moves
  <2> QED BY <1>1, <2>3, <2>4
<1>6. CASE Controllers
  <2>1. ASSUME NEW i, NEW j, BeginReplacement(i, j) PROVE UNCHANGED incarnations
    BY <2>1 DEF BeginReplacement
  <2> QED BY <1>6, <2>1, ServeAssumption DEF Controllers, Moves
<1>7. CASE UNCHANGED allVars
  BY <1>0, <1>7 DEF allVars, Moves
<1> QED BY <1>1, <1>2, <1>3, <1>4, <1>5, <1>6, <1>7, ServeAssumption
        DEF WorkerNext, Process, Session

-----------------------------------------------------------------------------
(* A worker that served has released *)

Tracked(me, ses, req, rep, uses, inc, dr) ==
  me.pc \in Live =>
    Tracks(me, req, rep, UsesIn(uses, ses.incarnation), ClosedIn(inc, dr, ses.incarnation))

Served ==
  \A w \in Worker :
    Tracked(worker[w], session[w], requests[w], replies[w], active_uses, incarnations, drains)

\* No step of w opens a use on an incarnation other than its own.
OwnUses(w) ==
  \A j : j # session[w].incarnation => UsesIn(active_uses', j) \subseteq UsesIn(active_uses, j)

\* Worker, session and frames being as they were, the runtime's steps that open
\* no use of the incarnation do not matter.
LEMMA TrackedKept ==
  ASSUME TypeOK, [Next]_vars, NEW me, NEW ses, NEW req, NEW rep, NEW ses2,
         Tracked(me, ses, req, rep, active_uses, incarnations, drains),
         ses2.incarnation = ses.incarnation,
         UsesIn(active_uses', ses.incarnation) \subseteq UsesIn(active_uses, ses.incarnation)
  PROVE  Tracked(me, ses2, req, rep, active_uses', incarnations', drains')
<1> DEFINE i == ses.incarnation
<1>1. ClosedIn(incarnations, drains, i) => ClosedIn(incarnations', drains', i)
  BY ClosedStays
<1>2. me.pc \in Live =>
        Tracks(me, req, rep, UsesIn(active_uses, i), ClosedIn(incarnations, drains, i))
  BY DEF Tracked
<1>3. UsesIn(active_uses', i) \subseteq UsesIn(active_uses, i)
  OBVIOUS
<1> HIDE DEF i
<1>4. me.pc \in Live =>
        Tracks(me, req, rep, UsesIn(active_uses', i), ClosedIn(incarnations', drains', i))
  BY <1>1, <1>2, <1>3, TracksShrinks
<1> QED BY <1>4 DEF Tracked, i

LEMMA ServedUpdate ==
  ASSUME WorkerInv, Served, TypeOK', [Next]_vars, NEW w \in Worker,
         NEW me2, NEW ses2, NEW req2, NEW rep2, Becomes(w, me2, ses2, req2, rep2), OwnUses(w),
         Tracked(me2, ses2, req2, rep2, active_uses', incarnations', drains')
  PROVE  Served'
<1>1. ASSUME NEW v \in Worker
      PROVE  Tracked(worker'[v], session'[v], requests'[v], replies'[v],
                     active_uses', incarnations', drains')
  <2>1. CASE v = w
    BY <2>1 DEF Becomes
  <2>2. CASE v # w
    <3> DEFINE j == session[v].incarnation
    <3>1. UsesIn(active_uses', j) \subseteq UsesIn(active_uses, j)
      <4>1. CASE j # session[w].incarnation
        BY <4>1 DEF OwnUses
      <4>2. CASE j = 0
        <5>1. 0 \notin DOMAIN incarnations'
          BY DEF TypeOK, IncarnationsType, AuthorityType
        <5>2. UsesIn(active_uses', 0) = {}
          BY <5>1 DEF TypeOK, UsesType, UsesIn
        <5> QED BY <4>2, <5>2
      <4>3. CASE j # 0 /\ j = session[w].incarnation
        <5>1. incarnations[j].worker = v
          BY <4>3 DEF WorkerInv, References, Refers
        <5>2. incarnations[j].worker = w
          BY <4>3 DEF WorkerInv, References, Refers
        <5> QED BY <2>2, <5>1, <5>2
      <4> QED BY <4>1, <4>2, <4>3
    <3>2. Tracked(worker[v], session[v], requests[v], replies[v],
                  active_uses, incarnations, drains)
      BY DEF Served
    <3>3. TypeOK
      BY DEF WorkerInv
    <3>4. Tracked(worker[v], session[v], requests[v], replies[v],
                  active_uses', incarnations', drains')
      BY <3>1, <3>2, <3>3, TrackedKept
    <3>5. /\ worker'[v] = worker[v] /\ session'[v] = session[v]
          /\ requests'[v] = requests[v] /\ replies'[v] = replies[v]
      BY <2>2 DEF Becomes
    <3> QED BY <3>4, <3>5
  <2> QED BY <2>1, <2>2
<1> QED BY <1>1 DEF Served

LEMMA SendServed ==
  ASSUME Serve <= 1, WorkerInv, Served, TypeOK', [Next]_vars, NEW w \in Worker, Send(w)
  PROVE  Served'
<1>1. PICK me2, req2 :
           /\ Becomes(w, me2, session[w], req2, replies[w])
           /\ me2 = IF Awaited(Program[worker[w].step].op)
                    THEN [worker[w] EXCEPT !.pc = "recv"]
                    ELSE AtStep(worker[w], worker[w].step + 1)
           /\ req2 = Append(requests[w], Request(w))
           /\ Link(me2, session[w], req2, replies[w])
  BY SendStep DEF WorkerInv
<1>2. /\ worker[w].pc = "send" /\ active_uses' = active_uses
      /\ incarnations' = incarnations /\ drains' = drains
  BY DEF Send, runtime, vars, useVars
<1>3. /\ worker[w] \in WorkerRecord /\ requests[w] \in Seq(RequestFrame)
      /\ replies[w] \in Seq(ReplyFrame) /\ InOrder(worker[w], requests[w], replies[w])
  BY DEF WorkerInv, Linked, Link, Framed
<1>4. /\ Request(w) \in RequestFrame
      /\ Request(w).op = "RELEASE" => Request(w).use_id = worker[w].use
  <2>1. worker[w].step \in 1 .. Len(Program)
    BY <1>2, <1>3 DEF InOrder
  <2>2. Program[worker[w].step] \in Instruction
        /\ worker[w].rgen \in Nat /\ worker[w].use \in Nat
    BY <1>3, <2>1, ProgramPlaces DEF WorkerRecord
  <2> QED BY <2>2 DEF Request, RequestFrame, Instruction
<1> DEFINE i == session[w].incarnation
           U == UsesIn(active_uses, i)
           c == ClosedIn(incarnations, drains, i)
           x == Request(w)
           me == worker[w]
           req == requests[w]
           rep == replies[w]
<1>5. Tracks(me, req, rep, U, c)
  BY <1>2 DEF Served, Tracked, Live
<1>6. Tracks(me2, req2, rep, U, c)
  <2>1. /\ me2 = IF Awaited(Program[me.step].op) THEN [me EXCEPT !.pc = "recv"]
                                                ELSE AtStep(me, me.step + 1)
        /\ req2 = Append(req, x)
    BY <1>1
  <2>2. /\ me \in WorkerRecord /\ req \in Seq(RequestFrame) /\ rep \in Seq(ReplyFrame)
        /\ InOrder(me, req, rep) /\ me.pc = "send"
        /\ x \in RequestFrame /\ (x.op = "RELEASE" => x.use_id = me.use)
    BY <1>2, <1>3, <1>4
  <2> HIDE DEF U, c, x, me, req, rep
  <2> QED BY <1>5, <2>1, <2>2, SendTracks
<1>7. Tracked(me2, session[w], req2, replies[w], active_uses', incarnations', drains')
  BY <1>2, <1>6 DEF Tracked
<1>8. OwnUses(w)
  BY <1>2 DEF OwnUses
<1> QED BY <1>1, <1>7, <1>8, ServedUpdate

LEMMA RecvServed ==
  ASSUME Serve <= 1, WorkerInv, Served, TypeOK', [Next]_vars, NEW w \in Worker, Recv(w)
  PROVE  Served'
<1>1. PICK me2 :
           /\ Becomes(w, me2, session[w], requests[w], Tail(replies[w]))
           /\ worker[w].pc = "recv" /\ replies[w] # <<>>
           /\ RecvOutcome(worker[w], replies[w][1], me2)
           /\ me2.use = IF Program[worker[w].step].op = "ACQUIRE"
                        THEN Field(replies[w][1], "ACQUIRE", 0) ELSE worker[w].use
  BY RecvStep DEF WorkerInv
<1>2. /\ active_uses' = active_uses /\ incarnations' = incarnations /\ drains' = drains
  BY DEF Recv, runtime, vars, useVars
<1>3. /\ worker[w] \in WorkerRecord /\ requests[w] \in Seq(RequestFrame)
      /\ replies[w] \in Seq(ReplyFrame) /\ InOrder(worker[w], requests[w], replies[w])
  BY DEF WorkerInv, Linked, Link, Framed
<1> DEFINE i == session[w].incarnation
           U == UsesIn(active_uses, i)
           c == ClosedIn(incarnations, drains, i)
           me == worker[w]
           req == requests[w]
           rep == replies[w]
<1>4. Tracks(me, req, rep, U, c)
  BY <1>1 DEF Served, Tracked, Live
<1>5. me2.pc \in Live => Tracks(me2, req, Tail(rep), U, c)
  <2>1. /\ me \in WorkerRecord /\ req \in Seq(RequestFrame) /\ rep \in Seq(ReplyFrame)
        /\ InOrder(me, req, rep) /\ me.pc = "recv" /\ rep # <<>>
        /\ RecvOutcome(me, rep[1], me2)
        /\ me2.use = IF Program[me.step].op = "ACQUIRE" THEN Field(rep[1], "ACQUIRE", 0)
                                                        ELSE me.use
    BY <1>1, <1>3
  <2> HIDE DEF U, c, me, req, rep
  <2> QED BY <1>4, <2>1, RecvTracks
<1>6. Tracked(me2, session[w], requests[w], Tail(replies[w]),
              active_uses', incarnations', drains')
  BY <1>2, <1>5 DEF Tracked
<1>7. OwnUses(w)
  BY <1>2 DEF OwnUses
<1> QED BY <1>1, <1>6, <1>7, ServedUpdate

\* The worker is gone, so nothing is asked of what it holds.
LEMMA GoneServed ==
  ASSUME WorkerInv, Served, TypeOK', [Next]_vars, NEW w \in Worker, Crash(w) \/ EndSession(w)
  PROVE  Served'
<1>1. active_uses' = active_uses
  BY DEF Crash, EndSession, runtime, vars, useVars
<1>2. OwnUses(w)
  BY <1>1 DEF OwnUses
<1>3. CASE Crash(w)
  <2> DEFINE me2 == [worker[w] EXCEPT !.pc = "crashed"]
  <2>1. PICK req2 : Becomes(w, me2, session[w], req2, <<>>) /\ Link(me2, session[w], req2, <<>>)
    BY <1>3, CrashStep DEF WorkerInv
  <2>2. worker[w] \in WorkerRecord
    BY DEF WorkerInv, Linked, Link, Framed
  <2>3. me2.pc = "crashed"
    BY <2>2 DEF WorkerRecord
  <2> HIDE DEF me2
  <2>4. Tracked(me2, session[w], req2, <<>>, active_uses', incarnations', drains')
    BY <2>3 DEF Tracked, Live
  <2> QED BY <1>2, <2>1, <2>4, ServedUpdate
<1>4. CASE EndSession(w)
  <2> DEFINE ses2 == [Idle EXCEPT !.stage = "ended"]
  <2>1. Becomes(w, worker[w], ses2, requests[w], replies[w])
    BY <1>4, EndStep DEF WorkerInv
  <2>2. worker[w].pc \in {"exited", "crashed"}
    BY <1>4 DEF EndSession, Gone
  <2> HIDE DEF ses2
  <2>3. Tracked(worker[w], ses2, requests[w], replies[w], active_uses', incarnations', drains')
    BY <2>2 DEF Tracked, Live
  <2> QED BY <1>2, <2>1, <2>3, ServedUpdate
<1> QED BY <1>3, <1>4

\* What an answer to w, which then has incarnation i, may have done to its uses.
Accounts(w, ok, value, i) ==
  LET old == UsesIn(active_uses, session[w].incarnation)
      new == UsesIn(active_uses', i)
      op  == Head(requests[w]).op
  IN
  /\ new \subseteq old \/ (op = "ACQUIRE" /\ ok /\ new \subseteq old \cup {value})
  /\ op = "RELEASE" /\ worker[w].pc \in Live =>
       new = {} \/ ClosedIn(incarnations', drains', i)

LEMMA AnswerServed ==
  ASSUME Serve <= 1, WorkerInv, Served, TypeOK', [Next]_vars, NEW w \in Worker,
         NEW ok \in BOOLEAN, NEW value \in Nat, NEW i \in Nat, Answer(w, ok, value, i),
         requests[w] # <<>>, Holds(session[w].incarnation, Head(requests[w]).op, ok, i),
         OwnUses(w), Accounts(w, ok, value, i)
  PROVE  Served'
<1> DEFINE ses2 == [Idle EXCEPT !.incarnation = i]
           x    == [of |-> Head(requests[w]).op, ok |-> ok, value |-> value]
           me   == worker[w]
           req  == requests[w]
           rep  == replies[w]
           rep2 == Answered(me, rep, x)
           U    == UsesIn(active_uses, session[w].incarnation)
           c    == ClosedIn(incarnations, drains, session[w].incarnation)
           U2   == UsesIn(active_uses', i)
           c2   == ClosedIn(incarnations', drains', i)
<1>1. /\ ses2.incarnation = i
      /\ x \in ReplyFrame /\ Head(req) = req[1]
      /\ Becomes(w, me, ses2, Tail(req), rep2)
  BY AnswerStep DEF WorkerInv
<1>2. /\ me \in WorkerRecord /\ req \in Seq(RequestFrame)
      /\ rep \in Seq(ReplyFrame) /\ InOrder(me, req, rep) /\ req # <<>>
  BY DEF WorkerInv, Linked, Link, Framed
<1>3. me.pc \in Live => Tracks(me, req, rep, U, c)
  BY DEF Served, Tracked
<1>4. x.of = req[1].op /\ x.ok = ok /\ x.value = value
  BY <1>1
<1>5. /\ \/ U2 \subseteq U
         \/ req[1].op = "ACQUIRE" /\ x.ok /\ U2 \subseteq U \cup {x.value}
      /\ me.pc \in Live /\ req[1].op = "RELEASE" => U2 = {} \/ c2
  BY <1>1, <1>4 DEF Accounts
<1>6. me.pc \in Live => rep2 = Append(rep, x)
  BY DEF Answered, Live
<1> HIDE DEF ses2, x, me, req, rep, rep2, U, c, U2, c2
<1>7. me.pc \in Live => Tracks(me, Tail(req), rep2, U2, c2)
  <2> SUFFICES ASSUME me.pc \in Live PROVE Tracks(me, Tail(req), rep2, U2, c2)
    OBVIOUS
  <2>1. x \in ReplyFrame /\ x.of = req[1].op
    BY <1>1, <1>4
  <2>2. /\ U2 \subseteq U \/ (req[1].op = "ACQUIRE" /\ x.ok /\ U2 \subseteq U \cup {x.value})
        /\ req[1].op = "RELEASE" => U2 = {} \/ c2
    BY <1>5
  <2>3. Tracks(me, req, rep, U, c) /\ rep2 = Append(rep, x)
    BY <1>3, <1>6
  <2>4. Tracks(me, Tail(req), Append(rep, x), U2, c2)
    BY <1>2, <2>1, <2>2, <2>3, AnswerTracks
  <2> QED BY <2>3, <2>4
<1>8. Tracked(me, ses2, Tail(req), rep2, active_uses', incarnations', drains')
  BY <1>1, <1>7 DEF Tracked, U2, c2
<1> QED BY <1>1, <1>8, ServedUpdate

\* The answer to another request than a release, when no use has changed.
LEMMA QuietServed ==
  ASSUME Serve <= 1, WorkerInv, Served, TypeOK', [Next]_vars, NEW w \in Worker,
         NEW ok \in BOOLEAN, NEW value \in Nat,
         Answer(w, ok, value, session[w].incarnation), requests[w] # <<>>,
         Head(requests[w]).op # "RELEASE", ok => Head(requests[w]).op # "REGISTER",
         active_uses' = active_uses
  PROVE  Served'
<1> DEFINE i == session[w].incarnation
<1>1. i \in Nat
  BY DEF WorkerInv, Linked, Link, Framed, SessionRecord
<1>2. Holds(i, Head(requests[w]).op, ok, i)
  BY DEF Holds
<1>3. OwnUses(w)
  BY DEF OwnUses
<1>4. Accounts(w, ok, value, i)
  BY DEF Accounts
<1> QED BY <1>1, <1>2, <1>3, <1>4, AnswerServed

LEMMA RefusedServed ==
  ASSUME Serve <= 1, WorkerInv, Served, TypeOK', [Next]_vars, NEW w \in Worker,
         Refused(w), requests[w] # <<>>, Head(requests[w]).op # "RELEASE"
  PROVE  Served'
<1>1. Answer(w, FALSE, 0, session[w].incarnation) /\ active_uses' = active_uses
  BY DEF Refused, Refuse, runtime, vars, useVars
<1>2. FALSE \in BOOLEAN /\ 0 \in Nat
  OBVIOUS
<1> QED BY <1>1, <1>2, QuietServed

LEMMA GotoServed ==
  ASSUME WorkerInv, Served, TypeOK', [Next]_vars, NEW w \in Worker,
         NEW stage, NEW id, NEW left, Goto(w, stage, id, left), active_uses' = active_uses
  PROVE  Served'
<1> DEFINE ses2 == [session[w] EXCEPT !.stage = stage, !.id = id, !.left = left]
<1>1. session[w] \in SessionRecord /\ Domains /\ TypeOK
  BY DEF WorkerInv, Linked, Link, Framed
<1>2. ses2.incarnation = session[w].incarnation
  BY <1>1 DEF SessionRecord
<1> HIDE DEF ses2
<1>3. /\ session' = [session EXCEPT ![w] = ses2]
      /\ worker' = worker /\ requests' = requests /\ replies' = replies
  BY DEF Goto, channels, ses2
<1>4. Becomes(w, worker[w], ses2, requests[w], replies[w])
  BY <1>1, <1>3 DEF Becomes, Domains
<1>5. Tracked(worker[w], session[w], requests[w], replies[w],
              active_uses, incarnations, drains)
  BY DEF Served
<1>6. Tracked(worker[w], ses2, requests[w], replies[w], active_uses', incarnations', drains')
  BY <1>1, <1>2, <1>5, TrackedKept
<1>7. OwnUses(w)
  BY DEF OwnUses
<1> QED BY <1>4, <1>6, <1>7, ServedUpdate

LEMMA HelloServed ==
  ASSUME Serve <= 1, WorkerInv, Served, TypeOK', [Next]_vars, NEW w \in Worker, Hello(w)
  PROVE  Served'
<1>1. /\ Handles(w, {"HELLO"}, "idle") /\ active_uses' = active_uses
      /\ Answer(w, TRUE, 0, session[w].incarnation)
  BY DEF Hello, Reply, runtime, vars, useVars
<1>2. requests[w] # <<>> /\ Head(requests[w]).op = "HELLO"
  BY <1>1, HandledRequest
<1>3. TRUE \in BOOLEAN /\ 0 \in Nat
  OBVIOUS
<1> QED BY <1>1, <1>2, <1>3, QuietServed

LEMMA IssuePermitServed ==
  ASSUME Serve <= 1, WorkerInv, Served, TypeOK', [Next]_vars, NEW w \in Worker, IssuePermit(w)
  PROVE  Served'
<1>1. Handles(w, {"REGISTER"}, "idle")
  BY DEF IssuePermit
<1>2. requests[w] # <<>> /\ Head(requests[w]).op = "REGISTER"
  BY <1>1, HandledRequest
<1>3. CASE IssueRegistrationPermit(w, 1) /\ Goto(w, "register", ids.permit + 1, 0)
  <2>1. active_uses' = active_uses
    BY <1>3 DEF IssueRegistrationPermit, useVars
  <2> QED BY <1>3, <2>1, GotoServed
<1>4. CASE Refused(w)
  BY <1>2, <1>4, RefusedServed
<1> QED BY <1>3, <1>4 DEF IssuePermit

\* A new incarnation has no use.
LEMMA RegisterServed ==
  ASSUME Serve <= 1, WorkerInv, Served, TypeOK', [Next]_vars, NEW w \in Worker, Register(w)
  PROVE  Served'
<1> DEFINE p == session[w].id
           i == ids.incarnation + 1
           g == incarnations'[i].readiness_generation
<1>1. Handles(w, {"REGISTER"}, "register")
  BY DEF Register
<1>2. requests[w] # <<>> /\ Head(requests[w]).op = "REGISTER" /\ session[w].stage = "register"
  BY <1>1, HandledRequest
<1>3. p \in DOMAIN permits /\ TypeOK
  BY <1>2 DEF WorkerInv, References, Refers
<1>4. ASSUME NEW e \in Engine, RegisterIncarnation(p, e), Answer(w, TRUE, g, i)
      PROVE  Served'
  <2>1. i \in Nat /\ i \notin DOMAIN incarnations /\ g = 1
    <3> HIDE DEF p
    <3>1. PICK id \in Nat :
            /\ id \notin DOMAIN incarnations /\ id = ids.incarnation + 1
            /\ incarnations'[id].readiness_generation = 1
      BY <1>3, <1>4, RegisterNew
    <3> QED BY <3>1
  <2>2. i # 0
    BY <1>3 DEF TypeOK, AuthorityType
  <2>3. active_uses' = active_uses
    BY <1>4 DEF RegisterIncarnation, useVars
  <2>4. Answer(w, TRUE, 1, i)
    BY <1>4, <2>1
  <2> HIDE DEF i, g, p
  <2>5. UsesIn(active_uses, i) = {}
    BY <1>3, <2>1, NoUseOfNone
  <2>6. OwnUses(w)
    BY <2>3 DEF OwnUses
  <2>7. Accounts(w, TRUE, 1, i)
    BY <1>2, <2>3, <2>5 DEF Accounts
  <2>8. Holds(session[w].incarnation, Head(requests[w]).op, TRUE, i)
    BY <2>2 DEF Holds
  <2>9. TRUE \in BOOLEAN /\ 1 \in Nat
    OBVIOUS
  <2> QED BY <1>2, <2>1, <2>4, <2>6, <2>7, <2>8, <2>9, AnswerServed
<1>5. CASE Refused(w)
  BY <1>2, <1>5, RefusedServed
<1> QED BY <1>4, <1>5 DEF Register

LEMMA PrepareServed ==
  ASSUME Serve <= 1, WorkerInv, Served, TypeOK', [Next]_vars, NEW w \in Worker, Prepare(w)
  PROVE  Served'
<1>1. ASSUME NEW stage, Handles(w, {"PREPARE"}, stage)
      PROVE  requests[w] # <<>> /\ Head(requests[w]).op = "PREPARE"
  BY <1>1, HandledRequest
<1>2. ASSUME NEW stage, NEW id, NEW left, Goto(w, stage, id, left), NEW x,
             CreatePreparationPlan(x) \/ BeginPreparation(x) \/ StepPreparation(x)
      PROVE  Served'
  <2>1. active_uses' = active_uses
    BY <1>2 DEF CreatePreparationPlan, BeginPreparation, StepPreparation, vars, useVars
  <2> QED BY <1>2, <2>1, GotoServed
<1>3. ASSUME Handles(w, {"PREPARE"}, "step"), NEW a, CompletePreparation(a), Reply(w, 0)
      PROVE  Served'
  <2>1. active_uses' = active_uses
    BY <1>3 DEF CompletePreparation, PublishReady, vars, useVars
  <2>2. Answer(w, TRUE, 0, session[w].incarnation) /\ TRUE \in BOOLEAN /\ 0 \in Nat
    BY <1>3 DEF Reply
  <2> QED BY <1>1, <1>3, <2>1, <2>2, QuietServed
<1>4. ASSUME NEW stage, Handles(w, {"PREPARE"}, stage), Refused(w) PROVE Served'
  BY <1>1, <1>4, RefusedServed
<1> QED BY <1>2, <1>3, <1>4 DEF Prepare

\* A release is refused at the gate only when the incarnation is closed for good.
LEMMA CheckTargetServed ==
  ASSUME Serve <= 1, WorkerInv, FenceMarks, Served, TypeOK', [Next]_vars,
         NEW w \in Worker, CheckTarget(w)
  PROVE  Served'
<1> DEFINE i == session[w].incarnation
<1>1. /\ Handles(w, Gated, "idle") /\ active_uses' = active_uses
      /\ incarnations' = incarnations /\ drains' = drains
  BY DEF CheckTarget, runtime, vars, useVars
<1>2. requests[w] # <<>> /\ i \in Nat /\ TypeOK
  BY <1>1, HandledRequest DEF WorkerInv
<1>3. CASE Goto(w, "operation", 0, 0)
  BY <1>1, <1>3, GotoServed
<1>4. CASE /\ i \notin DOMAIN incarnations \/ IncarnationIsFenced(i) \/ ~AdmissionOpen(i)
           /\ Refuse(w)
  <2>1. UsesIn(active_uses, i) = {} \/ ClosedIn(incarnations, drains, i)
    <3>1. CASE i \notin DOMAIN incarnations
      BY <1>2, <3>1, NoUseOfNone
    <3>2. CASE i \in DOMAIN incarnations /\ IncarnationIsFenced(i)
      <4>1. Marked(incarnations[i])
        BY <3>2 DEF FenceMarks
      <4>2. incarnations[i].registration = "FENCED"
        BY <3>2, <4>1 DEF Marked, IncarnationIsFenced, IsFenced
      <4> QED BY <3>2, <4>2 DEF ClosedIn
    <3>3. CASE i \in DOMAIN incarnations /\ ~AdmissionOpen(i)
      BY <3>3 DEF ClosedIn, AdmissionOpen, DrainOf, NoDrain
    <3> QED BY <1>4, <3>1, <3>2, <3>3
  <2>2. Answer(w, FALSE, 0, i) /\ FALSE \in BOOLEAN /\ 0 \in Nat
    BY <1>4 DEF Refuse
  <2>3. Accounts(w, FALSE, 0, i)
    BY <1>1, <2>1 DEF Accounts
  <2>4. OwnUses(w)
    BY <1>1 DEF OwnUses
  <2>5. Holds(i, Head(requests[w]).op, FALSE, i)
    BY DEF Holds
  <2> QED BY <1>2, <2>2, <2>3, <2>4, <2>5, AnswerServed
<1> QED BY <1>3, <1>4 DEF CheckTarget

LEMMA PerformServed ==
  ASSUME Serve <= 1, WorkerInv, Served, TypeOK', [Next]_vars, NEW w \in Worker, Perform(w)
  PROVE  Served'
<1> DEFINE i   == session[w].incarnation
           msg == Head(requests[w])
           val == ReplyValue(msg, i)
           old == UsesIn(active_uses, i)
           new == UsesIn(active_uses', i)
<1>1. Handles(w, Gated, "operation")
  BY DEF Perform
<1>2. /\ requests[w] # <<>> /\ msg.op \in Gated /\ i \in DOMAIN incarnations /\ i \in Nat
      /\ msg = requests[w][1] /\ msg.op # "REGISTER"
  <2>1. /\ requests[w] # <<>> /\ msg.op \in Gated /\ i \in DOMAIN incarnations /\ i \in Nat
        /\ msg = requests[w][1]
    BY <1>1, HandledRequest
  <2> QED BY <2>1 DEF Gated
<1>3. worker[w].pc \in Live /\ msg.op = "RELEASE" => old \subseteq {msg.use_id}
  <2> DEFINE me  == worker[w]
             req == requests[w]
             rep == replies[w]
             c   == ClosedIn(incarnations, drains, i)
  <2>1. /\ me \in WorkerRecord /\ req \in Seq(RequestFrame)
        /\ rep \in Seq(ReplyFrame) /\ InOrder(me, req, rep) /\ req # <<>> /\ msg = req[1]
    BY <1>2 DEF WorkerInv, Linked, Link, Framed
  <2>2. me.pc \in Live => Tracks(me, req, rep, old, c)
    BY DEF Served, Tracked
  <2> HIDE DEF me, req, rep, c, old, msg
  <2>3. me.pc \in Live /\ msg.op = "RELEASE" => old \subseteq {msg.use_id}
    BY <2>1, <2>2, ReleaseClaims
  <2> QED BY <2>3 DEF me
<1>4. CASE Operation(msg, i) /\ Reply(w, val)
  <2>1. \A j : /\ j # i => UsesIn(active_uses', j) \subseteq UsesIn(active_uses, j)
               /\ msg.op # "ACQUIRE" => UsesIn(active_uses', j) \subseteq UsesIn(active_uses, j)
               /\ UsesIn(active_uses', j) \subseteq UsesIn(active_uses, j) \cup {ids.use + 1}
               /\ msg.op = "RELEASE" => msg.use_id \in old /\ new = old \ {msg.use_id}
    BY <1>2, <1>4, OperationUses DEF WorkerInv
  <2>2. val \in Nat /\ (msg.op = "ACQUIRE" => val = ids.use + 1)
    BY DEF ReplyValue, WorkerInv, TypeOK, AuthorityType
  <2>3. Answer(w, TRUE, val, i) /\ TRUE \in BOOLEAN
    BY <1>4 DEF Reply
  <2>4. OwnUses(w)
    BY <2>1 DEF OwnUses
  <2> HIDE DEF val
  <2>5. new \subseteq old \/ (msg.op = "ACQUIRE" /\ new \subseteq old \cup {val})
    BY <2>1, <2>2
  <2>6. msg.op = "RELEASE" /\ worker[w].pc \in Live => new = {}
    <3> HIDE DEF old, new
    <3> QED BY <1>3, <2>1
  <2>7. Accounts(w, TRUE, val, i)
    BY <2>5, <2>6 DEF Accounts
  <2>8. Holds(i, msg.op, TRUE, i)
    BY <1>2 DEF Holds
  <2> QED BY <1>2, <2>2, <2>3, <2>4, <2>7, <2>8, AnswerServed
<1>5. CASE Throws(msg, i) /\ Refused(w)
  <2>1. /\ active_uses' = active_uses /\ Answer(w, FALSE, 0, i)
        /\ FALSE \in BOOLEAN /\ 0 \in Nat
    BY <1>5 DEF Refused, Refuse, runtime, vars, useVars
  <2>2. msg.op = "RELEASE" => msg.use_id \notin old
    BY <1>5, UsesInIs DEF Throws
  <2>3. msg.op = "RELEASE" /\ worker[w].pc \in Live => new = {}
    <3>1. new = old
      BY <2>1
    <3> HIDE DEF old, new
    <3> QED BY <1>3, <2>2, <3>1
  <2>4. Accounts(w, FALSE, 0, i)
    BY <2>1, <2>3 DEF Accounts
  <2>5. OwnUses(w)
    BY <2>1 DEF OwnUses
  <2>6. Holds(i, msg.op, FALSE, i)
    BY DEF Holds
  <2> QED BY <1>2, <2>1, <2>4, <2>5, <2>6, AnswerServed
<1> QED BY <1>4, <1>5 DEF Perform

LEMMA ServedStep ==
  ASSUME Serve <= 1, WorkerInv, FenceMarks, Served, [WorkerNext]_allVars
  PROVE  FenceMarks' /\ Served'
<1>1. TypeOK /\ TypeOK' /\ RecordsType /\ [PrepNext]_runtime
  BY WorkerStep DEF WorkerInv, PreparationInv, PreparationTypeOK
<1>2. [Next]_vars
  BY <1>1, PrepStepsAreSteps DEF runtime
<1>3. FenceMarks'
  BY <1>1, StepMoves, MovesMark
<1>4. ASSUME worker' = worker, session' = session, requests' = requests, replies' = replies,
             active_uses' = active_uses
      PROVE  Served'
  <2>1. ASSUME NEW w \in Worker
        PROVE  Tracked(worker[w], session[w], requests[w], replies[w],
                       active_uses', incarnations', drains')
    <3>1. Tracked(worker[w], session[w], requests[w], replies[w],
                  active_uses, incarnations, drains)
      BY DEF Served
    <3> QED BY <1>1, <1>2, <1>4, <3>1, TrackedKept
  <2> QED BY <1>4, <2>1 DEF Served
<1>5. CASE UNCHANGED allVars
  BY <1>3, <1>4, <1>5 DEF allVars, channels, runtime, vars
<1>6. CASE Controllers
  <2>1. active_uses' = active_uses
    <3>1. ASSUME NEW x, NEW y, FenceWorker(x, y) \/ BeginReplacement(x, y) \/ CommitCutover(x)
          PROVE  active_uses' = active_uses
      BY <3>1 DEF FenceWorker, BeginReplacement, CommitCutover, useVars
    <3> QED BY <1>6, <3>1 DEF Controllers
  <2> QED BY <1>3, <1>4, <1>6, <2>1 DEF Controllers, channels
<1>7. ASSUME NEW w \in Worker, Send(w) \/ Recv(w) \/ Crash(w) \/ EndSession(w) PROVE Served'
  BY <1>1, <1>2, <1>7, SendServed, RecvServed, GoneServed
<1>8. ASSUME NEW w \in Worker, Hello(w) \/ IssuePermit(w) \/ Register(w) \/ Prepare(w)
      PROVE  Served'
  BY <1>1, <1>2, <1>8, HelloServed, IssuePermitServed, RegisterServed, PrepareServed
<1>9. ASSUME NEW w \in Worker, CheckTarget(w) \/ Perform(w) PROVE Served'
  BY <1>1, <1>2, <1>9, CheckTargetServed, PerformServed
<1> QED BY <1>3, <1>5, <1>6, <1>7, <1>8, <1>9, ServeAssumption
        DEF WorkerNext, Process, Session

LEMMA ServedInit == WorkerInit => FenceMarks /\ Served
<1> SUFFICES ASSUME WorkerInit PROVE FenceMarks /\ Served
  OBVIOUS
<1>1. incarnations = NoMap /\ active_uses = NoMap
  BY DEF WorkerInit, PrepInit, Init
<1>2. FenceMarks
  BY <1>1 DEF FenceMarks, NoMap
<1>3. \A i : UsesIn(active_uses, i) = {}
  <2>1. DOMAIN active_uses = {}
    BY <1>1 DEF NoMap
  <2> QED BY <2>1 DEF UsesIn
<1>4. ASSUME NEW w \in Worker
      PROVE  Tracked(worker[w], session[w], requests[w], replies[w],
                     active_uses, incarnations, drains)
  <2>1. requests[w] = <<>>
    BY DEF WorkerInit
  <2>2. \A j \in 1 .. Len(requests[w]) : FALSE
    BY <2>1
  <2> DEFINE i == session[w].incarnation
             U == UsesIn(active_uses, i)
             c == ClosedIn(incarnations, drains, i)
  <2>3. U = {}
    BY <1>3
  <2> HIDE DEF U, c
  <2>4. Tracks(worker[w], requests[w], replies[w], U, c)
    BY <2>2, <2>3 DEF Tracks
  <2> QED BY <2>4 DEF Tracked, U, c
<1> QED BY <1>2, <1>4 DEF Served

\* A worker that serves at most one request, and has come to the end of its
\* program with nothing on its way, has left no use open on an incarnation that
\* can still be used: whatever was refused, and whoever was fenced or replaced
\* meanwhile, the release it sent named the use it was given.
THEOREM ReleaseCorrect ==
  ASSUME Serve <= 1
  PROVE  WorkerSpec => []ServedUsesAreReleased
<1>1. WorkerInv /\ FenceMarks /\ Served /\ [WorkerNext]_allVars => FenceMarks' /\ Served'
  BY ServedStep
<1>2. ASSUME WorkerInv, Served, NEW w \in Worker,
             worker[w].pc = "done", requests[w] = <<>>, Usable(w)
      PROVE  OpenUsesOf(session[w].incarnation) = {}
  <2> DEFINE i   == session[w].incarnation
             me  == worker[w]
             req == requests[w]
             rep == replies[w]
             U   == UsesIn(active_uses, i)
             c   == ClosedIn(incarnations, drains, i)
  <2>1. Tracks(me, req, rep, U, c)
    BY <1>2 DEF Served, Tracked, Live
  <2>2. ~c
    BY <1>2 DEF Usable, IncarnationIsFenced, IsFenced, AdmissionOpen, DrainOf, ClosedIn
  <2>3. /\ me \in WorkerRecord /\ req \in Seq(RequestFrame)
        /\ rep \in Seq(ReplyFrame) /\ InOrder(me, req, rep) /\ me.pc = "done" /\ req = <<>>
    BY <1>2 DEF WorkerInv, Linked, Link, Framed
  <2>4. OpenUsesOf(i) = U
    BY UsesInIs
  <2> HIDE DEF me, req, rep, U, c, i
  <2>5. /\ me.step = L + 1 => rep = <<>>
        /\ me.step # L + 1 => me.step = L + 4
    BY <2>3, Places DEF Live
  <2>6. L \in Nat
    BY SetupFacts
  <2>7. U = {}
    <3>1. CASE me.step = L + 1
      BY <2>1, <2>5, <3>1 DEF Tracks, Before
    <3>2. CASE me.step = L + 4
      <4>1. After(me, req)
        BY <2>3, <2>6, <3>2 DEF After
      <4> QED BY <2>1, <2>2, <4>1 DEF Tracks
    <3> QED BY <2>5, <3>1, <3>2
  <2> QED BY <2>4, <2>7 DEF i
<1>3. WorkerInv /\ Served => ServedUsesAreReleased
  BY <1>2 DEF ServedUsesAreReleased
<1> QED BY <1>1, <1>3, ServedInit, WorkerInvariant, PTL DEF WorkerSpec
=============================================================================
