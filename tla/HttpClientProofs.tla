--------------------------- MODULE HttpClientProofs ---------------------------
(***************************************************************************)
(* Proofs about the HTTP client: its five invariants, for any number of    *)
(* connections, requests and addresses and any of the modelled framings.   *)
(*                                                                         *)
(* The queue of handlers is looked at once, in RunInv and the lemmas about *)
(* it: at any time at most one thing is under way, an operation or the     *)
(* handler of one, and Current names it.  The invariants after that are    *)
(* about what a stage promises: how often the request was sent, whether    *)
(* the socket is open, and what can be on the wire.                        *)
(***************************************************************************)
EXTENDS HttpClient, FiniteSetTheorems, SequenceTheorems, TLAPS

Codes == ErrorCodes \cup {"last"}
Entries == [op : Ops \cup {"timer"}, ec : Codes, conn : Conn]

\* Of a queue of handlers: those that are not a timer's, and the ends of the
\* operations they handle.
Pending(q) == {i \in DOMAIN q : q[i].op # "timer"}
Stages(q) == {<<q[i].op, q[i].ec>> : i \in Pending(q)}
Single(q) == \A i, j \in Pending(q) : i = j

\* Where the request is: an operation that is under way, or the handler of one
\* that ended with an error_code.
Current == Stages(handlers) \cup (IF op = "none" THEN {} ELSE {<<op, "going">>})

Types == TypeOK /\ handlers \in Seq(Entries)

\* One thing is under way until the callback got its result, and nothing after
\* that but handlers of timers, which find nothing to cancel.
RunInv ==
  /\ ~stopped
  /\ Single(handlers)
  /\ op # "none" => Stages(handlers) = {}
  /\ Current # {} => pc = "run" /\ result = "none"
  /\ pc = "run" /\ result = "none" => Current # {}
  /\ timer => pc = "run" /\ result = "none"
  /\ op = "connect" => endpoints >= 1
  /\ result # "none" => streambuf = <<>>
  /\ pc = "idle" => handlers = <<>> /\ streambuf = <<>> /\ (req = 0 \/ result # "none")

-----------------------------------------------------------------------------
(***************************************************************************)
(* The queue of handlers.                                                  *)
(***************************************************************************)
\* A handler that is appended adds its stage, unless it is a timer's.
LEMMA StagesAppend ==
  ASSUME NEW q \in Seq(Entries), NEW h \in Entries
  PROVE  /\ Append(q, h) \in Seq(Entries)
         /\ h.op = "timer" => /\ Stages(Append(q, h)) = Stages(q)
                              /\ Single(q) => Single(Append(q, h))
         /\ h.op # "timer" /\ Stages(q) = {} =>
              Stages(Append(q, h)) = {<<h.op, h.ec>>} /\ Single(Append(q, h))
<1> DEFINE a == Append(q, h)
<1>1. /\ a \in Seq(Entries) /\ Len(a) = Len(q) + 1
      /\ \A i \in 1..Len(q) : a[i] = q[i]
      /\ a[Len(q) + 1] = h
  BY AppendProperties
<1>2. Len(q) \in Nat /\ DOMAIN q = 1..Len(q) /\ DOMAIN a = 1..(Len(q) + 1)
  BY <1>1, LenProperties
<1> HIDE DEF a
<1>3. ASSUME h.op = "timer" PROVE Pending(a) = Pending(q)
  BY <1>1, <1>2, <1>3 DEF Pending
<1>4. ASSUME h.op = "timer" PROVE Stages(a) = Stages(q) /\ (Single(q) => Single(a))
  <2>1. \A i \in Pending(q) : a[i] = q[i]
    BY <1>1, <1>2 DEF Pending
  <2>2. QED
    BY <1>3, <1>4, <2>1 DEF Stages, Single
<1>5. ASSUME h.op # "timer", Stages(q) = {}
      PROVE  Stages(a) = {<<h.op, h.ec>>} /\ Single(a)
  <2>1. Pending(q) = {}
    BY <1>5 DEF Stages
  <2>2. Pending(a) = {Len(q) + 1}
    BY <1>1, <1>2, <1>5, <2>1 DEF Pending
  <2>3. QED
    BY <1>1, <2>2 DEF Stages, Single
<1>6. QED
  BY <1>1, <1>4, <1>5 DEF a

\* The handler that runs leaves the queue, and with it its stage.
LEMMA StagesTail ==
  ASSUME NEW q \in Seq(Entries), q # <<>>, Single(q)
  PROVE  /\ Tail(q) \in Seq(Entries) /\ Head(q) \in Entries
         /\ Single(Tail(q))
         /\ Head(q).op = "timer" => Stages(Tail(q)) = Stages(q)
         /\ Head(q).op # "timer" =>
              /\ Stages(q) = {<<Head(q).op, Head(q).ec>>}
              /\ Stages(Tail(q)) = {}
<1> DEFINE t == Tail(q)
<1>1. /\ t \in Seq(Entries) /\ Head(q) \in Entries /\ Len(t) = Len(q) - 1
      /\ \A i \in 1..Len(t) : t[i] = q[i + 1]
  BY HeadTailProperties
<1>2. /\ Len(q) \in Nat /\ Len(q) > 0
      /\ DOMAIN q = 1..Len(q) /\ DOMAIN t = 1..(Len(q) - 1) /\ Head(q) = q[1]
  BY <1>1, LenProperties, EmptySeq
<1> HIDE DEF t
<1>3. \A i : i \in Pending(t) <=> i \in 1..(Len(q) - 1) /\ q[i + 1].op # "timer"
  BY <1>1, <1>2 DEF Pending
<1>4. \A i \in Pending(t) : i + 1 \in Pending(q) /\ t[i] = q[i + 1] /\ i \in Nat
  BY <1>1, <1>2, <1>3 DEF Pending
<1>5. Single(t)
  <2> SUFFICES ASSUME NEW i \in Pending(t), NEW j \in Pending(t) PROVE i = j
    BY DEF Single
  <2>1. i + 1 = j + 1 /\ i \in Nat /\ j \in Nat
    BY <1>4 DEF Single
  <2>2. QED
    BY <2>1
<1>6. ASSUME q[1].op = "timer" PROVE Stages(t) = Stages(q)
  <2>1. \A i \in Pending(q) : i - 1 \in Pending(t) /\ t[i - 1] = q[i]
    <3> SUFFICES ASSUME NEW i \in Pending(q) PROVE i - 1 \in Pending(t) /\ t[i - 1] = q[i]
      OBVIOUS
    <3>1. i \in 1..Len(q) /\ q[i].op # "timer" /\ i # 1
      BY <1>2, <1>6 DEF Pending
    <3>2. i - 1 \in 1..(Len(q) - 1) /\ (i - 1) + 1 = i
      BY <1>2, <3>1
    <3>3. QED
      BY <1>1, <1>2, <1>3, <3>1, <3>2
  <2>2. ASSUME NEW s \in Stages(t) PROVE s \in Stages(q)
    <3>1. PICK i \in Pending(t) : s = <<t[i].op, t[i].ec>>
      BY <2>2 DEF Stages
    <3>2. QED
      BY <1>4, <3>1 DEF Stages
  <2>3. ASSUME NEW s \in Stages(q) PROVE s \in Stages(t)
    <3>1. PICK i \in Pending(q) : s = <<q[i].op, q[i].ec>>
      BY <2>3 DEF Stages
    <3>2. QED
      BY <2>1, <3>1 DEF Stages
  <2>4. QED
    BY <2>2, <2>3
<1>7. ASSUME q[1].op # "timer"
      PROVE  Stages(q) = {<<q[1].op, q[1].ec>>} /\ Stages(t) = {}
  <2>1. 1 \in Pending(q)
    BY <1>2, <1>7 DEF Pending
  <2>2. Pending(q) = {1}
    BY <2>1 DEF Single
  <2>3. Pending(t) = {}
    BY <1>2, <1>3, <1>4, <2>2
  <2>4. QED
    BY <2>2, <2>3 DEF Stages
<1>8. QED
  BY <1>1, <1>2, <1>5, <1>6, <1>7 DEF t

-----------------------------------------------------------------------------
(***************************************************************************)
(* How the actions move the request from stage to stage.                   *)
(***************************************************************************)
\* An operation that completes becomes its handler.
LEMMA CompleteStage ==
  ASSUME Types, RunInv, op \in Ops, NEW ec \in Codes, Complete(ec)
  PROVE  /\ Current = {<<op, "going">>} /\ Current' = {<<op, ec>>}
         /\ pc = "run" /\ result = "none" /\ op' = "none"
         /\ handlers' \in Seq(Entries) /\ Single(handlers') /\ Stages(handlers') = {<<op, ec>>}
<1>1. op # "none" /\ op # "timer"
  BY DEF Ops, Reads
<1>2. Stages(handlers) = {} /\ handlers \in Seq(Entries) /\ connection \in Conn
  BY <1>1 DEF Types, TypeOK, RunInv
<1>3. Current = {<<op, "going">>}
  BY <1>1, <1>2 DEF Current
<1>4. pc = "run" /\ result = "none"
  BY <1>3 DEF RunInv
<1>5. Done(op, ec) \in Entries /\ Done(op, ec).op = op /\ Done(op, ec).ec = ec
  BY <1>2 DEF Done, Entries
<1>6. handlers' = Append(handlers, Done(op, ec)) /\ op' = "none"
  BY DEF Complete
<1>7. handlers' \in Seq(Entries) /\ Single(handlers') /\ Stages(handlers') = {<<op, ec>>}
  BY <1>1, <1>2, <1>5, <1>6, StagesAppend
<1>8. Current' = {<<op, ec>>}
  BY <1>6, <1>7 DEF Current
<1>9. QED
  BY <1>3, <1>4, <1>6, <1>7, <1>8

\* A handler runs when nothing else is under way.
LEMMA HandleStage ==
  ASSUME Types, RunInv, NEW o \in Ops, NEW ec, Handle(o, ec)
  PROVE  /\ Current = {<<o, ec>>} /\ ec \in Codes
         /\ pc = "run" /\ result = "none" /\ op = "none"
         /\ handlers' \in Seq(Entries) /\ Single(handlers') /\ Stages(handlers') = {}
         /\ stopped' = stopped /\ req' = req /\ sent' = sent
<1>1. /\ handlers # <<>> /\ Head(handlers).op = o /\ Head(handlers).ec = ec
      /\ handlers' = Tail(handlers) /\ pc = "run"
      /\ stopped' = stopped /\ req' = req /\ sent' = sent
  BY DEF Handle, Runs
<1>2. handlers \in Seq(Entries) /\ Single(handlers) /\ o # "timer"
  BY DEF Types, RunInv, Ops, Reads
<1>3. /\ Tail(handlers) \in Seq(Entries) /\ Head(handlers) \in Entries
      /\ Single(Tail(handlers))
      /\ Stages(handlers) = {<<o, ec>>} /\ Stages(Tail(handlers)) = {}
  BY <1>1, <1>2, StagesTail
<1>4. ec \in Codes
  BY <1>1, <1>3 DEF Entries
<1>5. op = "none"
  BY <1>3 DEF RunInv
<1>6. Current = {<<o, ec>>}
  BY <1>3, <1>5 DEF Current
<1>7. result = "none"
  BY <1>6 DEF RunInv
<1>8. QED
  BY <1>1, <1>3, <1>4, <1>5, <1>6, <1>7

\* A timer that expires moves nothing.
LEMMA ExpireStage ==
  ASSUME Types, RunInv, Expire
  PROVE  /\ Current' = Current /\ Stages(handlers') = Stages(handlers)
         /\ handlers' \in Seq(Entries) /\ Single(handlers')
<1>1. handlers \in Seq(Entries) /\ Single(handlers) /\ connection \in Conn
  BY DEF Types, TypeOK, RunInv
<1>2. handlers' = Append(handlers, Done("timer", "ok")) /\ op' = op
  BY DEF Expire
<1>3. Done("timer", "ok") \in Entries /\ Done("timer", "ok").op = "timer"
  BY <1>1 DEF Done, Entries, Codes, ErrorCodes
<1>4. /\ handlers' \in Seq(Entries) /\ Single(handlers')
      /\ Stages(handlers') = Stages(handlers)
  BY <1>1, <1>2, <1>3, StagesAppend
<1>5. QED
  BY <1>2, <1>4 DEF Current

\* The handler of a timer moves nothing, or aborts what is under way.
LEMMA TimerStage ==
  ASSUME Types, RunInv, TimerHandler
  PROVE  /\ handlers' \in Seq(Entries) /\ Single(handlers') /\ pc = "run"
         /\ \/ Current' = Current /\ op' = op /\ Stages(handlers') = Stages(handlers)
            \/ /\ op \in Ops /\ op # "resolve" /\ op' = "none"
               /\ Current = {<<op, "going">>} /\ Current' = {<<op, "aborted">>}
               /\ Stages(handlers') = {<<op, "aborted">>}
         /\ endpoints' \in {endpoints, endpoints - 1}
         /\ endpoints' # endpoints => endpoints > 1
<1> DEFINE cancels == Head(handlers).conn = connection /\ Cancellable
           next == cancels /\ op = "connect" /\ endpoints > 1
<1>1. /\ endpoints' = IF next THEN endpoints - 1 ELSE endpoints
      /\ op' = IF cancels /\ ~next THEN "none" ELSE op
      /\ handlers' = Tail(handlers) \o
                     (IF cancels /\ ~next THEN <<Done(op, "aborted")>> ELSE <<>>)
      /\ handlers # <<>> /\ Head(handlers).op = "timer" /\ pc = "run"
  BY DEF TimerHandler, Runs
<1>2. handlers \in Seq(Entries) /\ Single(handlers) /\ connection \in Conn
  BY DEF Types, TypeOK, RunInv
<1>3. /\ Tail(handlers) \in Seq(Entries) /\ Single(Tail(handlers))
      /\ Stages(Tail(handlers)) = Stages(handlers)
  BY <1>1, <1>2, StagesTail
<1>4. endpoints' \in {endpoints, endpoints - 1} /\ (endpoints' # endpoints => endpoints > 1)
  BY <1>1
<1>5. CASE ~(cancels /\ ~next)
  <2>1. handlers' = Tail(handlers) \o <<>> /\ op' = op
    BY <1>1, <1>5
  <2>2. handlers' = Tail(handlers)
    BY <1>3, <2>1, ConcatEmptySeq
  <2>3. Current' = Current
    BY <1>3, <2>1, <2>2 DEF Current
  <2>4. QED
    BY <1>1, <1>3, <1>4, <2>1, <2>2, <2>3
<1>6. CASE cancels /\ ~next
  <2>1. op \in Ops /\ op # "resolve" /\ op # "none" /\ op # "timer"
    BY <1>6 DEF Cancellable, Types, TypeOK, Ops, Reads
  <2>2. handlers' = Tail(handlers) \o <<Done(op, "aborted")>> /\ op' = "none"
    BY <1>1, <1>6
  <2>3. /\ Done(op, "aborted") \in Entries
        /\ Done(op, "aborted").op = op /\ Done(op, "aborted").ec = "aborted"
    BY <1>2, <2>1 DEF Done, Entries, Codes, ErrorCodes
  <2>4. handlers' = Append(Tail(handlers), Done(op, "aborted"))
    BY <1>3, <2>2, <2>3, AppendIsConcat
  <2>5. Stages(handlers) = {}
    BY <2>1 DEF RunInv
  <2>6. /\ handlers' \in Seq(Entries) /\ Single(handlers')
        /\ Stages(handlers') = {<<op, "aborted">>}
    BY <1>3, <2>1, <2>3, <2>4, <2>5, StagesAppend
  <2>7. Current = {<<op, "going">>}
    BY <2>1, <2>5 DEF Current
  <2>8. Current' = {<<op, "aborted">>}
    BY <2>2, <2>6 DEF Current
  <2>9. QED
    BY <1>1, <1>4, <2>1, <2>2, <2>6, <2>7, <2>8
<1>7. QED
  BY <1>5, <1>6

-----------------------------------------------------------------------------
(***************************************************************************)
(* The operators on connections and answers.                               *)
(***************************************************************************)
Connections == [in_use : BOOLEAN, attempt_reconnect : BOOLEAN, is_open : BOOLEAN,
                wire : Seq(Items), inbox : 0..MaxRequests, sending : 0..MaxRequests,
                peer : BOOLEAN]

\* What the client has not read yet.
Wire == conn[connection].wire

\* A connection that was just made is one.
LEMMA NewConnectionType == NewConnection \in Connections
<1>1. <<>> \in Seq(Items) /\ 0 \in 0..MaxRequests
  BY HttpClientAssumption
<1>2. QED
  BY <1>1 DEF NewConnection, Connections

\* What the session's callback does, whatever the pool.
LEMMA CallbackTypes ==
  ASSUME connections \subseteq Conn, NEW cs \in [Conn -> Connections], NEW ec,
         callback(cs, ec)
  PROVE  /\ connections' \subseteq Conn /\ conn' \in [Conn -> Connections]
         /\ result' = ec /\ streambuf' = <<>> /\ op' = "none" /\ timer' = FALSE
<1> DEFINE idle == {c \in connections \ Broken(ec) : c = connection \/ ~cs[c].in_use}
<1>1. PICK spare \in IF idle = {} THEN {{}} ELSE {idle \ {c} : c \in idle} :
        /\ connections' = connections \ (Broken(ec) \cup spare)
        /\ conn' = [c \in Conn |->
             IF c \in Broken(ec) \cup spare THEN NewConnection
             ELSE IF c = connection THEN [cs[c] EXCEPT !.in_use = FALSE] ELSE cs[c]]
  BY DEF callback
<1>2. \A c \in Conn : [cs[c] EXCEPT !.in_use = FALSE] \in Connections
  BY DEF Connections
<1>3. conn' \in [Conn -> Connections]
  BY <1>1, <1>2, NewConnectionType
<1>4. /\ result' = ec /\ streambuf' = <<>> /\ op' = "none" /\ timer' = FALSE
  BY DEF callback
<1>5. QED
  BY <1>1, <1>3, <1>4

\* An answer is a start, a header and, unless its length is bad or chunks follow, a
\* body; only its end completes it.
LEMMA AnswerShape ==
  ASSUME NEW r \in 0..MaxRequests, NEW f \in AllFramings
  PROVE  /\ Answer(r, f) \in Seq(Items)
         /\ Len(Answer(r, f)) \in {2, 3}
         /\ \A i \in 1..Len(Answer(r, f)) :
              LET item == Answer(r, f)[i] IN
              /\ item.req = r /\ item.framing = f /\ item \notin Closing
              /\ i = 1 => item.part = "start"
              /\ i = 2 => item.part = "header"
              /\ i > 2 => item.part \notin {"start", "header"}
              /\ item.part \in {"body", "last"} => i = Len(Answer(r, f))
              /\ f = "unframed" => item.part \in {"start", "header", "body"}
              /\ f = "chunked" => item.part \in {"start", "header"}
<1>1. \A p \in Parts : /\ Item(r, p, f) \in Items /\ Item(r, p, f) \notin Closing
                      /\ Item(r, p, f).req = r /\ Item(r, p, f).part = p
                      /\ Item(r, p, f).framing = f
  <2>1. f # "close" /\ f \in AllFramings \cup {"close"}
    BY DEF AllFramings
  <2>2. QED
    BY <2>1 DEF Item, Items, Closing, Eof, Reset
<1> DEFINE it(p) == Item(r, p, f)
           Ends(t) == /\ t \in Seq(Items) /\ Len(t) \in {0, 1}
                      /\ \A i \in 1..Len(t) :
                           \E p \in Parts \ {"start", "header"} :
                             /\ t[i] = it(p)
                             /\ p \in {"body", "last"} => i = Len(t)
                             /\ f = "unframed" => p = "body"
                             /\ f # "chunked"
<1>2. \E t : Answer(r, f) = <<it("start"), it("header")>> \o t /\ Ends(t)
  <2>1. CASE f \in {"length", "until_close", "unframed"}
    <3>1. Answer(r, f) = <<it("start"), it("header")>> \o <<it("body")>>
      BY <2>1 DEF Answer
    <3>2. it("body") \in Items /\ "body" \in Parts \ {"start", "header"}
      BY <1>1 DEF Parts
    <3> HIDE DEF it
    <3>3. Ends(<<it("body")>>)
      BY <2>1, <3>2
    <3>4. QED
      BY <3>1, <3>3
  <2>3. CASE f = "bad_chunk"
    <3>1. Answer(r, f) = <<it("start"), it("header")>> \o <<it("bad_line")>>
      BY <2>3 DEF Answer
    <3>2. it("bad_line") \in Items /\ "bad_line" \in Parts \ {"start", "header"}
      BY <1>1 DEF Parts
    <3> HIDE DEF it
    <3>3. Ends(<<it("bad_line")>>)
      BY <2>3, <3>2
    <3>4. QED
      BY <3>1, <3>3
  <2>4. CASE f \in {"chunked", "bad_length"}
    <3>1. Answer(r, f) = <<it("start"), it("header")>> \o <<>>
      BY <2>4 DEF Answer
    <3> HIDE DEF it
    <3>2. Ends(<<>>)
      OBVIOUS
    <3>3. QED
      BY <3>1, <3>2
  <2>5. QED
    BY <2>1, <2>3, <2>4 DEF AllFramings
<1>3. PICK t : Answer(r, f) = <<it("start"), it("header")>> \o t /\ Ends(t)
  BY <1>2
<1>4. it("start") \in Items /\ it("header") \in Items
  BY <1>1 DEF Parts
<1> DEFINE a == Answer(r, f)
           h == <<it("start"), it("header")>>
<1>5. h \in Seq(Items) /\ Len(h) = 2 /\ h[1] = it("start") /\ h[2] = it("header")
  <2> HIDE DEF it
  <2>1. QED
    BY <1>4
<1> HIDE DEF h
<1>6. /\ a \in Seq(Items) /\ Len(a) = 2 + Len(t)
      /\ \A i \in 1..(2 + Len(t)) : a[i] = IF i <= 2 THEN h[i] ELSE t[i - 2]
  BY <1>3, <1>5, ConcatProperties DEF h
<1>7. t \in Seq(Items) /\ Len(t) \in {0, 1}
  BY <1>3
<1> HIDE DEF a
<1>8. ASSUME NEW i \in 1..Len(a)
      PROVE  /\ a[i].req = r /\ a[i].framing = f /\ a[i] \notin Closing
             /\ i = 1 => a[i].part = "start"
             /\ i = 2 => a[i].part = "header"
             /\ i > 2 => a[i].part \notin {"start", "header"}
             /\ a[i].part \in {"body", "last"} => i = Len(a)
             /\ f = "unframed" => a[i].part \in {"start", "header", "body"}
             /\ f = "chunked" => a[i].part \in {"start", "header"}
  <2>1. \A p \in Parts : /\ it(p) \notin Closing /\ it(p).req = r /\ it(p).part = p
                        /\ it(p).framing = f
    BY <1>1
  <2>2. CASE i <= 2
    <3>1. (i = 1 /\ a[i] = it("start")) \/ (i = 2 /\ a[i] = it("header"))
      BY <1>5, <1>6, <1>7, <2>2
    <3> HIDE DEF it
    <3>2. QED
      BY <2>1, <3>1 DEF Parts
  <2>3. CASE i > 2
    <3>1. a[i] = t[i - 2] /\ i - 2 \in 1..Len(t)
      BY <1>6, <1>7, <2>3
    <3>2. PICK p \in Parts \ {"start", "header"} :
            /\ a[i] = it(p)
            /\ p \in {"body", "last"} => i - 2 = Len(t)
            /\ f = "unframed" => p = "body"
            /\ f # "chunked"
      BY <1>3, <3>1
    <3> HIDE DEF it
    <3>3. i - 2 = Len(t) => i = Len(a)
      BY <1>6, <1>7
    <3>4. QED
      BY <2>1, <2>3, <3>2, <3>3
  <2>4. QED
    BY <1>6, <1>7, <2>2, <2>3
<1>9. a \in Seq(Items) /\ Len(a) \in {2, 3}
  <2>1. a \in Seq(Items) /\ Len(a) = 2 + Len(t)
    BY <1>6
  <2>2. PICK n \in {0, 1} : n = Len(t)
    BY <1>7
  <2>3. 2 + n \in {2, 3}
    OBVIOUS
  <2>4. QED
    BY <2>1, <2>2, <2>3
<1>10. \A i \in 1..Len(a) :
         LET item == a[i] IN
         /\ item.req = r /\ item.framing = f /\ item \notin Closing
         /\ i = 1 => item.part = "start"
         /\ i = 2 => item.part = "header"
         /\ i > 2 => item.part \notin {"start", "header"}
         /\ item.part \in {"body", "last"} => i = Len(a)
         /\ f = "unframed" => item.part \in {"start", "header", "body"}
         /\ f = "chunked" => item.part \in {"start", "header"}
  BY <1>8, Zenon
<1>11. QED
  BY <1>9, <1>10, Zenon DEF a

-----------------------------------------------------------------------------
(***************************************************************************)
(* Types and the flow of a request.                                        *)
(***************************************************************************)
\* Something is under way after a step.
LEMMA RunsOn ==
  ASSUME ~stopped', Single(handlers'), op' = "none" \/ Stages(handlers') = {},
         Current' # {}, pc' = "run", result' = "none", op' = "connect" => endpoints' >= 1
  PROVE  RunInv'
BY DEF RunInv

\* A step begins an operation.
LEMMA BeginRun ==
  ASSUME ~stopped', Single(handlers'), Stages(handlers') = {}, NEW o \in Ops, op' = o,
         pc' = "run", result' = "none", op' = "connect" => endpoints' >= 1
  PROVE  RunInv' /\ Current' = {<<o, "going">>}
<1>1. o # "none"
  BY DEF Ops, Reads
<1>2. Current' = {<<o, "going">>}
  BY <1>1 DEF Current
<1>3. QED
  BY <1>2, RunsOn

\* A step calls the callback.
LEMMA CallbackRun ==
  ASSUME ~stopped', Single(handlers'), Stages(handlers') = {}, op' = "none", timer' = FALSE,
         streambuf' = <<>>, pc' = "run", result' # "none"
  PROVE  RunInv' /\ Current' = {}
<1>1. Current' = {}
  BY DEF Current
<1>2. QED
  BY <1>1 DEF RunInv

\* The fields of a connection can be assigned.
LEMMA Assigned ==
  ASSUME NEW r \in Connections
  PROVE  /\ \A b \in BOOLEAN : /\ [r EXCEPT !.in_use = b] \in Connections
                               /\ [r EXCEPT !.attempt_reconnect = b] \in Connections
                               /\ [r EXCEPT !.is_open = b] \in Connections
                               /\ [r EXCEPT !.peer = b] \in Connections
         /\ \A n \in 0..MaxRequests : /\ [r EXCEPT !.inbox = n] \in Connections
                                      /\ [r EXCEPT !.sending = n] \in Connections
         /\ \A w \in Seq(Items) : [r EXCEPT !.wire = w] \in Connections
BY DEF Connections

\* ... of one connection in the table of all.
LEMMA FieldSet ==
  ASSUME NEW f \in [Conn -> Connections], NEW c \in Conn
  PROVE  /\ \A b \in BOOLEAN :
              /\ [f EXCEPT ![c].in_use = b] \in [Conn -> Connections]
              /\ [f EXCEPT ![c].attempt_reconnect = b] \in [Conn -> Connections]
              /\ [f EXCEPT ![c].is_open = b] \in [Conn -> Connections]
              /\ [f EXCEPT ![c].peer = b] \in [Conn -> Connections]
         /\ \A n \in 0..MaxRequests : [f EXCEPT ![c].inbox = n] \in [Conn -> Connections]
         /\ \A n \in 0..MaxRequests : [f EXCEPT ![c].sending = n] \in [Conn -> Connections]
         /\ \A w \in Seq(Items) : [f EXCEPT ![c].wire = w] \in [Conn -> Connections]
<1>1. f[c] \in Connections
  OBVIOUS
<1>2. \A r \in Connections : [f EXCEPT ![c] = r] \in [Conn -> Connections]
  OBVIOUS
<1>3. ASSUME NEW b \in BOOLEAN PROVE [f EXCEPT ![c].in_use = b] \in [Conn -> Connections]
  <2>1. [f EXCEPT ![c].in_use = b] = [f EXCEPT ![c] = [f[c] EXCEPT !.in_use = b]]
    BY Zenon
  <2>2. [f[c] EXCEPT !.in_use = b] \in Connections
    BY <1>1, Assigned
  <2>3. QED
    BY <1>2, <2>1, <2>2, Zenon
<1>4. ASSUME NEW b \in BOOLEAN PROVE [f EXCEPT ![c].attempt_reconnect = b] \in [Conn -> Connections]
  <2>1. [f EXCEPT ![c].attempt_reconnect = b] = [f EXCEPT ![c] = [f[c] EXCEPT !.attempt_reconnect = b]]
    BY Zenon
  <2>2. [f[c] EXCEPT !.attempt_reconnect = b] \in Connections
    BY <1>1, Assigned
  <2>3. QED
    BY <1>2, <2>1, <2>2, Zenon
<1>5. ASSUME NEW b \in BOOLEAN PROVE [f EXCEPT ![c].is_open = b] \in [Conn -> Connections]
  <2>1. [f EXCEPT ![c].is_open = b] = [f EXCEPT ![c] = [f[c] EXCEPT !.is_open = b]]
    BY Zenon
  <2>2. [f[c] EXCEPT !.is_open = b] \in Connections
    BY <1>1, Assigned
  <2>3. QED
    BY <1>2, <2>1, <2>2, Zenon
<1>6. ASSUME NEW b \in BOOLEAN PROVE [f EXCEPT ![c].peer = b] \in [Conn -> Connections]
  <2>1. [f EXCEPT ![c].peer = b] = [f EXCEPT ![c] = [f[c] EXCEPT !.peer = b]]
    BY Zenon
  <2>2. [f[c] EXCEPT !.peer = b] \in Connections
    BY <1>1, Assigned
  <2>3. QED
    BY <1>2, <2>1, <2>2, Zenon
<1>7. ASSUME NEW n \in 0..MaxRequests PROVE [f EXCEPT ![c].inbox = n] \in [Conn -> Connections]
  <2>1. [f EXCEPT ![c].inbox = n] = [f EXCEPT ![c] = [f[c] EXCEPT !.inbox = n]]
    BY Zenon
  <2>2. [f[c] EXCEPT !.inbox = n] \in Connections
    BY <1>1, Assigned
  <2>3. QED
    BY <1>2, <2>1, <2>2, Zenon
<1>8. ASSUME NEW w \in Seq(Items) PROVE [f EXCEPT ![c].wire = w] \in [Conn -> Connections]
  <2>1. [f EXCEPT ![c].wire = w] = [f EXCEPT ![c] = [f[c] EXCEPT !.wire = w]]
    BY Zenon
  <2>2. [f[c] EXCEPT !.wire = w] \in Connections
    BY <1>1, Assigned
  <2>3. QED
    BY <1>2, <2>1, <2>2, Zenon
<1>9. ASSUME NEW n \in 0..MaxRequests PROVE [f EXCEPT ![c].sending = n] \in [Conn -> Connections]
  <2>1. [f EXCEPT ![c].sending = n] = [f EXCEPT ![c] = [f[c] EXCEPT !.sending = n]]
    BY Zenon
  <2>2. [f[c] EXCEPT !.sending = n] \in Connections
    BY <1>1, Assigned
  <2>3. QED
    BY <1>2, <2>1, <2>2, Zenon
<1>10. QED
  BY <1>3, <1>4, <1>5, <1>6, <1>7, <1>8, <1>9, Zenon

\* The connection f[c] became g[c] and no other changed.
Others(f, g, c) == \A d \in Conn \ {c} : g[d] = f[d]

\* get_connection takes c.
LEMMA TakenConnection ==
  ASSUME NEW f \in [Conn -> Connections], NEW g, NEW c \in Conn,
         g = [f EXCEPT ![c].attempt_reconnect = TRUE, ![c].in_use = TRUE]
  PROVE  /\ g \in [Conn -> Connections] /\ Others(f, g, c)
         /\ g[c].attempt_reconnect = TRUE /\ g[c].is_open = f[c].is_open
         /\ g[c].wire = f[c].wire /\ g[c].inbox = f[c].inbox /\ g[c].peer = f[c].peer
         /\ g[c].sending = f[c].sending
<1> DEFINE e == [f EXCEPT ![c].attempt_reconnect = TRUE]
<1>1. e \in [Conn -> Connections]
  BY FieldSet
<1>2. g = [e EXCEPT ![c].in_use = TRUE]
  BY Zenon
<1>3. g \in [Conn -> Connections]
  <2> HIDE DEF e
  <2>1. [e EXCEPT ![c].in_use = TRUE] \in [Conn -> Connections]
    BY <1>1, FieldSet
  <2>2. QED
    BY <1>2, <2>1, Zenon
<1>4. /\ g[c].attempt_reconnect = TRUE /\ g[c].is_open = f[c].is_open
      /\ g[c].wire = f[c].wire /\ g[c].inbox = f[c].inbox /\ g[c].peer = f[c].peer
      /\ g[c].sending = f[c].sending
  BY DEF Connections
<1>5. QED
  BY <1>3, <1>4, SMT DEF Others

\* The kernel connected c.
LEMMA ConnectedConnection ==
  ASSUME NEW f \in [Conn -> Connections], NEW g, NEW c \in Conn,
         g = [f EXCEPT ![c].is_open = TRUE, ![c].peer = TRUE]
  PROVE  /\ g \in [Conn -> Connections] /\ Others(f, g, c)
         /\ g[c].attempt_reconnect = f[c].attempt_reconnect /\ g[c].is_open = TRUE
         /\ g[c].wire = f[c].wire /\ g[c].inbox = f[c].inbox /\ g[c].peer = TRUE
         /\ g[c].sending = f[c].sending
<1> DEFINE e == [f EXCEPT ![c].is_open = TRUE]
<1>1. e \in [Conn -> Connections]
  BY FieldSet
<1>2. g = [e EXCEPT ![c].peer = TRUE]
  BY Zenon
<1>3. g \in [Conn -> Connections]
  <2> HIDE DEF e
  <2>1. [e EXCEPT ![c].peer = TRUE] \in [Conn -> Connections]
    BY <1>1, FieldSet
  <2>2. QED
    BY <1>2, <2>1, Zenon
<1>4. /\ g[c].attempt_reconnect = f[c].attempt_reconnect /\ g[c].is_open = TRUE
      /\ g[c].wire = f[c].wire /\ g[c].inbox = f[c].inbox /\ g[c].peer = TRUE
      /\ g[c].sending = f[c].sending
  BY DEF Connections
<1>5. QED
  BY <1>3, <1>4, SMT DEF Others

\* The server answers on c, and closes it.
Served(f, g, c, w, m) ==
  g = [f EXCEPT ![c].inbox = 0, ![c].wire = @ \o w, ![c].sending = m]
Closed(f, g, c, end) ==
  g = [f EXCEPT ![c].peer = FALSE, ![c].sending = 0, ![c].wire = Append(@, end)]

\* The fields of c when the server answered.
LEMMA ServedConnection ==
  ASSUME NEW f \in [Conn -> Connections], NEW g, NEW c \in Conn, NEW w \in Seq(Items),
         NEW m \in 0..MaxRequests, Served(f, g, c, w, m)
  PROVE  /\ g \in [Conn -> Connections] /\ Others(f, g, c)
         /\ g[c].attempt_reconnect = f[c].attempt_reconnect /\ g[c].in_use = f[c].in_use
         /\ g[c].is_open = f[c].is_open /\ g[c].wire = f[c].wire \o w
         /\ g[c].inbox = 0 /\ g[c].peer = f[c].peer /\ g[c].sending = m
<1> DEFINE e == [f EXCEPT ![c].inbox = 0]
           v == f[c].wire \o w
           h == [e EXCEPT ![c].wire = v]
<1>0. /\ 0 \in 0..MaxRequests
      /\ g = [f EXCEPT ![c].inbox = 0, ![c].wire = @ \o w, ![c].sending = m]
  BY HttpClientAssumption DEF Served
<1>1. e \in [Conn -> Connections]
  BY <1>0, FieldSet
<1>2. v \in Seq(Items) /\ e[c].wire = f[c].wire
  BY ConcatProperties DEF Connections
<1>3. h \in [Conn -> Connections]
  <2> HIDE DEF e, v
  <2>1. QED
    BY <1>1, <1>2, FieldSet
<1>4. g = [h EXCEPT ![c].sending = m]
  <2>1. g = [[e EXCEPT ![c].wire = e[c].wire \o w] EXCEPT ![c].sending = m]
    BY <1>0, Zenon
  <2>2. QED
    BY <1>2, <2>1
<1>5. g \in [Conn -> Connections]
  <2> HIDE DEF h
  <2>1. [h EXCEPT ![c].sending = m] \in [Conn -> Connections]
    BY <1>3, FieldSet
  <2>2. QED
    BY <1>4, <2>1, Zenon
<1>6. /\ g[c].attempt_reconnect = f[c].attempt_reconnect /\ g[c].in_use = f[c].in_use
      /\ g[c].is_open = f[c].is_open /\ g[c].wire = f[c].wire \o w
      /\ g[c].inbox = 0 /\ g[c].peer = f[c].peer /\ g[c].sending = m
  BY <1>0 DEF Connections
<1>7. QED
  BY <1>0, <1>5, <1>6, SMT DEF Others

\* The server sends the chunks w on c, and perhaps no more.
LEMMA ChunkedConnection ==
  ASSUME NEW f \in [Conn -> Connections], NEW g, NEW c \in Conn, NEW w \in Seq(Items),
         \/ g = [f EXCEPT ![c].wire = w]
         \/ g = [f EXCEPT ![c].wire = w, ![c].sending = 0]
  PROVE  /\ g \in [Conn -> Connections] /\ Others(f, g, c)
         /\ g[c].attempt_reconnect = f[c].attempt_reconnect /\ g[c].in_use = f[c].in_use
         /\ g[c].is_open = f[c].is_open /\ g[c].wire = w
         /\ g[c].inbox = f[c].inbox /\ g[c].peer = f[c].peer
         /\ g[c].sending \in {0, f[c].sending}
<1> DEFINE e == [f EXCEPT ![c].wire = w]
<1>1. e \in [Conn -> Connections]
  BY FieldSet
<1>2. g = e \/ g = [e EXCEPT ![c].sending = 0]
  BY Zenon
<1>3. g \in [Conn -> Connections]
  <2> HIDE DEF e
  <2>1. 0 \in 0..MaxRequests
    BY HttpClientAssumption
  <2>2. [e EXCEPT ![c].sending = 0] \in [Conn -> Connections]
    BY <1>1, <2>1, FieldSet
  <2>3. QED
    BY <1>1, <1>2, <2>2, Zenon
<1>4. /\ g[c].attempt_reconnect = f[c].attempt_reconnect /\ g[c].in_use = f[c].in_use
      /\ g[c].is_open = f[c].is_open /\ g[c].wire = w
      /\ g[c].inbox = f[c].inbox /\ g[c].peer = f[c].peer
      /\ g[c].sending \in {0, f[c].sending}
  BY DEF Connections
<1>5. QED
  BY <1>3, <1>4, SMT DEF Others

\* The fields of c when the server closed it.
LEMMA ClosedConnection ==
  ASSUME NEW f \in [Conn -> Connections], NEW g, NEW c \in Conn, NEW end \in Items,
         Closed(f, g, c, end)
  PROVE  /\ g \in [Conn -> Connections] /\ Others(f, g, c)
         /\ g[c].attempt_reconnect = f[c].attempt_reconnect /\ g[c].in_use = f[c].in_use
         /\ g[c].is_open = f[c].is_open /\ g[c].wire = Append(f[c].wire, end)
         /\ g[c].inbox = f[c].inbox /\ g[c].peer = FALSE /\ g[c].sending = 0
<1> DEFINE d == [f EXCEPT ![c].peer = FALSE]
           e == [d EXCEPT ![c].sending = 0]
           v == Append(f[c].wire, end)
<1>0. g = [f EXCEPT ![c].peer = FALSE, ![c].sending = 0, ![c].wire = Append(@, end)]
  BY DEF Closed
<1>1. d \in [Conn -> Connections] /\ d[c].wire = f[c].wire
  <2>1. d \in [Conn -> Connections]
    BY FieldSet
  <2>2. d[c].wire = f[c].wire
    BY DEF Connections
  <2>3. QED
    BY <2>1, <2>2
<1>2. e \in [Conn -> Connections] /\ e[c].wire = d[c].wire
  <2> HIDE DEF d
  <2>1. 0 \in 0..MaxRequests
    BY HttpClientAssumption
  <2>2. [d EXCEPT ![c].sending = 0] \in [Conn -> Connections]
    BY <1>1, <2>1, FieldSet
  <2>3. [d EXCEPT ![c].sending = 0][c].wire = d[c].wire
    BY <1>1 DEF Connections
  <2>4. QED
    BY <2>2, <2>3
<1>3. v \in Seq(Items)
  BY AppendProperties DEF Connections
<1>4. g = [e EXCEPT ![c].wire = Append(e[c].wire, end)]
  BY <1>0, Zenon
<1>5. g \in [Conn -> Connections]
  <2>1. g = [e EXCEPT ![c].wire = v]
    BY <1>1, <1>2, <1>4
  <2> HIDE DEF e, v
  <2>2. [e EXCEPT ![c].wire = v] \in [Conn -> Connections]
    BY <1>2, <1>3, FieldSet
  <2>3. QED
    BY <2>1, <2>2, Zenon
<1>6. /\ g[c].attempt_reconnect = f[c].attempt_reconnect /\ g[c].in_use = f[c].in_use
      /\ g[c].is_open = f[c].is_open /\ g[c].wire = Append(f[c].wire, end)
      /\ g[c].inbox = f[c].inbox /\ g[c].peer = FALSE /\ g[c].sending = 0
  BY <1>0 DEF Connections
<1>7. QED
  BY <1>0, <1>5, <1>6, SMT DEF Others

\* c takes the place of b.
LEMMA ReplacedConnection ==
  ASSUME NEW f \in [Conn -> Connections], NEW g, NEW b \in Conn, NEW c \in Conn, b # c,
         g = [f EXCEPT ![b] = NewConnection,
                       ![c].attempt_reconnect = FALSE, ![c].in_use = TRUE]
  PROVE  /\ g \in [Conn -> Connections] /\ \A d \in Conn \ {b, c} : g[d] = f[d]
         /\ g[b] = NewConnection
         /\ g[c].attempt_reconnect = FALSE /\ g[c].is_open = f[c].is_open
         /\ g[c].wire = f[c].wire /\ g[c].inbox = f[c].inbox /\ g[c].peer = f[c].peer
         /\ g[c].sending = f[c].sending
<1> DEFINE e == [f EXCEPT ![b] = NewConnection]
           h == [e EXCEPT ![c].attempt_reconnect = FALSE]
<1>1. /\ e \in [Conn -> Connections] /\ e[c] = f[c] /\ e[b] = NewConnection
      /\ \A d \in Conn \ {b, c} : e[d] = f[d]
  BY NewConnectionType
<1>2. g = [h EXCEPT ![c].in_use = TRUE]
  BY Zenon
<1>3. h \in [Conn -> Connections]
  <2> HIDE DEF e
  <2>1. QED
    BY <1>1, FieldSet
<1>4. g \in [Conn -> Connections]
  <2> HIDE DEF h
  <2>1. [h EXCEPT ![c].in_use = TRUE] \in [Conn -> Connections]
    BY <1>3, FieldSet
  <2>2. QED
    BY <1>2, <2>1, Zenon
<1>5. /\ g[c].attempt_reconnect = FALSE /\ g[c].is_open = f[c].is_open
      /\ g[c].wire = f[c].wire /\ g[c].inbox = f[c].inbox /\ g[c].peer = f[c].peer
      /\ g[c].sending = f[c].sending
  <2>1. /\ g[c].attempt_reconnect = FALSE /\ g[c].is_open = e[c].is_open
        /\ g[c].wire = e[c].wire /\ g[c].inbox = e[c].inbox /\ g[c].peer = e[c].peer
        /\ g[c].sending = e[c].sending
    <3> HIDE DEF e
    <3>1. QED
      BY <1>1, <1>2 DEF Connections
  <2>2. QED
    BY <1>1, <2>1
<1>6. g[b] = NewConnection /\ \A d \in Conn \ {b, c} : g[d] = f[d]
  <2> HIDE DEF e
  <2>1. QED
    BY <1>1, <1>2, SMT
<1>7. QED
  BY <1>4, <1>5, <1>6

\* One field of c is assigned.
LEMMA OneField ==
  ASSUME NEW f \in [Conn -> Connections], NEW g, NEW c \in Conn
  PROVE  /\ \A w \in Seq(Items) : g = [f EXCEPT ![c].wire = w] =>
              /\ g \in [Conn -> Connections] /\ Others(f, g, c)
              /\ g[c].attempt_reconnect = f[c].attempt_reconnect
              /\ g[c].is_open = f[c].is_open
              /\ g[c].wire = w /\ g[c].inbox = f[c].inbox /\ g[c].peer = f[c].peer
              /\ g[c].sending = f[c].sending
         /\ \A n \in 0..MaxRequests : g = [f EXCEPT ![c].inbox = n] =>
              /\ g \in [Conn -> Connections] /\ Others(f, g, c)
              /\ g[c].attempt_reconnect = f[c].attempt_reconnect
              /\ g[c].is_open = f[c].is_open
              /\ g[c].wire = f[c].wire /\ g[c].inbox = n /\ g[c].peer = f[c].peer
              /\ g[c].sending = f[c].sending
         /\ g = [f EXCEPT ![c].attempt_reconnect = TRUE] =>
              /\ g \in [Conn -> Connections] /\ Others(f, g, c)
              /\ g[c].attempt_reconnect = TRUE /\ g[c].is_open = f[c].is_open
              /\ g[c].wire = f[c].wire /\ g[c].inbox = f[c].inbox /\ g[c].peer = f[c].peer
              /\ g[c].sending = f[c].sending
<1>1. ASSUME NEW w \in Seq(Items), g = [f EXCEPT ![c].wire = w]
      PROVE  /\ g \in [Conn -> Connections] /\ Others(f, g, c)
             /\ g[c].attempt_reconnect = f[c].attempt_reconnect
             /\ g[c].is_open = f[c].is_open
             /\ g[c].wire = w /\ g[c].inbox = f[c].inbox /\ g[c].peer = f[c].peer
             /\ g[c].sending = f[c].sending
  <2>1. g \in [Conn -> Connections]
    BY <1>1, FieldSet
  <2>2. QED
    BY <1>1, <2>1 DEF Connections, Others
<1>2. ASSUME NEW n \in 0..MaxRequests, g = [f EXCEPT ![c].inbox = n]
      PROVE  /\ g \in [Conn -> Connections] /\ Others(f, g, c)
             /\ g[c].attempt_reconnect = f[c].attempt_reconnect
             /\ g[c].is_open = f[c].is_open
             /\ g[c].wire = f[c].wire /\ g[c].inbox = n /\ g[c].peer = f[c].peer
             /\ g[c].sending = f[c].sending
  <2>1. g \in [Conn -> Connections]
    BY <1>2, FieldSet
  <2>2. QED
    BY <1>2, <2>1 DEF Connections, Others
<1>3. ASSUME g = [f EXCEPT ![c].attempt_reconnect = TRUE]
      PROVE  /\ g \in [Conn -> Connections] /\ Others(f, g, c)
             /\ g[c].attempt_reconnect = TRUE /\ g[c].is_open = f[c].is_open
             /\ g[c].wire = f[c].wire /\ g[c].inbox = f[c].inbox /\ g[c].peer = f[c].peer
             /\ g[c].sending = f[c].sending
  <2>1. g \in [Conn -> Connections]
    BY <1>3, FieldSet
  <2>2. QED
    BY <1>3, <2>1 DEF Connections, Others
<1>4. QED
  BY <1>1, <1>2, <1>3

\* Types, spelled out for the state a step leads to.
LEMMA TypesAfter ==
  ASSUME connections' \subseteq Conn, connection' \in Conn, conn' \in [Conn -> Connections],
         streambuf' \in Seq(Items), endpoints' \in 0..MaxEndpoints, op' \in Ops \cup {"none"},
         handlers' \in Seq(Entries), timer' \in BOOLEAN, stopped' \in BOOLEAN,
         pc' \in {"idle", "run", "threw"}, result' \in ErrorCodes, req' \in 0..MaxRequests,
         sent' \in Nat
  PROVE  Types'
<1>1. \A i \in DOMAIN handlers' : handlers'[i] \in Entries
  BY LenProperties, ElementOfSeq
<1>2. \A i \in DOMAIN handlers' : handlers'[i].op \in Ops \cup {"timer"}
  BY <1>1 DEF Entries
<1>3. QED
  BY <1>2 DEF Types, TypeOK, Connections

\* The server's steps.  An answer begins, ...
LEMMA ServeStep ==
  ASSUME conn \in [Conn -> Connections], NEW c \in Conn, Serve(c)
  PROVE  /\ conn' \in [Conn -> Connections] /\ Others(conn, conn', c)
         /\ conn'[c].attempt_reconnect = conn[c].attempt_reconnect
         /\ conn'[c].in_use = conn[c].in_use /\ conn'[c].is_open = conn[c].is_open
         /\ conn[c].peer /\ conn[c].inbox # 0
         /\ conn'[c].inbox = 0 /\ conn'[c].peer = conn[c].peer
         /\ \E f \in AllFramings :
              \E n \in 0..Len(Answer(conn[c].inbox, f)) :
                /\ conn'[c].wire = conn[c].wire \o SubSeq(Answer(conn[c].inbox, f), 1, n)
                /\ conn'[c].sending # 0 => f = "chunked" /\ conn'[c].sending = conn[c].inbox
<1>1. PICK f \in Framings : \E n \in {0, 1, 2, Len(Answer(conn[c].inbox, f))} :
        conn' = [conn EXCEPT
                   ![c].inbox = 0,
                   ![c].wire = @ \o SubSeq(Answer(conn[c].inbox, f), 1, n),
                   ![c].sending = IF f = "chunked" /\ n = 2 THEN conn[c].inbox ELSE 0]
  BY DEF Serve
<1> DEFINE a == Answer(conn[c].inbox, f)
<1>2. PICK n \in {0, 1, 2, Len(a)} :
        conn' = [conn EXCEPT
                   ![c].inbox = 0, ![c].wire = @ \o SubSeq(a, 1, n),
                   ![c].sending = IF f = "chunked" /\ n = 2 THEN conn[c].inbox ELSE 0]
  BY <1>1
<1>3. conn[c].inbox \in 0..MaxRequests /\ f \in AllFramings
  BY HttpClientAssumption DEF Connections
<1>4. a \in Seq(Items) /\ Len(a) \in {2, 3}
  BY <1>3, AnswerShape
<1>5. conn[c].peer /\ conn[c].inbox # 0
  BY DEF Serve
<1> HIDE DEF a
<1>6. n \in 0..Len(a)
  <2>1. PICK l \in {2, 3} : l = Len(a)
    BY <1>4
  <2>2. n \in {0, 1, 2, l}
    BY <2>1
  <2>3. QED
    BY <2>1, <2>2
<1>7. SubSeq(a, 1, n) \in Seq(Items)
  <2>1. n \in Int /\ \A i \in 1..n : a[i] \in Items
    BY <1>4, ElementOfSeq
  <2>2. QED
    BY <2>1, SubSeqProperties
<1>8. PICK m \in 0..MaxRequests :
        /\ conn' = [conn EXCEPT ![c].inbox = 0, ![c].wire = @ \o SubSeq(a, 1, n),
                                ![c].sending = m]
        /\ m # 0 => f = "chunked" /\ m = conn[c].inbox
  <2>1. PICK m : m = IF f = "chunked" /\ n = 2 THEN conn[c].inbox ELSE 0
    OBVIOUS
  <2>2. m \in 0..MaxRequests
    BY <1>3, <2>1, HttpClientAssumption
  <2>3. QED
    BY <1>2, <2>1, <2>2
<1>9. /\ conn' \in [Conn -> Connections] /\ Others(conn, conn', c)
      /\ conn'[c].attempt_reconnect = conn[c].attempt_reconnect
      /\ conn'[c].in_use = conn[c].in_use /\ conn'[c].is_open = conn[c].is_open
      /\ conn'[c].wire = conn[c].wire \o SubSeq(a, 1, n)
      /\ conn'[c].inbox = 0 /\ conn'[c].peer = conn[c].peer /\ conn'[c].sending = m
  <2>1. PICK g, b : g = conn' /\ b = SubSeq(a, 1, n)
    OBVIOUS
  <2>2. b \in Seq(Items) /\ Served(conn, g, c, b, m)
    BY <1>7, <1>8, <2>1 DEF Served
  <2>3. /\ g \in [Conn -> Connections] /\ Others(conn, g, c)
        /\ g[c].attempt_reconnect = conn[c].attempt_reconnect /\ g[c].in_use = conn[c].in_use
        /\ g[c].is_open = conn[c].is_open /\ g[c].wire = conn[c].wire \o b
        /\ g[c].inbox = 0 /\ g[c].peer = conn[c].peer /\ g[c].sending = m
    BY <2>2, ServedConnection
  <2>4. QED
    BY <2>1, <2>3
<1>10. QED
  BY <1>3, <1>5, <1>6, <1>8, <1>9 DEF a

\* v is w with one more chunk of the answer to request r, or the beginning of one.
Begun(w, r) == Append(w, Item(r, "line", "chunked"))
Chunks(w, r, v) ==
  /\ w \in Seq(Items) /\ r \in 1..MaxRequests
  /\ \/ v = Begun(w, r)
     \/ \E part \in {"data", "last"} : v = Append(Begun(w, r), Item(r, part, "chunked"))

\* ... chunks follow, ...
LEMMA ChunkStep ==
  ASSUME conn \in [Conn -> Connections], NEW c \in Conn, Chunk(c)
  PROVE  /\ conn' \in [Conn -> Connections] /\ Others(conn, conn', c)
         /\ conn'[c].attempt_reconnect = conn[c].attempt_reconnect
         /\ conn'[c].in_use = conn[c].in_use /\ conn'[c].is_open = conn[c].is_open
         /\ conn[c].peer /\ conn[c].sending # 0
         /\ conn'[c].inbox = conn[c].inbox /\ conn'[c].peer = conn[c].peer
         /\ Chunks(conn[c].wire, conn[c].sending, conn'[c].wire)
         /\ conn'[c].sending # 0 =>
              /\ conn'[c].sending = conn[c].sending
              /\ conn'[c].wire = Append(Begun(conn[c].wire, conn[c].sending),
                                        Item(conn[c].sending, "data", "chunked"))
<1>1. /\ conn[c].peer /\ conn[c].sending # 0 /\ conn[c].wire \in Seq(Items)
      /\ conn[c].sending \in 1..MaxRequests
  BY HttpClientAssumption DEF Chunk, Connections
<1>2. PICK r \in 1..MaxRequests : r = conn[c].sending
  BY <1>1
<1>3. \A part \in {"line", "data", "last"} : Item(r, part, "chunked") \in Items
  BY HttpClientAssumption DEF Item, Items, Parts, AllFramings
<1>4. PICK u : u = Begun(conn[c].wire, r)
  OBVIOUS
<1>5. u \in Seq(Items)
  BY <1>1, <1>3, <1>4, AppendProperties DEF Begun
<1>6. PICK w : /\ \/ w = u
                  \/ \E part \in {"data", "last"} : w = Append(u, Item(r, part, "chunked"))
               /\ \/ /\ conn' = [conn EXCEPT ![c].wire = w]
                     /\ w = Append(u, Item(r, "data", "chunked"))
                  \/ conn' = [conn EXCEPT ![c].wire = w, ![c].sending = 0]
  BY <1>2, <1>4 DEF Chunk, Begun
<1>7. w \in Seq(Items)
  <2>1. CASE w = u
    BY <1>5, <2>1
  <2>2. ASSUME NEW part \in {"data", "last"}, w = Append(u, Item(r, part, "chunked"))
        PROVE  w \in Seq(Items)
    <3>1. PICK x \in Items : x = Item(r, part, "chunked")
      BY <1>3
    <3>2. QED
      BY <1>5, <2>2, <3>1, AppendProperties
  <2>3. QED
    BY <1>6, <2>1, <2>2
<1>8. /\ conn' \in [Conn -> Connections] /\ Others(conn, conn', c)
      /\ conn'[c].attempt_reconnect = conn[c].attempt_reconnect
      /\ conn'[c].in_use = conn[c].in_use /\ conn'[c].is_open = conn[c].is_open
      /\ conn'[c].wire = w
      /\ conn'[c].inbox = conn[c].inbox /\ conn'[c].peer = conn[c].peer
      /\ conn'[c].sending \in {0, conn[c].sending}
  BY <1>6, <1>7, ChunkedConnection DEF Others
<1>9. conn'[c].sending # 0 => w = Append(u, Item(r, "data", "chunked"))
  <2>1. CASE w = Append(u, Item(r, "data", "chunked"))
    BY <2>1
  <2>2. CASE conn' = [conn EXCEPT ![c].wire = w, ![c].sending = 0]
    <3>1. conn'[c].sending = 0
      BY <2>2 DEF Connections
    <3>2. QED
      BY <3>1
  <2>3. QED
    BY <1>6, <2>1, <2>2
<1>10. Chunks(conn[c].wire, r, w)
  BY <1>1, <1>2, <1>4, <1>6 DEF Chunks
<1>11. QED
  BY <1>1, <1>2, <1>4, <1>8, <1>9, <1>10

\* ... and the connection ends.
LEMMA CloseStep ==
  ASSUME conn \in [Conn -> Connections], NEW c \in Conn, Close(c)
  PROVE  /\ conn' \in [Conn -> Connections] /\ Others(conn, conn', c)
         /\ conn'[c].attempt_reconnect = conn[c].attempt_reconnect
         /\ conn'[c].in_use = conn[c].in_use /\ conn'[c].is_open = conn[c].is_open
         /\ conn'[c].inbox = conn[c].inbox /\ conn'[c].peer = FALSE /\ conn'[c].sending = 0
         /\ \E end \in Closing : conn'[c].wire = Append(conn[c].wire, end)
<1>1. PICK end \in Closing :
        conn' = [conn EXCEPT ![c].peer = FALSE, ![c].sending = 0, ![c].wire = Append(@, end)]
  BY DEF Close
<1>2. end \in Items
  BY HttpClientAssumption DEF Closing, Eof, Reset, Item, Items, Parts
<1>3. /\ conn' \in [Conn -> Connections] /\ Others(conn, conn', c)
      /\ conn'[c].attempt_reconnect = conn[c].attempt_reconnect
      /\ conn'[c].in_use = conn[c].in_use /\ conn'[c].is_open = conn[c].is_open
      /\ conn'[c].wire = Append(conn[c].wire, end)
      /\ conn'[c].inbox = conn[c].inbox /\ conn'[c].peer = FALSE /\ conn'[c].sending = 0
  <2>1. PICK g : g = conn'
    OBVIOUS
  <2>2. Closed(conn, g, c, end)
    BY <1>1, <2>1 DEF Closed
  <2>3. /\ g \in [Conn -> Connections] /\ Others(conn, g, c)
        /\ g[c].attempt_reconnect = conn[c].attempt_reconnect /\ g[c].in_use = conn[c].in_use
        /\ g[c].is_open = conn[c].is_open /\ g[c].wire = Append(conn[c].wire, end)
        /\ g[c].inbox = conn[c].inbox /\ g[c].peer = FALSE /\ g[c].sending = 0
    BY <1>2, <2>2, ClosedConnection
  <2>4. QED
    BY <2>1, <2>3
<1>4. QED
  BY <1>3

\* A read that completes: the item that ends it, and how much is taken.
LEMMA ReadableStep ==
  ASSUME Types, Readable
  PROVE  /\ Wire \in Seq(Items) /\ op \in Reads
         /\ \E n \in 1..Len(Wire), k \in 0..Len(Wire), ec \in Codes :
              /\ EndsRead(Wire[n]) /\ \A i \in 1..(n - 1) : ~EndsRead(Wire[i])
              /\ IF Wire[n] \in Closing THEN k = n - 1
                 ELSE k = n \/ (k = n + 1 /\ op = "header" /\ Wire[k].part = "body")
              /\ ec = IF Wire[n].part \in {"eof", "reset", "last", "bad_line"}
                      THEN Wire[n].part ELSE "ok"
              /\ conn' = [conn EXCEPT ![connection].wire = SubSeq(Wire, k + 1, Len(Wire))]
              /\ streambuf' = IF op = "header" THEN streambuf \o SubSeq(Wire, 1, k)
                              ELSE streambuf
              /\ Complete(ec)
<1>1. Wire \in Seq(Items)
  BY DEF Types, TypeOK, Wire
<1>2. Len(Wire) \in Nat /\ DOMAIN Wire = 1..Len(Wire)
  BY <1>1, LenProperties
<1>3. PICK n \in DOMAIN Wire :
       \E taken \in IF Wire[n] \in Closing THEN {n - 1} ELSE {n} \cup With(Wire, n) :
       /\ EndsRead(Wire[n])
       /\ \A i \in 1..(n - 1) : ~EndsRead(Wire[i])
       /\ conn' = [conn EXCEPT ![connection].wire = SubSeq(Wire, taken + 1, Len(Wire))]
       /\ streambuf' = IF op = "header" THEN streambuf \o SubSeq(Wire, 1, taken) ELSE streambuf
       /\ Complete(IF Wire[n].part \in {"eof", "reset", "last", "bad_line"}
                   THEN Wire[n].part ELSE "ok")
  BY DEF Readable, Wire
<1>4. PICK k \in IF Wire[n] \in Closing THEN {n - 1} ELSE {n} \cup With(Wire, n) :
       /\ EndsRead(Wire[n])
       /\ \A i \in 1..(n - 1) : ~EndsRead(Wire[i])
       /\ conn' = [conn EXCEPT ![connection].wire = SubSeq(Wire, k + 1, Len(Wire))]
       /\ streambuf' = IF op = "header" THEN streambuf \o SubSeq(Wire, 1, k) ELSE streambuf
       /\ Complete(IF Wire[n].part \in {"eof", "reset", "last", "bad_line"}
                   THEN Wire[n].part ELSE "ok")
  BY <1>3
<1>5. n \in 1..Len(Wire)
  BY <1>2
<1>6. \A m \in With(Wire, n) : m = n + 1 /\ m \in 1..Len(Wire) /\ op = "header" /\ Wire[m].part = "body"
  BY <1>2 DEF With
<1>7. /\ k \in 0..Len(Wire)
      /\ IF Wire[n] \in Closing THEN k = n - 1
         ELSE k = n \/ (k = n + 1 /\ op = "header" /\ Wire[k].part = "body")
  <2>1. CASE Wire[n] \in Closing
    BY <1>2, <1>4, <1>5, <2>1
  <2>2. CASE Wire[n] \notin Closing
    <3>1. k \in {n} \cup With(Wire, n)
      BY <1>4, <2>2
    <3>2. QED
      BY <1>2, <1>5, <1>6, <2>2, <3>1
  <2>3. QED
    BY <2>1, <2>2
<1> DEFINE ec == IF Wire[n].part \in {"eof", "reset", "last", "bad_line"}
                 THEN Wire[n].part ELSE "ok"
<1>8. ec \in Codes
  BY DEF Codes, ErrorCodes
<1>9. op \in Reads
  BY DEF Readable
<1> HIDE DEF Wire
<1>10. Complete(ec)
  BY <1>4
<1>11. QED
  BY <1>1, <1>4, <1>5, <1>7, <1>8, <1>9, <1>10

\* Init sets up what TypeOK and RunInv say.
LEMMA RunInit == Init => Types /\ RunInv
<1> SUFFICES ASSUME Init PROVE Types /\ RunInv
  OBVIOUS
<1>1. conn \in [Conn -> Connections]
  BY NewConnectionType DEF Init
<1>2. handlers = <<>> /\ Pending(handlers) = {} /\ Stages(handlers) = {}
  <2>1. handlers = <<>>
    BY DEF Init
  <2>2. Pending(handlers) = {}
    BY <2>1 DEF Pending
  <2>3. QED
    BY <2>1, <2>2 DEF Stages
<1>3. TypeOK
  <2>1. /\ connections = {} /\ connection \in Conn /\ streambuf = <<>> /\ endpoints = 0
        /\ op = "none" /\ timer = FALSE /\ stopped = FALSE /\ pc = "idle"
        /\ result = "none" /\ req = 0 /\ sent = 0
    BY DEF Init
  <2>2. 0 \in 0..MaxEndpoints /\ 0 \in 0..MaxRequests /\ 0 \in Nat
    BY HttpClientAssumption
  <2>3. streambuf \in Seq(Items) /\ \A i \in DOMAIN handlers : handlers[i].op \in Ops \cup {"timer"}
    BY <1>2, <2>1
  <2>4. result \in ErrorCodes
    BY <2>1 DEF ErrorCodes
  <2>5. QED
    BY <1>1, <2>1, <2>2, <2>3, <2>4 DEF TypeOK, Connections
<1>4. Types
  BY <1>2, <1>3 DEF Types
<1>5. Current = {} /\ Single(handlers)
  BY <1>2 DEF Init, Current, Single
<1>6. RunInv
  BY <1>2, <1>5 DEF Init, RunInv
<1>7. QED
  BY <1>4, <1>6

\* Every step keeps the types, and keeps at most one thing under way.
LEMMA RunStep == Types /\ RunInv /\ [Next]_vars => Types' /\ RunInv'
<1> SUFFICES ASSUME Types, RunInv, [Next]_vars PROVE Types' /\ RunInv'
  OBVIOUS
<1>a. /\ connections \subseteq Conn /\ connection \in Conn /\ conn \in [Conn -> Connections]
      /\ streambuf \in Seq(Items) /\ endpoints \in 0..MaxEndpoints /\ op \in Ops \cup {"none"}
      /\ handlers \in Seq(Entries) /\ timer \in BOOLEAN /\ stopped \in BOOLEAN
      /\ pc \in {"idle", "run", "threw"} /\ result \in ErrorCodes /\ req \in 0..MaxRequests
      /\ sent \in Nat
  BY DEF Types, TypeOK, Connections
<1>b. ~stopped /\ Single(handlers)
  BY DEF RunInv
<1>c. /\ MaxRequests \in Nat /\ MaxEndpoints \in Nat \ {0} /\ Framings \subseteq AllFramings
  BY HttpClientAssumption
<1>d. <<>> \in Seq(Items)
  OBVIOUS
<1>1. CASE Request
  <2> DEFINE idle == {c \in connections : ~conn[c].in_use}
  <2>1. PICK c \in IF idle # {} THEN idle ELSE Conn \ connections :
          /\ connection' = c
          /\ connections' = connections \cup {c}
          /\ conn' = [conn EXCEPT ![c].attempt_reconnect = TRUE, ![c].in_use = TRUE]
          /\ connect(conn[c].is_open)
    BY <1>1 DEF Request
  <2>2. c \in Conn
    BY <1>a, <2>1
  <2>3. /\ pc = "idle" /\ req < MaxRequests /\ req' = req + 1 /\ pc' = "run"
        /\ result' = "none" /\ sent' = 0 /\ streambuf' = streambuf /\ endpoints' = endpoints
        /\ handlers' = handlers /\ stopped' = stopped
    BY <1>1 DEF Request
  <2>4. PICK o \in {"write", "resolve"} : op' = o /\ timer' = TRUE
    BY <2>1 DEF connect, Begin
  <2>5. conn' \in [Conn -> Connections]
    BY <1>a, <2>1, <2>2, TakenConnection
  <2>6. handlers = <<>>
    BY <2>3 DEF RunInv
  <2>7. Stages(handlers) = {}
    <3>1. Pending(handlers) = {}
      BY <2>6 DEF Pending
    <3>2. QED
      BY <3>1 DEF Stages
  <2>8. Types'
    <3>1. req' \in 0..MaxRequests
      BY <1>a, <1>c, <2>3
    <3>2. connections' \subseteq Conn /\ connection' \in Conn
      BY <1>a, <2>1, <2>2
    <3>3. result' \in ErrorCodes
      BY <2>3 DEF ErrorCodes
    <3>4. o \in Ops
      BY DEF Ops
    <3>5. QED
      BY <1>a, <2>3, <2>4, <2>5, <3>1, <3>2, <3>3, <3>4, TypesAfter
  <2>9. RunInv'
    <3>1. o \in Ops /\ o # "connect"
      BY DEF Ops
    <3>2. QED
      BY <1>b, <2>3, <2>4, <2>7, <3>1, BeginRun
  <2>10. QED
    BY <2>8, <2>9
<1>2. CASE Return
  <2>1. /\ pc = "run" /\ op = "none" /\ ~timer /\ handlers = <<>> /\ stopped' = FALSE
        /\ pc' = "idle"
        /\ UNCHANGED <<connections, conn, connection, streambuf, endpoints, op, timer,
                       handlers, result, req, sent>>
    BY <1>2, <1>b DEF Return, StoppedAfterRun
  <2>2. Types'
    BY <1>a, <2>1, TypesAfter
  <2>3. Current = {}
    <3>1. Pending(handlers) = {}
      BY <2>1 DEF Pending
    <3>2. QED
      BY <2>1, <3>1 DEF Stages, Current
  <2>4. result # "none" /\ streambuf = <<>>
    BY <2>1, <2>3 DEF RunInv
  <2>5. Current' = {}
    BY <2>1, <2>3 DEF Current
  <2>6. RunInv'
    BY <1>b, <2>1, <2>4, <2>5 DEF RunInv
  <2>7. QED
    BY <2>2, <2>6
<1>3. CASE Resolved
  <2>1. PICK ec \in {"ok", "host_not_found"} : Complete(ec)
    BY <1>3 DEF Resolved
  <2>2. ec \in Codes /\ op \in Ops
    BY <1>3 DEF Codes, ErrorCodes, Resolved, Ops
  <2>3. /\ UNCHANGED <<connections, conn, connection, streambuf, endpoints, timer, stopped,
                       pc, result, req, sent>>
    BY <1>3 DEF Resolved
  <2>4. /\ Current' = {<<op, ec>>} /\ pc = "run" /\ result = "none" /\ op' = "none"
        /\ handlers' \in Seq(Entries) /\ Single(handlers')
    BY <2>1, <2>2, CompleteStage
  <2>5. Types'
    BY <1>a, <2>3, <2>4, TypesAfter
  <2>6. RunInv'
    BY <1>b, <2>3, <2>4, RunsOn
  <2>7. QED
    BY <2>5, <2>6
<1>4. CASE Connected
  <2>1. /\ Complete("ok") /\ endpoints' = 0 /\ op = "connect"
        /\ conn' = [conn EXCEPT ![connection].is_open = TRUE, ![connection].peer = TRUE]
        /\ UNCHANGED <<connections, connection, streambuf, timer, stopped, pc, result, req,
                       sent>>
    BY <1>4 DEF Connected
  <2>2. "ok" \in Codes /\ op \in Ops
    BY <2>1 DEF Codes, ErrorCodes, Ops
  <2>3. /\ Current' = {<<op, "ok">>} /\ pc = "run" /\ result = "none" /\ op' = "none"
        /\ handlers' \in Seq(Entries) /\ Single(handlers')
    BY <2>1, <2>2, CompleteStage
  <2>4. conn' \in [Conn -> Connections]
    BY <1>a, <2>1, ConnectedConnection
  <2>5. 0 \in 0..MaxEndpoints
    BY <1>c
  <2>6. Types'
    BY <1>a, <2>1, <2>3, <2>4, <2>5, TypesAfter
  <2>7. RunInv'
    BY <1>b, <2>1, <2>3, RunsOn
  <2>8. QED
    BY <2>6, <2>7
<1>5. CASE NotConnected
  <2>1. /\ op = "connect" /\ endpoints' = endpoints - 1
        /\ IF endpoints > 1 THEN UNCHANGED <<op, handlers>> ELSE Complete("refused")
        /\ UNCHANGED <<connections, conn, connection, streambuf, timer, stopped, pc,
                       result, req, sent>>
    BY <1>5 DEF NotConnected
  <2>2. "refused" \in Codes /\ op \in Ops
    BY <2>1 DEF Codes, ErrorCodes, Ops
  <2>3. CASE endpoints > 1
    <3>1. endpoints' \in 0..MaxEndpoints
      BY <1>a, <1>c, <2>1, <2>3
    <3>2. op' = op /\ handlers' = handlers
      BY <2>1, <2>3
    <3>3. Types'
      BY <1>a, <2>1, <3>1, <3>2, TypesAfter
    <3>4. Stages(handlers) = {} /\ Current # {}
      BY <2>1 DEF RunInv, Current
    <3>5. pc = "run" /\ result = "none"
      BY <3>4 DEF RunInv
    <3>6. Current' # {}
      BY <3>2, <3>4 DEF Current
    <3>7. endpoints' >= 1
      BY <1>a, <2>1, <2>3
    <3>8. RunInv'
      BY <1>b, <2>1, <3>2, <3>4, <3>5, <3>6, <3>7, RunsOn
    <3>9. QED
      BY <3>3, <3>8
  <2>4. CASE ~(endpoints > 1)
    <3>1. Complete("refused")
      BY <2>1, <2>4
    <3>2. /\ Current' = {<<op, "refused">>} /\ pc = "run" /\ result = "none" /\ op' = "none"
          /\ handlers' \in Seq(Entries) /\ Single(handlers')
      BY <2>2, <3>1, CompleteStage
    <3>3. endpoints' \in 0..MaxEndpoints
      BY <1>a, <1>c, <2>1, <2>4 DEF RunInv
    <3>4. Types'
      BY <1>a, <2>1, <3>2, <3>3, TypesAfter
    <3>5. RunInv'
      BY <1>b, <2>1, <3>2, RunsOn
    <3>6. QED
      BY <3>4, <3>5
  <2>5. QED
    BY <2>3, <2>4
<1>6. CASE Written
  <2>1. /\ op = "write"
        /\ UNCHANGED <<connections, connection, streambuf, endpoints, timer, stopped, pc,
                       result, req>>
    BY <1>6 DEF Written
  <2>2. op \in Ops /\ "ok" \in Codes /\ "broken_pipe" \in Codes
    BY <2>1 DEF Codes, ErrorCodes, Ops
  <2>3. PICK ec \in {"ok", "broken_pipe"} : Complete(ec)
    BY <1>6 DEF Written
  <2>4. /\ Current' = {<<op, ec>>} /\ pc = "run" /\ result = "none" /\ op' = "none"
        /\ handlers' \in Seq(Entries) /\ Single(handlers')
    BY <2>2, <2>3, CompleteStage
  <2>5. conn' = conn \/ conn' = [conn EXCEPT ![connection].inbox = req]
    BY <1>6 DEF Written
  <2>6. conn' \in [Conn -> Connections]
    <3>1. [conn EXCEPT ![connection].inbox = req] \in [Conn -> Connections]
      BY <1>a, FieldSet
    <3>2. QED
      BY <1>a, <2>5, <3>1
  <2>7. sent' \in Nat
    BY <1>6, <1>a DEF Written
  <2>8. Types'
    BY <1>a, <2>1, <2>4, <2>6, <2>7, TypesAfter
  <2>9. RunInv'
    BY <1>b, <2>1, <2>4, RunsOn
  <2>10. QED
    BY <2>8, <2>9
<1>7. CASE Readable
  <2>1. Wire \in Seq(Items) /\ op \in Reads
    BY <1>7, ReadableStep
  <2>2. PICK n \in 1..Len(Wire), k \in 0..Len(Wire), ec \in Codes :
          /\ conn' = [conn EXCEPT ![connection].wire = SubSeq(Wire, k + 1, Len(Wire))]
          /\ streambuf' = IF op = "header" THEN streambuf \o SubSeq(Wire, 1, k) ELSE streambuf
          /\ Complete(ec)
    BY <1>7, ReadableStep
  <2>3. /\ UNCHANGED <<connections, connection, endpoints, timer, stopped, pc, result, req,
                       sent>>
    BY <1>7 DEF Readable
  <2>4. op \in Ops
    BY <2>1 DEF Ops
  <2>5. /\ Current' = {<<op, ec>>} /\ pc = "run" /\ result = "none" /\ op' = "none"
        /\ handlers' \in Seq(Entries) /\ Single(handlers')
    BY <2>2, <2>4, CompleteStage
  <2>6. Len(Wire) \in Nat /\ \A i \in 1..Len(Wire) : Wire[i] \in Items
    BY <2>1, LenProperties, ElementOfSeq
  <2>7. SubSeq(Wire, k + 1, Len(Wire)) \in Seq(Items)
    <3>1. \A i \in (k + 1)..Len(Wire) : Wire[i] \in Items
      BY <2>6
    <3>2. QED
      BY <2>6, <3>1, SubSeqProperties
  <2>8. SubSeq(Wire, 1, k) \in Seq(Items)
    <3>1. \A i \in 1..k : Wire[i] \in Items
      BY <2>6
    <3>2. QED
      BY <2>6, <3>1, SubSeqProperties
  <2>9. conn' \in [Conn -> Connections]
    BY <1>a, <2>2, <2>7, FieldSet
  <2>10. streambuf' \in Seq(Items)
    BY <1>a, <2>2, <2>8, ConcatProperties
  <2>11. Types'
    BY <1>a, <2>3, <2>5, <2>9, <2>10, TypesAfter
  <2>12. RunInv'
    BY <1>b, <2>3, <2>5, RunsOn
  <2>13. QED
    BY <2>11, <2>12
<1>8. CASE Expire
  <2>1. /\ timer /\ timer' = FALSE
        /\ UNCHANGED <<connections, conn, connection, streambuf, endpoints, op, stopped, pc,
                       result, req, sent>>
    BY <1>8 DEF Expire
  <2>2. /\ Current' = Current /\ Stages(handlers') = Stages(handlers)
        /\ handlers' \in Seq(Entries) /\ Single(handlers')
    BY <1>8, ExpireStage
  <2>3. Types'
    BY <1>a, <2>1, <2>2, TypesAfter
  <2>4. pc = "run" /\ result = "none"
    BY <2>1 DEF RunInv
  <2>5. /\ Current # {} /\ (op = "none" \/ Stages(handlers) = {})
        /\ (op = "connect" => endpoints >= 1)
    BY <2>4 DEF RunInv
  <2>6. RunInv'
    BY <1>b, <2>1, <2>2, <2>4, <2>5, RunsOn
  <2>7. QED
    BY <2>3, <2>6
<1>9. CASE TimerHandler
  <2>1. UNCHANGED <<connections, conn, connection, streambuf, timer, stopped, pc, result, req,
                    sent>>
    BY <1>9 DEF TimerHandler
  <2>2. /\ handlers' \in Seq(Entries) /\ Single(handlers') /\ pc = "run"
        /\ \/ Current' = Current /\ op' = op /\ Stages(handlers') = Stages(handlers)
           \/ /\ op \in Ops /\ op' = "none" /\ Current = {<<op, "going">>}
              /\ Current' = {<<op, "aborted">>}
        /\ endpoints' \in {endpoints, endpoints - 1}
        /\ endpoints' # endpoints => endpoints > 1
    BY <1>9, TimerStage
  <2>3. endpoints' \in 0..MaxEndpoints /\ (endpoints >= 1 => endpoints' >= 1)
    BY <1>a, <1>c, <2>2
  <2>4. Types'
    <3>1. op' \in Ops \cup {"none"}
      BY <1>a, <2>2
    <3>2. QED
      BY <1>a, <2>1, <2>2, <2>3, <3>1, TypesAfter
  <2>5. CASE Current' = Current /\ op' = op /\ Stages(handlers') = Stages(handlers)
    <3>1. pc # "idle" /\ pc' # "idle"
      BY <2>1, <2>2
    <3>2. QED
      BY <1>b, <2>1, <2>2, <2>3, <2>4, <2>5, <3>1 DEF RunInv
  <2>6. CASE op' = "none" /\ Current # {} /\ Current' # {}
    <3>1. pc = "run" /\ result = "none"
      BY <2>6 DEF RunInv
    <3>2. RunInv'
      BY <1>b, <2>1, <2>2, <2>6, <3>1, RunsOn
    <3>3. QED
      BY <2>4, <3>2
  <2>7. QED
    BY <2>2, <2>5, <2>6
<1>10. CASE Failed
  <2>1. PICK o \in Ops,
          ec \in {"host_not_found", "refused", "broken_pipe", "eof", "reset", "aborted",
                  "bad_line"} :
            /\ Handle(o, ec)
            /\ callback(conn, IF o = "rest" /\ ec = "eof" THEN "ok" ELSE ec)
    BY <1>10 DEF Failed
  <2> DEFINE r == IF o = "rest" /\ ec = "eof" THEN "ok" ELSE ec
  <2>2. r \in ErrorCodes \ {"none"}
    BY DEF ErrorCodes
  <2>3. endpoints' = 0 /\ connection' = connection /\ pc' = pc
    BY <1>10 DEF Failed
  <2>4. callback(conn, r)
    BY <2>1
  <2> HIDE DEF r
  <2>5. /\ pc = "run" /\ handlers' \in Seq(Entries) /\ Single(handlers')
        /\ Stages(handlers') = {} /\ stopped' = stopped /\ req' = req /\ sent' = sent
    BY <2>1, HandleStage
  <2>6. /\ connections' \subseteq Conn /\ conn' \in [Conn -> Connections]
        /\ result' = r /\ streambuf' = <<>> /\ op' = "none" /\ timer' = FALSE
    BY <1>a, <2>4, CallbackTypes
  <2>7. 0 \in 0..MaxEndpoints
    BY <1>c
  <2>8. Types'
    BY <1>a, <1>d, <2>2, <2>3, <2>5, <2>6, <2>7, TypesAfter
  <2>9. RunInv'
    BY <1>b, <2>2, <2>3, <2>5, <2>6, CallbackRun
  <2>10. QED
    BY <2>8, <2>9
<1>11. CASE ResolveHandler
  <2>1. /\ Handle("resolve", "ok") /\ endpoints' \in 1..MaxEndpoints
        /\ op' = "connect" /\ timer' = TRUE
        /\ UNCHANGED <<connections, conn, connection, streambuf, pc, result>>
    BY <1>11 DEF ResolveHandler, Begin
  <2>2. "resolve" \in Ops /\ "connect" \in Ops
    BY DEF Ops
  <2>3. /\ pc = "run" /\ result = "none" /\ handlers' \in Seq(Entries) /\ Single(handlers')
        /\ Stages(handlers') = {} /\ stopped' = stopped /\ req' = req /\ sent' = sent
    BY <2>1, <2>2, HandleStage
  <2>4. endpoints' \in 0..MaxEndpoints /\ endpoints' >= 1
    BY <1>c, <2>1
  <2>5. Types'
    BY <1>a, <2>1, <2>2, <2>3, <2>4, TypesAfter
  <2>6. RunInv'
    BY <1>b, <2>1, <2>2, <2>3, <2>4, BeginRun
  <2>7. QED
    BY <2>5, <2>6
<1>12. CASE Continue
  <2>1. UNCHANGED <<connections, conn, connection, streambuf, endpoints, pc, result>>
    BY <1>12 DEF Continue
  <2>2. PICK o \in Ops, next \in Ops \ {"connect"} :
          Handle(o, "ok") /\ op' = next /\ timer' = TRUE
    BY <1>12 DEF Continue, Begin, Ops, Reads
  <2>3. /\ pc = "run" /\ result = "none" /\ handlers' \in Seq(Entries) /\ Single(handlers')
        /\ Stages(handlers') = {} /\ stopped' = stopped /\ req' = req /\ sent' = sent
    BY <2>2, HandleStage
  <2>4. Types'
    BY <1>a, <2>1, <2>2, <2>3, TypesAfter
  <2>5. RunInv'
    BY <1>b, <2>1, <2>2, <2>3, BeginRun
  <2>6. QED
    BY <2>4, <2>5
<1>13. CASE Reconnect
  <2>1. PICK ec \in {"eof", "reset"} : Handle("header", ec)
    BY <1>13 DEF Reconnect
  <2>2. PICK c \in Conn \ connections :
          /\ connections' = Replaced(c)
          /\ connection' = c
          /\ conn' = [conn EXCEPT ![connection] = NewConnection,
                                  ![c].attempt_reconnect = FALSE, ![c].in_use = TRUE]
          /\ connect(FALSE)
    BY <1>13 DEF Reconnect
  <2>3. UNCHANGED <<streambuf, endpoints, pc, result>>
    BY <1>13 DEF Reconnect
  <2>4. op' = "resolve" /\ timer' = TRUE
    BY <2>2 DEF connect, Begin
  <2>5. "header" \in Ops /\ "resolve" \in Ops
    BY DEF Ops, Reads
  <2>6. /\ pc = "run" /\ result = "none" /\ handlers' \in Seq(Entries) /\ Single(handlers')
        /\ Stages(handlers') = {} /\ stopped' = stopped /\ req' = req /\ sent' = sent
    BY <2>1, <2>5, HandleStage
  <2>7. connections' \subseteq Conn
    BY <1>a, <2>2 DEF Replaced
  <2>8. conn' \in [Conn -> Connections]
    <3> DEFINE e == [conn EXCEPT ![connection] = NewConnection]
               h == [e EXCEPT ![c].attempt_reconnect = FALSE]
    <3>1. e \in [Conn -> Connections]
      BY <1>a, NewConnectionType
    <3>2. h \in [Conn -> Connections]
      <4> HIDE DEF e
      <4>1. QED
        BY <3>1, FieldSet
    <3>3. conn' = [h EXCEPT ![c].in_use = TRUE]
      BY <2>2, Zenon
    <3> HIDE DEF h
    <3>4. [h EXCEPT ![c].in_use = TRUE] \in [Conn -> Connections]
      BY <3>2, FieldSet
    <3>5. QED
      BY <3>3, <3>4, Zenon
  <2>9. Types'
    BY <1>a, <2>2, <2>3, <2>4, <2>5, <2>6, <2>7, <2>8, TypesAfter
  <2>10. RunInv'
    BY <1>b, <2>3, <2>4, <2>5, <2>6, BeginRun
  <2>11. QED
    BY <2>9, <2>10
<1>14. CASE HeaderReadsOn
  <2>1. /\ Handle("header", "ok") /\ conn' = Rearmed
        /\ UNCHANGED <<connections, connection, streambuf, endpoints, pc, result>>
    BY <1>14 DEF HeaderReadsOn
  <2>2. PICK o \in {"body", "rest", "line"} : op' = o /\ timer' = TRUE
    BY <1>14 DEF HeaderReadsOn, Begin
  <2>3. "header" \in Ops /\ o \in Ops /\ o # "connect"
    BY DEF Ops, Reads
  <2>4. /\ pc = "run" /\ result = "none" /\ handlers' \in Seq(Entries) /\ Single(handlers')
        /\ Stages(handlers') = {} /\ stopped' = stopped /\ req' = req /\ sent' = sent
    BY <2>1, <2>3, HandleStage
  <2>5. conn' \in [Conn -> Connections]
    BY <1>a, <2>1, FieldSet DEF Rearmed
  <2>6. Types'
    BY <1>a, <2>1, <2>2, <2>3, <2>4, <2>5, TypesAfter
  <2>7. RunInv'
    BY <1>b, <2>1, <2>2, <2>3, <2>4, BeginRun
  <2>8. QED
    BY <2>6, <2>7
<1>15. CASE HeaderEnds
  <2>1. /\ Handle("header", "ok")
        /\ UNCHANGED <<connection, endpoints, pc>>
    BY <1>15 DEF HeaderEnds
  <2>2. PICK ec \in {"protocol_error", "ok"} : callback(Rearmed, ec)
    BY <1>15 DEF HeaderEnds
  <2>3. "header" \in Ops /\ ec \in ErrorCodes \ {"none"}
    BY DEF Ops, Reads, ErrorCodes
  <2>4. /\ pc = "run" /\ handlers' \in Seq(Entries) /\ Single(handlers')
        /\ Stages(handlers') = {} /\ stopped' = stopped /\ req' = req /\ sent' = sent
    BY <2>1, <2>3, HandleStage
  <2>5. Rearmed \in [Conn -> Connections]
    BY <1>a, FieldSet DEF Rearmed
  <2>6. /\ connections' \subseteq Conn /\ conn' \in [Conn -> Connections]
        /\ result' = ec /\ streambuf' = <<>> /\ op' = "none" /\ timer' = FALSE
    BY <1>a, <2>2, <2>5, CallbackTypes
  <2>7. Types'
    BY <1>a, <1>d, <2>1, <2>3, <2>4, <2>6, TypesAfter
  <2>8. RunInv'
    BY <1>b, <2>1, <2>3, <2>4, <2>6, CallbackRun
  <2>9. QED
    BY <2>7, <2>8
<1>16. CASE HeaderThrows
  <2>1. /\ Handle("header", "ok") /\ conn' = Rearmed
        /\ pc' = "threw" /\ op' = "none" /\ timer' = FALSE
        /\ UNCHANGED <<connections, connection, streambuf, endpoints, result>>
    BY <1>16 DEF HeaderThrows
  <2>2. "header" \in Ops
    BY DEF Ops, Reads
  <2>3. /\ result = "none" /\ handlers' \in Seq(Entries) /\ Single(handlers')
        /\ Stages(handlers') = {} /\ stopped' = stopped /\ req' = req /\ sent' = sent
    BY <2>1, <2>2, HandleStage
  <2>4. conn' \in [Conn -> Connections]
    BY <1>a, <2>1, FieldSet DEF Rearmed
  <2>5. Types'
    BY <1>a, <2>1, <2>3, <2>4, TypesAfter
  <2>6. Current' = {}
    BY <2>1, <2>3 DEF Current
  <2>7. RunInv'
    BY <1>b, <2>1, <2>3, <2>6 DEF RunInv
  <2>8. QED
    BY <2>5, <2>7
<1>17. CASE Received
  <2>1. PICK o \in {"body", "data"}, ec \in {"ok", "last"} : Handle(o, ec)
    BY <1>17 DEF Received
  <2>2. callback(conn, "ok") /\ UNCHANGED <<connection, endpoints, pc>>
    BY <1>17 DEF Received
  <2>3. o \in Ops /\ "ok" \in ErrorCodes
    BY DEF Ops, Reads, ErrorCodes
  <2>4. /\ pc = "run" /\ handlers' \in Seq(Entries) /\ Single(handlers')
        /\ Stages(handlers') = {} /\ stopped' = stopped /\ req' = req /\ sent' = sent
    BY <2>1, <2>3, HandleStage
  <2>5. /\ connections' \subseteq Conn /\ conn' \in [Conn -> Connections]
        /\ result' = "ok" /\ streambuf' = <<>> /\ op' = "none" /\ timer' = FALSE
    BY <1>a, <2>2, CallbackTypes
  <2>6. Types'
    BY <1>a, <1>d, <2>2, <2>3, <2>4, <2>5, TypesAfter
  <2>7. RunInv'
    BY <1>b, <2>2, <2>4, <2>5, CallbackRun
  <2>8. QED
    BY <2>6, <2>7
<1>18. ASSUME NEW c \in Conn, Serve(c) \/ Chunk(c) \/ Close(c) PROVE Types' /\ RunInv'
  <2>1. UNCHANGED <<connections, connection, streambuf, endpoints, op, timer, handlers,
                    stopped, pc, result, req, sent>>
    BY <1>18 DEF Serve, Chunk, Close
  <2>2. conn' \in [Conn -> Connections]
    BY <1>a, <1>18, ServeStep, ChunkStep, CloseStep
  <2>3. Types'
    BY <1>a, <2>1, <2>2, TypesAfter
  <2>4. Current' = Current
    BY <2>1 DEF Current
  <2>5. RunInv'
    BY <2>1, <2>4 DEF RunInv
  <2>6. QED
    BY <2>3, <2>5
<1>19. CASE UNCHANGED vars
  <2>1. UNCHANGED <<connections, conn, connection, streambuf, endpoints, op, timer, handlers,
                    stopped, pc, result, req, sent>>
    BY <1>19 DEF vars
  <2>2. Types' /\ Current' = Current
    BY <1>a, <2>1, TypesAfter DEF Current
  <2>3. RunInv'
    BY <2>1, <2>2 DEF RunInv
  <2>4. QED
    BY <2>2, <2>3
<1>20. QED
  BY <1>1, <1>2, <1>3, <1>4, <1>5, <1>6, <1>7, <1>8, <1>9, <1>10, <1>11, <1>12, <1>13,
     <1>14, <1>15, <1>16, <1>17, <1>18, <1>19 DEF Next, Handler

\* The types, and that one thing is under way at a time, hold throughout.
THEOREM RunHolds == Spec => [](Types /\ RunInv)
<1>1. Init => Types /\ RunInv
  BY RunInit
<1>2. (Types /\ RunInv) /\ [Next]_vars => (Types /\ RunInv)'
  BY RunStep
<1>3. QED
  BY <1>1, <1>2, PTL DEF Spec

\* The HTTP client's state keeps its types: what handlers hand on, the pool, the
\* items on the wires and the endpoints left to try stay what they are taken for.
THEOREM TypeCorrect == Spec => []TypeOK
<1>1. Types /\ RunInv => TypeOK
  BY DEF Types
<1>2. QED
  BY <1>1, RunHolds, PTL

\* request() comes back only after its callback, and leaves no operation, timer
\* or handler behind: run() of the io_service is out of work exactly then.
THEOREM RequestHasResult == Spec => []ReturnsWithResult
<1>1. Types /\ RunInv => ReturnsWithResult
  <2> SUFFICES ASSUME RunInv, pc = "idle", req > 0, Types
               PROVE  result # "none" /\ op = "none" /\ ~timer /\ handlers = <<>>
    BY DEF ReturnsWithResult
  <2>1. handlers = <<>> /\ (req = 0 \/ result # "none") /\ ~timer
    BY DEF RunInv
  <2>2. result # "none"
    BY <2>1 DEF Types, TypeOK
  <2>3. op = "none"
    <3>1. Current = {}
      BY <2>2 DEF RunInv
    <3>2. QED
      BY <3>1 DEF Current
  <2>4. QED
    BY <2>1, <2>2, <2>3
<1>2. QED
  BY <1>1, RunHolds, PTL


-----------------------------------------------------------------------------
Unwritten(s) == s[1] \in {"resolve", "connect"} \/ (s[1] = "write" /\ s[2] # "ok")
Awaiting(s) == s = <<"write", "ok">> \/ s[1] = "header"
Opened(s) == s[1] \in Reads \cup {"write"} \/ s = <<"connect", "ok">>
Unopened(s) == s[1] = "resolve" \/ (s[1] = "connect" /\ s[2] # "ok")

\* The pool holds the connection of the request and no other.
PoolInv ==
  /\ connections \subseteq {connection}
  /\ Current # {} => connections = {connection}
  /\ \A c \in Conn \ connections : conn[c] = NewConnection
  /\ Current = {} /\ pc # "threw" =>
       \A c \in connections : ~conn[c].in_use /\ conn[c].is_open
  /\ \A s \in Current : /\ Opened(s) => conn[connection].is_open
                        /\ Unopened(s) => ~conn[connection].is_open

\* What the request was sent already, before it is written and while its
\* answer is awaited.
Before == IF conn[connection].attempt_reconnect THEN 0 ELSE 1

SentInv ==
  /\ sent <= 2
  /\ \A s \in Current : /\ Unwritten(s) => sent <= Before
                        /\ Awaiting(s) => sent <= Before + 1

-----------------------------------------------------------------------------
(***************************************************************************)
(* The pool, and how often a request is sent.                              *)
(***************************************************************************)
\* The callback keeps the connection of a request that went well, and drops it
\* otherwise.
LEMMA CallbackPool ==
  ASSUME connections = {connection}, connection \in Conn, NEW cs \in [Conn -> Connections],
         NEW ec, callback(cs, ec)
  PROVE  /\ Others(cs, conn', connection)
         /\ ec = "ok" =>
              /\ connections' = {connection}
              /\ conn'[connection].in_use = FALSE
              /\ conn'[connection].attempt_reconnect = cs[connection].attempt_reconnect
              /\ conn'[connection].is_open = cs[connection].is_open
              /\ conn'[connection].wire = cs[connection].wire
              /\ conn'[connection].inbox = cs[connection].inbox
              /\ conn'[connection].peer = cs[connection].peer
              /\ conn'[connection].sending = cs[connection].sending
         /\ ec # "ok" => connections' = {} /\ conn'[connection] = NewConnection
<1> DEFINE idle == {c \in connections \ Broken(ec) : c = connection \/ ~cs[c].in_use}
<1>1. PICK spare \in IF idle = {} THEN {{}} ELSE {idle \ {c} : c \in idle} :
        /\ connections' = connections \ (Broken(ec) \cup spare)
        /\ conn' = [c \in Conn |->
             IF c \in Broken(ec) \cup spare THEN NewConnection
             ELSE IF c = connection THEN [cs[c] EXCEPT !.in_use = FALSE] ELSE cs[c]]
  BY DEF callback
<1>2. spare = {}
  <2>1. CASE ec = "ok"
    <3>1. idle = {connection}
      BY <2>1 DEF Broken
    <3>2. QED
      BY <1>1, <3>1
  <2>2. CASE ec # "ok"
    <3>1. idle = {}
      BY <2>2 DEF Broken
    <3>2. QED
      BY <1>1, <3>1
  <2>3. QED
    BY <2>1, <2>2
<1>3. Others(cs, conn', connection)
  BY <1>1, <1>2 DEF Others, Broken
<1>4. ASSUME ec = "ok"
      PROVE  connections' = {connection} /\ conn'[connection] = [cs[connection] EXCEPT !.in_use = FALSE]
  BY <1>1, <1>2, <1>4 DEF Broken
<1>5. ASSUME ec # "ok" PROVE connections' = {} /\ conn'[connection] = NewConnection
  BY <1>1, <1>2, <1>5 DEF Broken
<1>6. cs[connection] \in Connections
  OBVIOUS
<1>7. QED
  BY <1>3, <1>4, <1>5, <1>6 DEF Connections

\* A step that moves the request on along its connection.
LEMMA PoolMoves ==
  ASSUME PoolInv, connections = {connection}, connections' = connections,
         connection' = connection, Others(conn, conn', connection), NEW s, Current' = {s},
         Opened(s) => conn'[connection].is_open, Unopened(s) => ~conn'[connection].is_open
  PROVE  PoolInv'
<1>1. \A c \in Conn \ connections' : conn'[c] = NewConnection
  BY DEF PoolInv, Others
<1>2. QED
  BY <1>1 DEF PoolInv

\* A step that ends the request.
LEMMA PoolEnds ==
  ASSUME PoolInv, connections = {connection}, connection \in Conn, connection' = connection,
         NEW cs \in [Conn -> Connections], Others(conn, cs, connection),
         cs[connection].is_open = conn[connection].is_open,
         NEW ec, callback(cs, ec), ec = "ok" => conn[connection].is_open, Current' = {}
  PROVE  PoolInv'
<1>1. /\ Others(cs, conn', connection)
      /\ ec = "ok" => /\ connections' = {connection} /\ ~conn'[connection].in_use
                      /\ conn'[connection].is_open = cs[connection].is_open
      /\ ec # "ok" => connections' = {} /\ conn'[connection] = NewConnection
  BY CallbackPool
<1>2. \A c \in Conn \ {connection} : conn'[c] = NewConnection
  BY <1>1 DEF PoolInv, Others
<1>3. QED
  BY <1>1, <1>2 DEF PoolInv

\* Init sets up an empty pool.
LEMMA PoolInit == Init => PoolInv /\ SentInv
<1> SUFFICES ASSUME Init PROVE PoolInv /\ SentInv
  OBVIOUS
<1>1. connections = {} /\ conn = [c \in Conn |-> NewConnection] /\ sent = 0 /\ op = "none"
  BY DEF Init
<1>2. Current = {}
  <2>1. handlers = <<>>
    BY DEF Init
  <2>2. Pending(handlers) = {}
    BY <2>1 DEF Pending
  <2>3. QED
    BY <1>1, <2>2 DEF Current, Stages
<1>3. PoolInv
  BY <1>1, <1>2 DEF PoolInv
<1>4. SentInv
  BY <1>1, <1>2 DEF SentInv
<1>5. QED
  BY <1>3, <1>4

\* A step that moves the request on without sending it.
LEMMA SentMoves ==
  ASSUME SentInv, sent' = sent, NEW s, NEW t, Current = {s}, Current' = {t},
         Before' = Before \/ (~Unwritten(t) /\ ~Awaiting(t)),
         Unwritten(t) => Unwritten(s), Awaiting(t) => Awaiting(s)
  PROVE  SentInv'
BY DEF SentInv

\* Every step keeps the pool to the connection of the request, and sends the
\* request again only after it was replaced.
LEMMA PoolStep ==
  Types /\ RunInv /\ PoolInv /\ SentInv /\ [Next]_vars => PoolInv' /\ SentInv'
<1> SUFFICES ASSUME Types, RunInv, PoolInv, SentInv, [Next]_vars PROVE PoolInv' /\ SentInv'
  OBVIOUS
<1>a. /\ connections \subseteq Conn /\ connection \in Conn /\ conn \in [Conn -> Connections]
      /\ op \in Ops \cup {"none"} /\ req \in 0..MaxRequests /\ sent \in Nat
  BY DEF Types, TypeOK, Connections
<1>b. conn[connection] \in Connections
  BY <1>a
<1>c. Others(conn, conn, connection)
  BY DEF Others
<1>1. CASE Request
  <2> DEFINE idle == {c \in connections : ~conn[c].in_use}
  <2>1. PICK c \in IF idle # {} THEN idle ELSE Conn \ connections :
          /\ connection' = c
          /\ connections' = connections \cup {c}
          /\ conn' = [conn EXCEPT ![c].attempt_reconnect = TRUE, ![c].in_use = TRUE]
          /\ connect(conn[c].is_open)
    BY <1>1 DEF Request
  <2>2. c \in Conn
    BY <1>a, <2>1
  <2>3. pc = "idle" /\ sent' = 0 /\ handlers' = handlers
    BY <1>1 DEF Request
  <2>4. handlers = <<>> /\ op = "none"
    <3>1. handlers = <<>> /\ (Current # {} => pc = "run")
      BY <2>3 DEF RunInv
    <3>2. QED
      BY <2>3, <3>1 DEF Current
  <2>5. Stages(handlers) = {}
    <3>1. Pending(handlers) = {}
      BY <2>4 DEF Pending
    <3>2. QED
      BY <3>1 DEF Stages
  <2>6. \A d \in connections : ~conn[d].in_use
    BY <2>3, <2>4, <2>5 DEF PoolInv, Current
  <2>7. connections' = {c}
    <3>1. connections \subseteq {connection}
      BY DEF PoolInv
    <3>2. CASE connections = {}
      BY <2>1, <3>2
    <3>3. CASE connections = {connection}
      <4>1. idle = {connection}
        BY <2>6, <3>3
      <4>2. c = connection
        BY <2>1, <4>1
      <4>3. QED
        BY <2>1, <3>3, <4>2
    <3>4. QED
      BY <3>1, <3>2, <3>3
  <2>8. /\ Others(conn, conn', c) /\ conn'[c].is_open = conn[c].is_open
    BY <1>a, <2>1, <2>2, TakenConnection DEF Others
  <2>9. \A d \in Conn \ {c} : conn'[d] = NewConnection
    <3>1. \A d \in Conn \ {c} : d \notin connections
      BY <2>1, <2>7
    <3>2. QED
      BY <2>8, <3>1 DEF PoolInv, Others
  <2>10. op' = (IF conn[c].is_open THEN "write" ELSE "resolve")
    BY <2>1 DEF connect, Begin
  <2>11. Current' = {<<op', "going">>}
    BY <2>3, <2>5, <2>10 DEF Current
  <2>12. PoolInv'
    <3>1. \A s \in Current' : /\ Opened(s) => conn'[c].is_open
                              /\ Unopened(s) => ~conn'[c].is_open
      BY <2>8, <2>10, <2>11 DEF Opened, Unopened, Reads
    <3>2. QED
      BY <2>1, <2>7, <2>9, <2>11, <3>1 DEF PoolInv
  <2>13. SentInv'
    <3>1. sent' = 0 /\ (Before' = 0 \/ Before' = 1)
      BY <2>3 DEF Before
    <3>2. sent' <= 2 /\ sent' <= Before' /\ sent' <= Before' + 1
      BY <3>1
    <3>3. QED
      BY <3>2 DEF SentInv
  <2>14. QED
    BY <2>12, <2>13
<1>2. CASE Return
  <2>1. /\ pc = "run"
        /\ UNCHANGED <<connections, conn, connection, op, handlers, sent>>
    BY <1>2 DEF Return
  <2>2. Current' = Current /\ Before' = Before
    BY <2>1 DEF Current, Before
  <2>3. PoolInv'
    BY <2>1, <2>2 DEF PoolInv
  <2>4. SentInv'
    BY <2>1, <2>2 DEF SentInv
  <2>5. QED
    BY <2>3, <2>4
<1>3. CASE Resolved
  <2>1. PICK ec \in {"ok", "host_not_found"} : Complete(ec)
    BY <1>3 DEF Resolved
  <2>2. ec \in Codes /\ op \in Ops /\ op = "resolve"
    BY <1>3 DEF Codes, ErrorCodes, Resolved, Ops
  <2>3. UNCHANGED <<connections, conn, connection, sent>>
    BY <1>3 DEF Resolved
  <2>4. Current = {<<"resolve", "going">>} /\ Current' = {<<"resolve", ec>>}
    BY <2>1, <2>2, CompleteStage
  <2>5. connections = {connection} /\ ~conn[connection].is_open
    BY <2>4 DEF PoolInv, Unopened
  <2>6. PoolInv'
    <3>1. ~Opened(<<"resolve", ec>>)
      BY DEF Opened, Reads
    <3>2. QED
      BY <1>c, <2>3, <2>4, <2>5, <3>1, PoolMoves
  <2>7. SentInv'
    <3>1. Unwritten(<<"resolve", "going">>) /\ ~Awaiting(<<"resolve", ec>>) /\ Before' = Before
      BY <2>3 DEF Unwritten, Awaiting, Before
    <3>2. QED
      BY <2>3, <2>4, <3>1, SentMoves
  <2>8. QED
    BY <2>6, <2>7
<1>4. CASE Connected
  <2>1. /\ Complete("ok") /\ op = "connect"
        /\ conn' = [conn EXCEPT ![connection].is_open = TRUE, ![connection].peer = TRUE]
        /\ UNCHANGED <<connections, connection, sent>>
    BY <1>4 DEF Connected
  <2>2. "ok" \in Codes /\ op \in Ops
    BY <2>1 DEF Codes, ErrorCodes, Ops
  <2>3. Current = {<<"connect", "going">>} /\ Current' = {<<"connect", "ok">>}
    BY <2>1, <2>2, CompleteStage
  <2>4. connections = {connection}
    BY <2>3 DEF PoolInv
  <2>5. /\ Others(conn, conn', connection) /\ conn'[connection].is_open
        /\ conn'[connection].attempt_reconnect = conn[connection].attempt_reconnect
    BY <1>a, <2>1, ConnectedConnection DEF Others
  <2>6. PoolInv'
    <3>1. ~Unopened(<<"connect", "ok">>)
      BY DEF Unopened
    <3>2. QED
      BY <2>1, <2>3, <2>4, <2>5, <3>1, PoolMoves
  <2>7. SentInv'
    <3>1. Unwritten(<<"connect", "going">>) /\ ~Awaiting(<<"connect", "ok">>) /\ Before' = Before
      BY <2>1, <2>5 DEF Unwritten, Awaiting, Before
    <3>2. QED
      BY <2>1, <2>3, <3>1, SentMoves
  <2>8. QED
    BY <2>6, <2>7
<1>5. CASE NotConnected
  <2>1. /\ op = "connect"
        /\ IF endpoints > 1 THEN UNCHANGED <<op, handlers>> ELSE Complete("refused")
        /\ UNCHANGED <<connections, conn, connection, pc, sent>>
    BY <1>5 DEF NotConnected
  <2>2. "refused" \in Codes /\ op \in Ops
    BY <2>1 DEF Codes, ErrorCodes, Ops
  <2>3. Before' = Before
    BY <2>1 DEF Before
  <2>4. CASE endpoints > 1
    <3>1. Current' = Current
      BY <2>1, <2>4 DEF Current
    <3>2. QED
      BY <2>1, <2>3, <3>1 DEF PoolInv, SentInv
  <2>5. CASE ~(endpoints > 1)
    <3>1. Current = {<<"connect", "going">>} /\ Current' = {<<"connect", "refused">>}
      BY <2>1, <2>2, <2>5, CompleteStage
    <3>2. connections = {connection} /\ ~conn[connection].is_open
      BY <3>1 DEF PoolInv, Unopened
    <3>3. PoolInv'
      <4>1. ~Opened(<<"connect", "refused">>)
        BY DEF Opened, Reads
      <4>2. QED
        BY <1>c, <2>1, <3>1, <3>2, <4>1, PoolMoves
    <3>4. SentInv'
      <4>1. Unwritten(<<"connect", "going">>) /\ ~Awaiting(<<"connect", "refused">>)
        BY DEF Unwritten, Awaiting
      <4>2. QED
        BY <2>1, <2>3, <3>1, <4>1, SentMoves
    <3>5. QED
      BY <3>3, <3>4
  <2>6. QED
    BY <2>4, <2>5
<1>6. CASE Written
  <2>1. op = "write" /\ UNCHANGED <<connections, connection>>
    BY <1>6 DEF Written
  <2>2. op \in Ops /\ "ok" \in Codes /\ "broken_pipe" \in Codes
    BY <2>1 DEF Codes, ErrorCodes, Ops
  <2>3. PICK ec \in {"ok", "broken_pipe"} : Complete(ec) /\ sent' = (IF ec = "ok" THEN sent + 1 ELSE sent)
    BY <1>6 DEF Written
  <2>4. Current = {<<"write", "going">>} /\ Current' = {<<"write", ec>>}
    BY <2>1, <2>2, <2>3, CompleteStage
  <2>5. conn' = conn \/ conn' = [conn EXCEPT ![connection].inbox = req]
    BY <1>6 DEF Written
  <2>6. /\ Others(conn, conn', connection) /\ conn'[connection].is_open = conn[connection].is_open
        /\ conn'[connection].attempt_reconnect = conn[connection].attempt_reconnect
    <3>1. CASE conn' = conn
      BY <1>c, <3>1
    <3>2. CASE conn' = [conn EXCEPT ![connection].inbox = req]
      BY <1>a, <3>2, OneField DEF Others
    <3>3. QED
      BY <2>5, <3>1, <3>2
  <2>7. connections = {connection} /\ conn[connection].is_open
    BY <2>4 DEF PoolInv, Opened
  <2>8. PoolInv'
    <3>1. ~Unopened(<<"write", ec>>)
      BY DEF Unopened
    <3>2. QED
      BY <2>1, <2>4, <2>6, <2>7, <3>1, PoolMoves
  <2>9. SentInv'
    <3>1. Unwritten(<<"write", "going">>) /\ Before' = Before /\ Before \in {0, 1}
      BY <2>1, <2>6 DEF Unwritten, Before
    <3>2. sent <= Before
      BY <2>4, <3>1 DEF SentInv
    <3>3. CASE ec = "ok"
      <4>1. ~Unwritten(<<"write", ec>>)
        BY <3>3 DEF Unwritten
      <4>2. sent' <= Before' + 1 /\ sent' <= 2
        BY <1>a, <2>3, <3>1, <3>2, <3>3
      <4>3. QED
        BY <2>4, <4>1, <4>2 DEF SentInv
    <3>4. CASE ec # "ok"
      <4>1. ~Awaiting(<<"write", ec>>)
        BY <3>4 DEF Awaiting
      <4>2. QED
        BY <2>3, <2>4, <3>1, <3>4, <4>1, SentMoves
    <3>5. QED
      BY <3>3, <3>4
  <2>10. QED
    BY <2>8, <2>9
<1>7. CASE Readable
  <2>1. Wire \in Seq(Items) /\ op \in Reads
    BY <1>7, ReadableStep
  <2>2. PICK n \in 1..Len(Wire), k \in 0..Len(Wire), ec \in Codes :
          /\ conn' = [conn EXCEPT ![connection].wire = SubSeq(Wire, k + 1, Len(Wire))]
          /\ Complete(ec)
    BY <1>7, ReadableStep
  <2>3. UNCHANGED <<connections, connection, sent>>
    BY <1>7 DEF Readable
  <2>4. op \in Ops
    BY <2>1 DEF Ops
  <2>5. Current = {<<op, "going">>} /\ Current' = {<<op, ec>>}
    BY <2>2, <2>4, CompleteStage
  <2>6. Len(Wire) \in Nat /\ \A i \in 1..Len(Wire) : Wire[i] \in Items
    BY <2>1, LenProperties, ElementOfSeq
  <2>7. SubSeq(Wire, k + 1, Len(Wire)) \in Seq(Items)
    <3>1. \A i \in (k + 1)..Len(Wire) : Wire[i] \in Items
      BY <2>6
    <3>2. QED
      BY <2>6, <3>1, SubSeqProperties
  <2>8. /\ Others(conn, conn', connection) /\ conn'[connection].is_open = conn[connection].is_open
        /\ conn'[connection].attempt_reconnect = conn[connection].attempt_reconnect
    BY <1>a, <2>2, <2>7, OneField DEF Others
  <2>9. Opened(<<op, "going">>) /\ ~Unopened(<<op, ec>>)
    BY <2>1 DEF Opened, Unopened, Reads
  <2>10. connections = {connection} /\ conn[connection].is_open
    BY <2>5, <2>9 DEF PoolInv
  <2>11. PoolInv'
    BY <2>3, <2>5, <2>8, <2>9, <2>10, PoolMoves
  <2>12. SentInv'
    <3>1. /\ Before' = Before /\ ~Unwritten(<<op, ec>>)
          /\ Awaiting(<<op, ec>>) => Awaiting(<<op, "going">>)
      BY <2>1, <2>3, <2>8 DEF Unwritten, Awaiting, Reads, Before
    <3>2. QED
      BY <2>3, <2>5, <3>1, SentMoves
  <2>13. QED
    BY <2>11, <2>12
<1>8. CASE Expire
  <2>1. UNCHANGED <<connections, conn, connection, pc, sent>>
    BY <1>8 DEF Expire
  <2>2. Current' = Current /\ Before' = Before
    BY <1>8, <2>1, ExpireStage DEF Before
  <2>3. QED
    BY <2>1, <2>2 DEF PoolInv, SentInv
<1>9. CASE TimerHandler
  <2>1. UNCHANGED <<connections, conn, connection, pc, sent>>
    BY <1>9 DEF TimerHandler
  <2>2. \/ Current' = Current
        \/ op \in Ops /\ Current = {<<op, "going">>} /\ Current' = {<<op, "aborted">>}
    BY <1>9, TimerStage
  <2>3. Before' = Before
    BY <2>1 DEF Before
  <2>4. CASE Current' = Current
    BY <2>1, <2>3, <2>4 DEF PoolInv, SentInv
  <2>5. CASE op \in Ops /\ Current = {<<op, "going">>} /\ Current' = {<<op, "aborted">>}
    <3>1. /\ Opened(<<op, "aborted">>) => Opened(<<op, "going">>)
          /\ Unopened(<<op, "aborted">>) => Unopened(<<op, "going">>)
          /\ Unwritten(<<op, "aborted">>) => Unwritten(<<op, "going">>)
          /\ Awaiting(<<op, "aborted">>) => Awaiting(<<op, "going">>)
      BY DEF Opened, Unopened, Unwritten, Awaiting
    <3>2. /\ connections = {connection}
          /\ Opened(<<op, "going">>) => conn[connection].is_open
          /\ Unopened(<<op, "going">>) => ~conn[connection].is_open
      BY <2>5 DEF PoolInv
    <3>3. PoolInv'
      BY <1>c, <2>1, <2>5, <3>1, <3>2, PoolMoves
    <3>4. SentInv'
      BY <2>1, <2>3, <2>5, <3>1, SentMoves
    <3>5. QED
      BY <3>3, <3>4
  <2>6. QED
    BY <2>2, <2>4, <2>5
<1>10. CASE Failed
  <2>1. PICK o \in Ops,
          ec \in {"host_not_found", "refused", "broken_pipe", "eof", "reset", "aborted",
                  "bad_line"} :
            /\ Handle(o, ec)
            /\ callback(conn, IF o = "rest" /\ ec = "eof" THEN "ok" ELSE ec)
    BY <1>10 DEF Failed
  <2> DEFINE r == IF o = "rest" /\ ec = "eof" THEN "ok" ELSE ec
  <2>2. callback(conn, r) /\ (r = "ok" => o = "rest") /\ connection' = connection
    BY <1>10, <2>1 DEF Failed
  <2> HIDE DEF r
  <2>3. Current = {<<o, ec>>} /\ Stages(handlers') = {} /\ sent' = sent
    BY <2>1, HandleStage
  <2>4. connections = {connection} /\ (o = "rest" => conn[connection].is_open)
    BY <2>3 DEF PoolInv, Opened, Reads
  <2>5. Current' = {}
    BY <2>2, <2>3 DEF callback, Current
  <2>6. PoolInv'
    BY <1>a, <1>c, <2>2, <2>4, <2>5, PoolEnds
  <2>7. SentInv'
    BY <2>3, <2>5 DEF SentInv
  <2>8. QED
    BY <2>6, <2>7
<1>11. CASE ResolveHandler
  <2>1. /\ Handle("resolve", "ok") /\ op' = "connect"
        /\ UNCHANGED <<connections, conn, connection>>
    BY <1>11 DEF ResolveHandler, Begin
  <2>2. "resolve" \in Ops
    BY DEF Ops
  <2>3. Current = {<<"resolve", "ok">>} /\ Stages(handlers') = {} /\ sent' = sent
    BY <2>1, <2>2, HandleStage
  <2>4. Current' = {<<"connect", "going">>}
    BY <2>1, <2>3 DEF Current
  <2>5. connections = {connection} /\ ~conn[connection].is_open
    BY <2>3 DEF PoolInv, Unopened
  <2>6. PoolInv'
    <3>1. ~Opened(<<"connect", "going">>)
      BY DEF Opened, Reads
    <3>2. QED
      BY <1>c, <2>1, <2>4, <2>5, <3>1, PoolMoves
  <2>7. SentInv'
    <3>1. /\ Unwritten(<<"resolve", "ok">>) /\ ~Awaiting(<<"connect", "going">>)
          /\ Before' = Before
      BY <2>1 DEF Unwritten, Awaiting, Before
    <3>2. QED
      BY <2>3, <2>4, <3>1, SentMoves
  <2>8. QED
    BY <2>6, <2>7
<1>12. CASE Continue
  <2>1. UNCHANGED <<connections, conn, connection>>
    BY <1>12 DEF Continue
  <2>2. PICK o \in Ops, next \in {"write", "header", "data", "line"} :
          /\ Handle(o, "ok") /\ op' = next
          /\ <<o, next>> \in {<<"connect", "write">>, <<"write", "header">>, <<"line", "data">>,
                              <<"data", "line">>}
    BY <1>12 DEF Continue, Begin, Ops, Reads
  <2>3. Current = {<<o, "ok">>} /\ Stages(handlers') = {} /\ sent' = sent
    BY <2>2, HandleStage
  <2>4. Current' = {<<next, "going">>}
    BY <2>2, <2>3 DEF Current
  <2>5. /\ Opened(<<o, "ok">>) /\ ~Unopened(<<next, "going">>)
        /\ Unwritten(<<next, "going">>) => Unwritten(<<o, "ok">>)
        /\ Awaiting(<<next, "going">>) => Awaiting(<<o, "ok">>)
    BY <2>2 DEF Opened, Unopened, Unwritten, Awaiting, Reads
  <2>6. connections = {connection} /\ conn[connection].is_open
    BY <2>3, <2>5 DEF PoolInv
  <2>7. PoolInv'
    BY <1>c, <2>1, <2>4, <2>5, <2>6, PoolMoves
  <2>8. SentInv'
    <3>1. Before' = Before
      BY <2>1 DEF Before
    <3>2. QED
      BY <2>3, <2>4, <2>5, <3>1, SentMoves
  <2>9. QED
    BY <2>7, <2>8
<1>13. CASE Reconnect
  <2>1. PICK ec \in {"eof", "reset"} : Handle("header", ec) /\ MayReconnect(ec)
    BY <1>13 DEF Reconnect
  <2>2. PICK c \in Conn \ connections :
          /\ connections' = Replaced(c)
          /\ connection' = c
          /\ conn' = [conn EXCEPT ![connection] = NewConnection,
                                  ![c].attempt_reconnect = FALSE, ![c].in_use = TRUE]
          /\ connect(FALSE)
    BY <1>13 DEF Reconnect
  <2>3. op' = "resolve"
    BY <2>2 DEF connect, Begin
  <2>4. "header" \in Ops
    BY DEF Ops, Reads
  <2>5. Current = {<<"header", ec>>} /\ Stages(handlers') = {} /\ sent' = sent
    BY <2>1, <2>4, HandleStage
  <2>6. Current' = {<<"resolve", "going">>}
    BY <2>3, <2>5 DEF Current
  <2>7. connections = {connection}
    BY <2>5 DEF PoolInv
  <2>8. connection # c /\ connections' = {c}
    BY <2>2, <2>7 DEF Replaced
  <2>9. /\ \A d \in Conn \ {connection, c} : conn'[d] = conn[d]
        /\ conn'[connection] = NewConnection
        /\ conn'[c].attempt_reconnect = FALSE /\ conn'[c].is_open = conn[c].is_open
    BY <1>a, <2>2, <2>8, ReplacedConnection
  <2>10. conn[c] = NewConnection /\ \A d \in Conn \ {connection} : conn[d] = NewConnection
    BY <2>2, <2>7 DEF PoolInv
  <2>11. ~conn'[c].is_open
    BY <2>9, <2>10 DEF NewConnection
  <2>12. \A d \in Conn \ {c} : conn'[d] = NewConnection
    BY <2>9, <2>10
  <2>13. PoolInv'
    <3>1. ~Opened(<<"resolve", "going">>)
      BY DEF Opened, Reads
    <3>2. QED
      BY <2>2, <2>6, <2>8, <2>11, <2>12, <3>1 DEF PoolInv
  <2>14. SentInv'
    <3>1. Before = 0 /\ Before' = 1
      BY <2>1, <2>2, <2>9 DEF MayReconnect, Before
    <3>2. Awaiting(<<"header", ec>>) /\ ~Awaiting(<<"resolve", "going">>)
      BY DEF Awaiting
    <3>3. sent <= 1
      BY <2>5, <3>1, <3>2 DEF SentInv
    <3>4. sent' <= 2 /\ sent' <= Before'
      BY <1>a, <2>5, <3>1, <3>3
    <3>5. QED
      BY <2>6, <3>2, <3>4 DEF SentInv
  <2>15. QED
    BY <2>13, <2>14
<1>14. CASE HeaderReadsOn
  <2>1. /\ Handle("header", "ok") /\ conn' = [conn EXCEPT ![connection].attempt_reconnect = TRUE]
        /\ UNCHANGED <<connections, connection>>
    BY <1>14 DEF HeaderReadsOn, Rearmed
  <2>2. PICK o \in {"body", "rest", "line"} : op' = o
    BY <1>14 DEF HeaderReadsOn, Begin
  <2>3. "header" \in Ops
    BY DEF Ops, Reads
  <2>4. Current = {<<"header", "ok">>} /\ Stages(handlers') = {} /\ sent' = sent
    BY <2>1, <2>3, HandleStage
  <2>5. Current' = {<<o, "going">>}
    BY <2>2, <2>4 DEF Current
  <2>6. Others(conn, conn', connection) /\ conn'[connection].is_open = conn[connection].is_open
    BY <1>a, <2>1, OneField DEF Others
  <2>7. connections = {connection} /\ conn[connection].is_open
    BY <2>4 DEF PoolInv, Opened, Reads
  <2>8. /\ ~Unopened(<<o, "going">>) /\ ~Unwritten(<<o, "going">>)
        /\ ~Awaiting(<<o, "going">>)
    BY DEF Unopened, Unwritten, Awaiting
  <2>9. PoolInv'
    BY <2>1, <2>5, <2>6, <2>7, <2>8, PoolMoves
  <2>10. SentInv'
    BY <2>4, <2>5, <2>8, SentMoves
  <2>11. QED
    BY <2>9, <2>10
<1>15. CASE HeaderEnds
  <2>1. Handle("header", "ok") /\ connection' = connection
    BY <1>15 DEF HeaderEnds
  <2>2. PICK ec \in {"protocol_error", "ok"} : callback(Rearmed, ec)
    BY <1>15 DEF HeaderEnds
  <2>3. "header" \in Ops
    BY DEF Ops, Reads
  <2>4. Current = {<<"header", "ok">>} /\ Stages(handlers') = {} /\ sent' = sent
    BY <2>1, <2>3, HandleStage
  <2>5. /\ Rearmed \in [Conn -> Connections] /\ Others(conn, Rearmed, connection)
        /\ Rearmed[connection].is_open = conn[connection].is_open
    <3>1. PICK g : g = [conn EXCEPT ![connection].attempt_reconnect = TRUE]
      OBVIOUS
    <3>2. /\ g \in [Conn -> Connections] /\ Others(conn, g, connection)
          /\ g[connection].is_open = conn[connection].is_open
      <4>1. g \in [Conn -> Connections]
        BY <1>a, <3>1, FieldSet
      <4>2. Others(conn, g, connection) /\ g[connection].is_open = conn[connection].is_open
        BY <1>a, <3>1, OneField DEF Others
      <4>3. QED
        BY <4>1, <4>2
    <3>3. g = Rearmed
      BY <3>1 DEF Rearmed
    <3>4. QED
      BY <3>2, <3>3
  <2>6. connections = {connection} /\ conn[connection].is_open
    BY <2>4 DEF PoolInv, Opened, Reads
  <2>7. Current' = {}
    BY <2>2, <2>4 DEF callback, Current
  <2>8. PoolInv'
    BY <1>a, <2>1, <2>2, <2>5, <2>6, <2>7, PoolEnds
  <2>9. SentInv'
    BY <2>4, <2>7 DEF SentInv
  <2>10. QED
    BY <2>8, <2>9
<1>16. CASE HeaderThrows
  <2>1. /\ Handle("header", "ok") /\ conn' = [conn EXCEPT ![connection].attempt_reconnect = TRUE]
        /\ pc' = "threw" /\ op' = "none"
        /\ UNCHANGED <<connections, connection>>
    BY <1>16 DEF HeaderThrows, Rearmed
  <2>2. "header" \in Ops
    BY DEF Ops, Reads
  <2>3. Current = {<<"header", "ok">>} /\ Stages(handlers') = {} /\ sent' = sent
    BY <2>1, <2>2, HandleStage
  <2>4. Current' = {}
    BY <2>1, <2>3 DEF Current
  <2>5. Others(conn, conn', connection)
    BY <1>a, <2>1, OneField DEF Others
  <2>6. connections = {connection}
    BY <2>3 DEF PoolInv
  <2>7. \A c \in Conn \ connections' : conn'[c] = NewConnection
    BY <2>1, <2>5, <2>6 DEF PoolInv, Others
  <2>8. PoolInv'
    BY <2>1, <2>4, <2>6, <2>7 DEF PoolInv
  <2>9. SentInv'
    BY <2>3, <2>4 DEF SentInv
  <2>10. QED
    BY <2>8, <2>9
<1>17. CASE Received
  <2>1. PICK o \in {"body", "data"}, ec \in {"ok", "last"} : Handle(o, ec)
    BY <1>17 DEF Received
  <2>2. callback(conn, "ok") /\ connection' = connection
    BY <1>17 DEF Received
  <2>3. o \in Ops
    BY DEF Ops, Reads
  <2>4. Current = {<<o, ec>>} /\ Stages(handlers') = {} /\ sent' = sent
    BY <2>1, <2>3, HandleStage
  <2>5. connections = {connection} /\ conn[connection].is_open
    <3>1. Opened(<<o, ec>>)
      BY DEF Opened, Reads
    <3>2. QED
      BY <2>4, <3>1 DEF PoolInv
  <2>6. Current' = {}
    BY <2>2, <2>4 DEF callback, Current
  <2>7. PoolInv'
    BY <1>a, <1>c, <2>2, <2>5, <2>6, PoolEnds
  <2>8. SentInv'
    BY <2>4, <2>6 DEF SentInv
  <2>9. QED
    BY <2>7, <2>8
<1>18. ASSUME NEW c \in Conn, Serve(c) \/ Chunk(c) \/ Close(c) PROVE PoolInv' /\ SentInv'
  <2>1. /\ conn[c].peer
        /\ UNCHANGED <<connections, connection, op, handlers, pc, sent>>
    BY <1>18 DEF Serve, Chunk, Close
  <2>2. connections = {connection} /\ c = connection
    BY <2>1 DEF PoolInv, NewConnection
  <2>3. /\ Others(conn, conn', connection)
        /\ conn'[connection].attempt_reconnect = conn[connection].attempt_reconnect
        /\ conn'[connection].in_use = conn[connection].in_use
        /\ conn'[connection].is_open = conn[connection].is_open
    BY <1>a, <1>18, <2>2, ServeStep, ChunkStep, CloseStep
  <2>4. Current' = Current /\ Before' = Before
    BY <2>1, <2>3 DEF Current, Before
  <2>5. \A d \in Conn \ connections' : conn'[d] = NewConnection
    BY <2>1, <2>2, <2>3 DEF PoolInv, Others
  <2>6. PoolInv'
    BY <2>1, <2>2, <2>3, <2>4, <2>5 DEF PoolInv
  <2>7. SentInv'
    BY <2>1, <2>4 DEF SentInv
  <2>8. QED
    BY <2>6, <2>7
<1>19. CASE UNCHANGED vars
  <2>1. UNCHANGED <<connections, conn, connection, op, handlers, pc, sent>>
    BY <1>19 DEF vars
  <2>2. Current' = Current /\ Before' = Before
    BY <2>1 DEF Current, Before
  <2>3. QED
    BY <2>1, <2>2 DEF PoolInv, SentInv
<1>20. QED
  BY <1>1, <1>2, <1>3, <1>4, <1>5, <1>6, <1>7, <1>8, <1>9, <1>10, <1>11, <1>12, <1>13,
     <1>14, <1>15, <1>16, <1>17, <1>18, <1>19 DEF Next, Handler

\* The pool, the stage of the request and the number of times it was sent agree.
THEOREM PoolHolds == Spec => [](PoolInv /\ SentInv)
<1>1. Init => PoolInv /\ SentInv
  BY PoolInit
<1>2. (Types /\ RunInv) /\ (PoolInv /\ SentInv) /\ [Next]_vars => (PoolInv /\ SentInv)'
  BY PoolStep
<1>3. QED
  BY <1>1, <1>2, RunHolds, PTL DEF Spec

\* One request() hands its bytes to the kernel at most twice, however often the
\* server closes connections: what was sent again is not sent a third time.
THEOREM SentAtMostTwice == Spec => []AtMostTwice
<1>1. PoolInv /\ SentInv => AtMostTwice
  BY DEF SentInv, AtMostTwice
<1>2. QED
  BY <1>1, PoolHolds, PTL

\* Between requests the pool holds at most one connection, open and not in use,
\* whatever went wrong before.
THEOREM PoolStaysClean == Spec => []PoolIsClean
<1>1. RunInv /\ PoolInv => PoolIsClean
  <2> SUFFICES ASSUME RunInv, PoolInv, pc = "idle"
               PROVE  /\ Cardinality(connections) <= 1
                      /\ \A c \in connections : ~conn[c].in_use /\ conn[c].is_open
    BY DEF PoolIsClean
  <2>1. Current = {}
    BY DEF RunInv
  <2>2. connections = {} \/ connections = {connection}
    BY DEF PoolInv
  <2>3. Cardinality(connections) <= 1
    <3>1. Cardinality({}) = 0 /\ Cardinality({connection}) = 1
      BY FS_EmptySet, FS_Singleton
    <3>2. QED
      BY <2>2, <3>1
  <2>4. QED
    BY <2>1, <2>3 DEF PoolInv
<1>2. QED
  BY <1>1, RunHolds, PoolHolds, PTL


-----------------------------------------------------------------------------
(***************************************************************************)
(* What is on the wire.                                                    *)
(***************************************************************************)
\* The body of an answer whose end the client cannot see.
LeftBody(item) == item.framing = "unframed" /\ item.part = "body"

NoEnd(w) == \A i \in DOMAIN w : w[i] \notin Closing
OnlyEnds(w) == \A i \in DOMAIN w : w[i] \in Closing
OnlyLeft(w) == \A i \in DOMAIN w : w[i] \in Closing \/ LeftBody(w[i])
NoneOf(w, r) == \A i \in DOMAIN w : w[i] \in Closing \/ w[i].req # r

\* Behind its header an answer to request r has more, but no second header.
OnlyRest(w, r) ==
  \A i \in DOMAIN w :
    w[i] \in Closing \/ (w[i].req = r /\ w[i].part \notin {"start", "header"})

\* Bodies that were left, then the answer to request r, then the end.
Follows(x, y, r) ==
  \/ y \in Closing
  \/ /\ x \notin Closing
     /\ x.req = r =>
          /\ y.req = r /\ x.framing = y.framing
          /\ x.part \notin {"body", "last"}
          /\ x.part = "header" => y.part \notin {"start", "header"}

Belongs(x, r) ==
  /\ x.req <= r
  /\ x \in Closing \/ x.req = r \/ LeftBody(x)
  /\ x.framing = "unframed" => x.part \in {"start", "header", "body"}

InOrder(w, r) ==
  /\ \A i \in DOMAIN w : Belongs(w[i], r)
  /\ \A i, j \in DOMAIN w : i < j => Follows(w[i], w[j], r)

\* Of the answer to request r there is nothing but a part of one in chunks, without
\* its last chunk.
Unfinished(w, r) ==
  \A i \in DOMAIN w :
    w[i].req = r => w[i].framing = "chunked" /\ w[i].part \notin {"body", "last"}

\* The server has answered what it was asked.
Answered == conn[connection].peer => conn[connection].inbox = 0

\* streambuf ends with the header, or with a body that was all there was to read.
HeaderRead ==
  /\ streambuf # <<>>
  /\ LET last == streambuf[Len(streambuf)] IN
     \A i \in DOMAIN Wire :
       Wire[i] \in Closing \/ (Wire[i].framing = last.framing /\ last.part # "body")

Reading(s) == s[1] \in Reads \ {"header"} \/ s = <<"header", "ok">>
Completed(s) == s \in {<<"body", "ok">>, <<"data", "last">>, <<"rest", "eof">>}

\* What each stage of the request promises of the wire.
StageFits(s) ==
  /\ Unwritten(s) => Answered /\ OnlyLeft(Wire) /\ NoneOf(Wire, req)
  /\ Awaiting(s) /\ conn[connection].peer =>
       \/ conn[connection].inbox = 0
       \/ conn[connection].inbox = req /\ NoneOf(Wire, req)
  /\ Reading(s) => Answered /\ OnlyRest(Wire, req)
  /\ s = <<"header", "ok">> => HeaderRead
  /\ Completed(s) => OnlyEnds(Wire)

\* At this stage an answer in chunks may be incomplete.
Sends(s) ==
  /\ ~Unwritten(s) /\ ~Completed(s)
  /\ s = <<"header", "ok">> =>
       LET last == streambuf[Len(streambuf)] IN
       last.framing = "chunked" /\ last.part # "body"

\* Chunks are sent only while the answer is read, and only behind its header.
ChunkInv ==
  conn[connection].sending # 0 =>
    /\ conn[connection].sending = req /\ conn[connection].inbox = 0
    /\ conn[connection].peer /\ Unfinished(Wire, req)
    /\ Current # {} /\ \A s \in Current : Sends(s)

WireInv ==
  /\ InOrder(Wire, req)
  /\ conn[connection].peer => NoEnd(Wire)
  /\ ~conn[connection].is_open =>
       Wire = <<>> /\ conn[connection].inbox = 0 /\ ~conn[connection].peer
  /\ Current = {} => Answered
  /\ Current = {} /\ pc # "threw" => OnlyLeft(Wire)
  /\ \A s \in Current : StageFits(s)
  /\ ChunkInv
  /\ AnswerIsOwn

\* v is what is left of w after k items were read, and u is q with these items.
Suffix(w, k, v) == w \in Seq(Items) /\ k \in 0..Len(w) /\ v = SubSeq(w, k + 1, Len(w))
Taken(q, w, k, u) == /\ q \in Seq(Items) /\ w \in Seq(Items) /\ k \in 0..Len(w)
                     /\ u = q \o SubSeq(w, 1, k)

\* What is left on the wire after k items were read.
LEMMA SuffixItems ==
  ASSUME NEW w, NEW k, NEW v, Suffix(w, k, v)
  PROVE  /\ v \in Seq(Items) /\ DOMAIN v = 1..(Len(w) - k)
         /\ \A i \in DOMAIN v : i + k \in DOMAIN w /\ v[i] = w[i + k] /\ i \in Nat /\ i > 0
<1>0. w \in Seq(Items) /\ k \in 0..Len(w) /\ v = SubSeq(w, k + 1, Len(w))
  BY DEF Suffix
<1>1. Len(w) \in Nat /\ DOMAIN w = 1..Len(w) /\ \A i \in 1..Len(w) : w[i] \in Items
  BY <1>0, LenProperties, ElementOfSeq
<1>2. PICK n \in Nat : n = Len(w)
  BY <1>1
<1>3. \A i \in (k + 1)..n : w[i] \in Items
  BY <1>0, <1>1, <1>2
<1>4. k + 1 \in Int /\ n \in Int
  BY <1>0, <1>2
<1>5. /\ v \in Seq(Items) /\ Len(v) = (IF k + 1 <= n THEN n - (k + 1) + 1 ELSE 0)
      /\ \A i \in 1..(n - (k + 1) + 1) : v[i] = w[(k + 1) + i - 1]
  BY <1>0, <1>2, <1>3, <1>4, SubSeqProperties
<1>6. Len(v) = n - k
  BY <1>0, <1>2, <1>5
<1>7. DOMAIN v = 1..(n - k)
  BY <1>5, <1>6, LenProperties
<1>8. ASSUME NEW i \in 1..(n - k)
      PROVE  i + k \in 1..n /\ v[i] = w[i + k] /\ i \in Nat /\ i > 0
  <2>1. i \in 1..(n - (k + 1) + 1) /\ (k + 1) + i - 1 = i + k
    BY <1>0, <1>2
  <2>2. QED
    BY <1>0, <1>2, <1>5, <2>1
<1>9. QED
  BY <1>1, <1>2, <1>5, <1>7, <1>8

\* What holds of all that is on the wire holds of what is left.
LEMMA SuffixKeeps ==
  ASSUME NEW w, NEW k, NEW v, Suffix(w, k, v), NEW r
  PROVE  /\ InOrder(w, r) => InOrder(v, r)
         /\ NoEnd(w) => NoEnd(v)
         /\ NoneOf(w, r) => NoneOf(v, r)
         /\ OnlyRest(w, r) => OnlyRest(v, r)
         /\ Unfinished(w, r) => Unfinished(v, r)
<1>0. k \in Nat
  <2>1. w \in Seq(Items) /\ k \in 0..Len(w)
    BY DEF Suffix
  <2>2. QED
    BY <2>1, LenProperties
<1>1. \A i \in DOMAIN v : i + k \in DOMAIN w /\ v[i] = w[i + k] /\ i \in Nat /\ i > 0
  BY SuffixItems
<1>2. ASSUME InOrder(w, r) PROVE InOrder(v, r)
  <2>1. \A i \in DOMAIN v : Belongs(v[i], r)
    BY <1>1, <1>2 DEF InOrder
  <2>2. ASSUME NEW i \in DOMAIN v, NEW j \in DOMAIN v, i < j PROVE Follows(v[i], v[j], r)
    <3>1. i + k < j + k /\ i + k \in DOMAIN w /\ j + k \in DOMAIN w
      BY <1>0, <1>1, <2>2
    <3>2. QED
      BY <1>1, <1>2, <3>1 DEF InOrder
  <2>3. QED
    BY <2>1, <2>2 DEF InOrder
<1>3. (NoEnd(w) => NoEnd(v)) /\ (NoneOf(w, r) => NoneOf(v, r))
  BY <1>1 DEF NoEnd, NoneOf
<1>4. (OnlyRest(w, r) => OnlyRest(v, r)) /\ (Unfinished(w, r) => Unfinished(v, r))
  BY <1>1 DEF OnlyRest, Unfinished
<1>5. QED
  BY <1>2, <1>3, <1>4

\* The end of a connection does not disturb what is on it.
LEMMA EndKeeps ==
  ASSUME NEW w \in Seq(Items), NEW end \in Closing, NEW v, v = Append(w, end),
         NEW r \in Nat
  PROVE  /\ InOrder(w, r) => InOrder(v, r)
         /\ OnlyEnds(w) => OnlyEnds(v)
         /\ OnlyLeft(w) => OnlyLeft(v)
         /\ NoneOf(w, r) => NoneOf(v, r)
         /\ OnlyRest(w, r) => OnlyRest(v, r)
         /\ \A i \in DOMAIN v : v[i] \in Closing \/ (i \in DOMAIN w /\ v[i] = w[i])
<1>1. end \in Items /\ end.req = 0 /\ end.framing = "close"
  BY HttpClientAssumption DEF Closing, Eof, Reset, Item, Items, Parts
<1>2. Len(w) \in Nat /\ DOMAIN w = 1..Len(w)
  BY LenProperties
<1>3. PICK n \in Nat : n = Len(w)
  BY <1>2
<1>4. /\ v \in Seq(Items) /\ Len(v) = n + 1 /\ (\A i \in 1..n : v[i] = w[i]) /\ v[n + 1] = end
  BY <1>1, <1>3, AppendProperties
<1>5. DOMAIN v = 1..(n + 1) /\ DOMAIN w = 1..n
  BY <1>2, <1>3, <1>4, LenProperties
<1>6. \A i \in DOMAIN v : \/ i \in DOMAIN w /\ v[i] = w[i]
                          \/ i = n + 1 /\ v[i] = end
  BY <1>3, <1>4, <1>5
<1>7. ASSUME InOrder(w, r) PROVE InOrder(v, r)
  <2>1. Belongs(end, r)
    BY <1>1 DEF Belongs
  <2>2. \A i \in DOMAIN v : Belongs(v[i], r)
    BY <1>6, <1>7, <2>1 DEF InOrder
  <2>3. ASSUME NEW i \in DOMAIN v, NEW j \in DOMAIN v, i < j PROVE Follows(v[i], v[j], r)
    <3>1. CASE v[j] = end
      BY <3>1 DEF Follows
    <3>2. CASE j \in DOMAIN w /\ v[j] = w[j]
      <4>1. i \in DOMAIN w /\ v[i] = w[i]
        BY <1>4, <1>5, <2>3, <3>2
      <4>2. QED
        BY <1>7, <2>3, <3>2, <4>1 DEF InOrder
    <3>3. QED
      BY <1>6, <3>1, <3>2
  <2>4. QED
    BY <2>2, <2>3 DEF InOrder
<1>8. (OnlyEnds(w) => OnlyEnds(v)) /\ (OnlyLeft(w) => OnlyLeft(v))
  BY <1>6 DEF OnlyEnds, OnlyLeft
<1>9. (NoneOf(w, r) => NoneOf(v, r)) /\ (OnlyRest(w, r) => OnlyRest(v, r))
  BY <1>6 DEF NoneOf, OnlyRest
<1>10. QED
  BY <1>6, <1>7, <1>8, <1>9

\* v is w with the beginning of an answer to request r.
Serves(w, r, f, v) ==
  /\ w \in Seq(Items) /\ r \in 1..MaxRequests /\ f \in AllFramings
  /\ \E n \in 0..Len(Answer(r, f)) : v = w \o SubSeq(Answer(r, f), 1, n)

\* The beginning of the answer to the request that was asked.
LEMMA AnswerKeeps ==
  ASSUME NEW w, NEW r, NEW f, NEW v, Serves(w, r, f, v), InOrder(w, r), NoEnd(w),
         NoneOf(w, r)
  PROVE  InOrder(v, r) /\ NoEnd(v) /\ (f = "chunked" => Unfinished(v, r))
<1>a. w \in Seq(Items) /\ f \in AllFramings
  BY DEF Serves
<1>0. MaxRequests \in Nat /\ r \in 0..MaxRequests /\ r \in Nat
  BY HttpClientAssumption DEF Serves
<1>b. PICK n \in 0..Len(Answer(r, f)) : v = w \o SubSeq(Answer(r, f), 1, n)
  BY DEF Serves
<1> DEFINE a == Answer(r, f)
<1>1. /\ a \in Seq(Items) /\ Len(a) \in {2, 3}
      /\ \A i \in 1..Len(a) :
           /\ a[i].req = r /\ a[i].framing = f /\ a[i] \notin Closing
           /\ i > 2 => a[i].part \notin {"start", "header"}
           /\ i = 1 => a[i].part = "start"
           /\ a[i].part \in {"body", "last"} => i = Len(a)
           /\ f = "unframed" => a[i].part \in {"start", "header", "body"}
           /\ f = "chunked" => a[i].part \in {"start", "header"}
  <2>1. a \in Seq(Items) /\ Len(a) \in {2, 3}
    BY <1>a, <1>0, AnswerShape
  <2>2. ASSUME NEW i \in 1..Len(a)
        PROVE  /\ a[i].req = r /\ a[i].framing = f /\ a[i] \notin Closing
               /\ i > 2 => a[i].part \notin {"start", "header"}
               /\ i = 1 => a[i].part = "start"
               /\ a[i].part \in {"body", "last"} => i = Len(a)
               /\ f = "unframed" => a[i].part \in {"start", "header", "body"}
               /\ f = "chunked" => a[i].part \in {"start", "header"}
    BY <1>a, <1>0, AnswerShape
  <2>3. QED
    BY <2>1, <2>2
<1> HIDE DEF a
<1>2. n \in 0..Len(a) /\ v = w \o SubSeq(a, 1, n)
  BY <1>b DEF a
<1>3. n \in Nat /\ Len(a) \in Nat /\ n <= Len(a)
  BY <1>1, <1>2
<1> DEFINE b == SubSeq(a, 1, n)
<1>4. b \in Seq(Items) /\ Len(b) = n /\ \A i \in 1..n : b[i] = a[i]
  <2>1. \A i \in 1..n : a[i] \in Items
    BY <1>1, <1>3, ElementOfSeq
  <2>2. n \in Int /\ 1 \in Int
    BY <1>3
  <2>3. /\ b \in Seq(Items) /\ Len(b) = (IF 1 <= n THEN n - 1 + 1 ELSE 0)
        /\ \A i \in 1..(n - 1 + 1) : b[i] = a[1 + i - 1]
    BY <2>1, <2>2, SubSeqProperties
  <2> HIDE DEF b
  <2>4. Len(b) = n
    BY <1>3, <2>3
  <2>5. ASSUME NEW i \in 1..n PROVE b[i] = a[i]
    <3>1. i \in 1..(n - 1 + 1) /\ 1 + i - 1 = i
      BY <1>3
    <3>2. QED
      BY <2>3, <3>1
  <2>6. QED
    BY <2>3, <2>4, <2>5
<1>5. v = w \o b
  BY <1>2
<1> HIDE DEF b
<1>6. PICK m \in Nat : m = Len(w)
  BY <1>a, LenProperties
<1>7. /\ v \in Seq(Items) /\ Len(v) = m + n
      /\ \A i \in 1..(m + n) : v[i] = IF i <= m THEN w[i] ELSE b[i - m]
  <2>1. /\ v \in Seq(Items) /\ Len(v) = Len(w) + Len(b)
        /\ \A i \in 1..(Len(w) + Len(b)) : v[i] = IF i <= Len(w) THEN w[i] ELSE b[i - Len(w)]
    <3>1. w \in Seq(Items) /\ b \in Seq(Items)
      BY <1>a, <1>4
    <3>2. /\ w \o b \in Seq(Items) /\ Len(w \o b) = Len(w) + Len(b)
          /\ \A i \in 1..(Len(w) + Len(b)) :
               (w \o b)[i] = IF i <= Len(w) THEN w[i] ELSE b[i - Len(w)]
      BY <3>1, ConcatProperties, Zenon
    <3>3. QED
      BY <1>5, <3>2, Zenon
  <2>2. Len(w) = m /\ Len(b) = n
    BY <1>4, <1>6
  <2>3. QED
    BY <2>1, <2>2, Zenon
<1>8. DOMAIN v = 1..(m + n) /\ DOMAIN w = 1..m
  BY <1>a, <1>6, <1>7, LenProperties
<1>9. ASSUME NEW i \in DOMAIN v
      PROVE  \/ i \in DOMAIN w /\ i <= m /\ v[i] = w[i]
             \/ i > m /\ i - m \in 1..n /\ i - m \in 1..Len(a) /\ v[i] = a[i - m]
  <2>1. CASE i <= m
    BY <1>3, <1>6, <1>7, <1>8, <2>1
  <2>2. CASE i > m
    <3>1. i - m \in 1..n /\ i - m \in 1..Len(a) /\ ~(i <= m)
      BY <1>3, <1>6, <1>8, <2>2
    <3>2. v[i] = a[i - m]
      BY <1>4, <1>7, <1>8, <3>1
    <3>3. QED
      BY <2>2, <3>1, <3>2
  <2>3. QED
    BY <1>3, <1>6, <1>8, <2>1, <2>2
<1>10. ASSUME NEW i \in DOMAIN v PROVE Belongs(v[i], r) /\ v[i] \notin Closing
  <2>1. CASE i \in DOMAIN w /\ v[i] = w[i]
    BY <2>1 DEF InOrder, NoEnd
  <2>2. CASE i - m \in 1..Len(a) /\ v[i] = a[i - m]
    BY <1>0, <1>1, <2>2 DEF Belongs
  <2>3. QED
    BY <1>9, <2>1, <2>2
<1>11. ASSUME NEW i \in DOMAIN v, NEW j \in DOMAIN v, i < j PROVE Follows(v[i], v[j], r)
  <2>0. i \in Nat /\ j \in Nat
    BY <1>8
  <2>1. CASE j \in DOMAIN w /\ j <= m /\ v[j] = w[j]
    <3>1. i \in DOMAIN w /\ v[i] = w[i]
      BY <1>6, <1>9, <1>11, <2>0, <2>1
    <3>2. QED
      BY <1>11, <2>1, <3>1 DEF InOrder
  <2>2. CASE j > m /\ j - m \in 1..n /\ j - m \in 1..Len(a) /\ v[j] = a[j - m]
    <3>1. CASE i \in DOMAIN w /\ v[i] = w[i]
      BY <3>1 DEF NoEnd, NoneOf, Follows
    <3>2. CASE i > m /\ i - m \in 1..n /\ i - m \in 1..Len(a) /\ v[i] = a[i - m]
      <4>1. PICK x \in 1..Len(a), y \in 1..Len(a) : x = i - m /\ y = j - m
        BY <2>2, <3>2
      <4>2. x < y /\ x # Len(a)
        BY <1>3, <1>6, <1>11, <2>0, <4>1
      <4>3. /\ a[x].req = r /\ a[y].req = r /\ a[x].framing = a[y].framing
            /\ a[x] \notin Closing /\ a[x].part \notin {"body", "last"}
        BY <1>1, <4>2
      <4>4. a[x].part = "header" => a[y].part \notin {"start", "header"}
        <5>1. CASE y > 2
          BY <1>1, <5>1
        <5>2. CASE y <= 2
          <6>1. x = 1
            BY <1>3, <4>2, <5>2
          <6>2. QED
            BY <1>1, <6>1
        <5>3. QED
          BY <1>3, <5>1, <5>2
      <4>5. QED
        BY <2>2, <3>2, <4>1, <4>3, <4>4 DEF Follows
    <3>3. QED
      BY <1>9, <3>1, <3>2
  <2>3. QED
    BY <1>9, <2>1, <2>2
<1>12. ASSUME f = "chunked", NEW i \in DOMAIN v, v[i].req = r
       PROVE  v[i].framing = "chunked" /\ v[i].part \notin {"body", "last"}
  <2>1. ~(i \in DOMAIN w /\ v[i] = w[i])
    BY <1>12 DEF NoEnd, NoneOf
  <2>2. i - m \in 1..Len(a) /\ v[i] = a[i - m]
    BY <1>9, <2>1
  <2>3. QED
    BY <1>1, <1>12, <2>2
<1>13. QED
  BY <1>10, <1>11, <1>12 DEF InOrder, NoEnd, Unfinished

\* v is w with one more piece of the answer to request r.
Piece(w, r, part, v) ==
  /\ w \in Seq(Items) /\ r \in 1..MaxRequests /\ part \in {"line", "data", "last"}
  /\ v = Append(w, Item(r, part, "chunked"))

\* One more piece of an answer in chunks that is not complete keeps it in order.
LEMMA PieceKeeps ==
  ASSUME NEW w, NEW r, NEW part, NEW v, Piece(w, r, part, v),
         InOrder(w, r), NoEnd(w), Unfinished(w, r)
  PROVE  /\ v \in Seq(Items) /\ InOrder(v, r) /\ NoEnd(v)
         /\ OnlyRest(w, r) => OnlyRest(v, r)
         /\ part # "last" => Unfinished(v, r)
         /\ \A i \in DOMAIN v : (i \in DOMAIN w /\ v[i] = w[i]) \/ v[i].framing = "chunked"
<1>0. /\ w \in Seq(Items) /\ r \in 1..MaxRequests /\ part \in {"line", "data", "last"}
      /\ v = Append(w, Item(r, part, "chunked"))
      /\ r \in Nat /\ MaxRequests \in Nat
  BY HttpClientAssumption DEF Piece
<1>1. PICK x : x = Item(r, part, "chunked")
  OBVIOUS
<1>2. /\ x \in Items /\ x.req = r /\ x.part = part /\ x.framing = "chunked"
      /\ x \notin Closing
  BY <1>0, <1>1 DEF Item, Items, Parts, AllFramings, Closing, Eof, Reset
<1>3. PICK n \in Nat : n = Len(w)
  BY <1>0, LenProperties
<1>4. /\ v \in Seq(Items) /\ Len(v) = n + 1 /\ (\A i \in 1..n : v[i] = w[i]) /\ v[n + 1] = x
  BY <1>0, <1>1, <1>2, <1>3, AppendProperties
<1>5. DOMAIN v = 1..(n + 1) /\ DOMAIN w = 1..n
  BY <1>0, <1>3, <1>4, LenProperties
<1>6. \A i \in DOMAIN v : \/ i \in DOMAIN w /\ v[i] = w[i]
                          \/ i = n + 1 /\ v[i] = x
  BY <1>3, <1>4, <1>5
<1>7. NoEnd(v) /\ (OnlyRest(w, r) => OnlyRest(v, r))
  BY <1>0, <1>2, <1>6 DEF NoEnd, OnlyRest
<1>8. part # "last" => Unfinished(v, r)
  BY <1>0, <1>2, <1>6 DEF Unfinished
<1>9. \A i \in DOMAIN v : Belongs(v[i], r)
  <2>1. Belongs(x, r)
    BY <1>0, <1>2 DEF Belongs
  <2>2. QED
    BY <1>6, <2>1 DEF InOrder
<1>10. ASSUME NEW i \in DOMAIN v, NEW j \in DOMAIN v, i < j PROVE Follows(v[i], v[j], r)
  <2>1. i \in DOMAIN w /\ v[i] = w[i]
    BY <1>3, <1>4, <1>5, <1>10
  <2>2. CASE v[j] = x
    <3>1. w[i] \notin Closing
      BY <2>1 DEF NoEnd
    <3>2. w[i].req = r => w[i].framing = "chunked" /\ w[i].part \notin {"body", "last"}
      BY <2>1 DEF Unfinished
    <3>3. Follows(w[i], x, r)
      BY <1>0, <1>2, <3>1, <3>2 DEF Follows
    <3>4. QED
      BY <2>1, <2>2, <3>3
  <2>3. CASE j \in DOMAIN w /\ v[j] = w[j]
    BY <1>10, <2>1, <2>3 DEF InOrder
  <2>4. QED
    BY <1>6, <2>2, <2>3
<1>11. InOrder(v, r)
  BY <1>9, <1>10 DEF InOrder
<1>12. QED
  BY <1>2, <1>4, <1>6, <1>7, <1>8, <1>11

\* One more chunk, or the beginning of one, keeps the answer in order.
LEMMA ChunkKeeps ==
  ASSUME NEW w, NEW r, NEW v, Chunks(w, r, v), InOrder(w, r), NoEnd(w), Unfinished(w, r)
  PROVE  /\ InOrder(v, r) /\ NoEnd(v) /\ (OnlyRest(w, r) => OnlyRest(v, r))
         /\ v = Append(Begun(w, r), Item(r, "data", "chunked")) => Unfinished(v, r)
         /\ \A i \in DOMAIN v : (i \in DOMAIN w /\ v[i] = w[i]) \/ v[i].framing = "chunked"
<1>1. w \in Seq(Items) /\ r \in 1..MaxRequests
  BY DEF Chunks
<1>2. PICK u : u = Append(w, Item(r, "line", "chunked")) /\ u = Begun(w, r)
  BY DEF Begun
<1>3. /\ u \in Seq(Items) /\ InOrder(u, r) /\ NoEnd(u)
      /\ OnlyRest(w, r) => OnlyRest(u, r)
      /\ Unfinished(u, r)
      /\ \A i \in DOMAIN u : (i \in DOMAIN w /\ u[i] = w[i]) \/ u[i].framing = "chunked"
  <2>1. Piece(w, r, "line", u)
    BY <1>1, <1>2 DEF Piece
  <2>2. QED
    BY <2>1, PieceKeeps
<1>4. ASSUME NEW part \in {"data", "last"}, v = Append(u, Item(r, part, "chunked"))
      PROVE  /\ InOrder(v, r) /\ NoEnd(v) /\ (OnlyRest(w, r) => OnlyRest(v, r))
             /\ part # "last" => Unfinished(v, r)
             /\ \A i \in DOMAIN v : (i \in DOMAIN w /\ v[i] = w[i]) \/ v[i].framing = "chunked"
  <2>1. /\ InOrder(v, r) /\ NoEnd(v) /\ (OnlyRest(u, r) => OnlyRest(v, r))
        /\ part # "last" => Unfinished(v, r)
        /\ \A i \in DOMAIN v : (i \in DOMAIN u /\ v[i] = u[i]) \/ v[i].framing = "chunked"
    <3>1. Piece(u, r, part, v)
      BY <1>1, <1>3, <1>4 DEF Piece
    <3>2. QED
      BY <1>3, <3>1, PieceKeeps
  <2>2. QED
    BY <1>3, <2>1
<1>5. Unfinished(v, r) \/ v # Append(u, Item(r, "data", "chunked"))
  BY <1>4
<1>6. CASE v = u
  BY <1>2, <1>3, <1>5, <1>6
<1>7. CASE \E part \in {"data", "last"} : v = Append(u, Item(r, part, "chunked"))
  <2>1. PICK part \in {"data", "last"} : v = Append(u, Item(r, part, "chunked"))
    BY <1>7
  <2>2. QED
    BY <1>2, <1>4, <1>5, <2>1
<1>8. QED
  BY <1>2, <1>6, <1>7 DEF Chunks

\* A header was read, perhaps with the body behind it: it belongs to the request,
\* and so does all that is left.
LEMMA HeaderSplit ==
  ASSUME NEW w, NEW k, NEW v, Suffix(w, k, v), NEW r, InOrder(w, r), NEW n, n \in DOMAIN w,
         w[n].part = "header", w[n] \notin Closing, k = n \/ (k = n + 1 /\ w[k].part = "body")
  PROVE  /\ w[n].req = r /\ OnlyRest(v, r)
         /\ \A i \in DOMAIN v :
              v[i] \in Closing \/ (v[i].framing = w[k].framing /\ w[k].part # "body")
<1>1. DOMAIN w = 1..Len(w) /\ Len(w) \in Nat /\ n \in Nat /\ k \in 0..Len(w)
  <2>1. w \in Seq(Items) /\ k \in 0..Len(w)
    BY DEF Suffix
  <2>2. QED
    BY <2>1, LenProperties
<1>2. w[n].req = r
  <2>1. Belongs(w[n], r)
    BY <1>1 DEF InOrder
  <2>2. QED
    BY <2>1 DEF Belongs, LeftBody
<1>3. ASSUME NEW i \in DOMAIN v
      PROVE  \/ v[i] \in Closing
             \/ /\ v[i].req = r /\ v[i].part \notin {"start", "header"}
                /\ v[i].framing = w[k].framing /\ w[k].part # "body"
  <2>1. i + k \in DOMAIN w /\ v[i] = w[i + k] /\ i \in Nat /\ i > 0
    BY SuffixItems
  <2>2. n \in DOMAIN w /\ n < i + k
    BY <1>1, <2>1
  <2>3. Follows(w[n], v[i], r)
    BY <2>1, <2>2 DEF InOrder
  <2>4. \/ v[i] \in Closing
        \/ v[i].req = r /\ v[i].part \notin {"start", "header"} /\ v[i].framing = w[n].framing
    BY <1>2, <2>3 DEF Follows
  <2>5. CASE k = n
    BY <2>4, <2>5
  <2>6. CASE k = n + 1 /\ w[k].part = "body"
    <3>1. k \in DOMAIN w /\ n < k /\ k < i + k
      BY <1>1, <2>1, <2>6
    <3>2. Follows(w[n], w[k], r) /\ Follows(w[k], v[i], r)
      BY <2>1, <2>2, <3>1 DEF InOrder
    <3>3. w[k] \notin Closing
      BY <2>6 DEF Closing, Eof, Reset, Item
    <3>4. w[k].req = r
      BY <1>2, <3>2, <3>3 DEF Follows
    <3>5. v[i] \in Closing
      BY <2>6, <3>2, <3>4 DEF Follows
    <3>6. QED
      BY <3>5
  <2>7. QED
    BY <2>5, <2>6
<1>4. QED
  BY <1>2, <1>3 DEF OnlyRest

\* Behind the end of an answer, and behind the end of the connection, only ends are left.
LEMMA LastSplit ==
  ASSUME NEW w, NEW k, NEW v, Suffix(w, k, v), NEW r, InOrder(w, r), NEW n, n \in DOMAIN w,
         \/ w[n] \in Closing /\ k = n - 1
         \/ w[n] \notin Closing /\ w[n].req = r /\ w[n].part \in {"body", "last"} /\ k = n
  PROVE  OnlyEnds(v)
<1>1. DOMAIN w = 1..Len(w) /\ Len(w) \in Nat /\ n \in Nat /\ k \in 0..Len(w)
  <2>1. w \in Seq(Items) /\ k \in 0..Len(w)
    BY DEF Suffix
  <2>2. QED
    BY <2>1, LenProperties
<1>2. ASSUME NEW i \in DOMAIN v PROVE v[i] \in Closing
  <2>1. i + k \in DOMAIN w /\ v[i] = w[i + k] /\ i \in Nat /\ i > 0
    BY SuffixItems
  <2>2. \A j \in DOMAIN w : n < j => Follows(w[n], w[j], r)
    BY <1>1 DEF InOrder
  <2>3. CASE w[n] \in Closing /\ k = n - 1
    <3>1. i + k = n \/ n < i + k
      BY <1>1, <2>1, <2>3
    <3>2. QED
      BY <2>1, <2>2, <2>3, <3>1 DEF Follows
  <2>4. CASE w[n] \notin Closing /\ w[n].req = r /\ w[n].part \in {"body", "last"} /\ k = n
    <3>1. n < i + k
      BY <1>1, <2>1, <2>4
    <3>2. QED
      BY <2>1, <2>2, <2>4, <3>1 DEF Follows
  <2>5. QED
    BY <2>3, <2>4
<1>3. QED
  BY <1>2 DEF OnlyEnds

\* What a request left on a kept-alive connection is not of the next one.
LEMMA NextRequest ==
  ASSUME NEW w \in Seq(Items), NEW r \in Nat, InOrder(w, r), OnlyLeft(w)
  PROVE  InOrder(w, r + 1) /\ NoneOf(w, r + 1)
<1>1. DOMAIN w = 1..Len(w) /\ \A i \in 1..Len(w) : w[i] \in Items
  BY LenProperties, ElementOfSeq
<1>2. \A i \in DOMAIN w : w[i].req \in Nat /\ w[i].req <= r
  BY <1>1, HttpClientAssumption DEF Items, InOrder, Belongs
<1>3. \A i \in DOMAIN w : w[i].req <= r + 1 /\ w[i].req # r + 1
  BY <1>2
<1>4. NoneOf(w, r + 1)
  BY <1>3 DEF NoneOf
<1>5. \A i \in DOMAIN w : Belongs(w[i], r + 1)
  <2> SUFFICES ASSUME NEW i \in DOMAIN w PROVE Belongs(w[i], r + 1)
    OBVIOUS
  <2>1. Belongs(w[i], r) /\ (w[i] \in Closing \/ LeftBody(w[i]))
    BY DEF InOrder, OnlyLeft
  <2>2. QED
    BY <1>3, <2>1 DEF Belongs
<1>6. ASSUME NEW i \in DOMAIN w, NEW j \in DOMAIN w, i < j PROVE Follows(w[i], w[j], r + 1)
  <2>1. Follows(w[i], w[j], r)
    BY <1>6 DEF InOrder
  <2>2. QED
    BY <1>3, <2>1 DEF Follows
<1>7. QED
  BY <1>4, <1>5, <1>6 DEF InOrder

\* Nothing is wrong with an empty wire.
LEMMA EmptyWire ==
  ASSUME NEW r
  PROVE  /\ InOrder(<<>>, r) /\ NoEnd(<<>>) /\ OnlyEnds(<<>>) /\ OnlyLeft(<<>>)
         /\ NoneOf(<<>>, r) /\ OnlyRest(<<>>, r)
<1>1. \A i \in DOMAIN <<>> : FALSE
  OBVIOUS
<1>2. QED
  BY <1>1 DEF InOrder, NoEnd, OnlyEnds, OnlyLeft, NoneOf, OnlyRest

\* Where only the end of a connection is left, so is only what may be left.
LEMMA EndsAreLeft == ASSUME NEW w, OnlyEnds(w) PROVE OnlyLeft(w)
BY DEF OnlyEnds, OnlyLeft

\* What is under way is one of the operations.
LEMMA CurrentOps ==
  ASSUME Types, NEW s \in Current
  PROVE  \E o \in Ops : \E e : s = <<o, e>>
<1>1. handlers \in Seq(Entries) /\ op \in Ops \cup {"none"}
  BY DEF Types, TypeOK
<1>2. \A i \in DOMAIN handlers : handlers[i].op \in Ops \cup {"timer"}
  BY DEF Types, TypeOK
<1>3. QED
  BY <1>1, <1>2 DEF Current, Stages, Pending

\* Chunks are sent neither before the request is nor behind the last one.
LEMMA NotSending ==
  ASSUME ChunkInv, Current = {} \/ \E s \in Current : ~Sends(s)
  PROVE  conn[connection].sending = 0
BY DEF ChunkInv

\* A step that moves the request on and leaves the wire alone.
LEMMA WireMoves ==
  ASSUME WireInv, connection' = connection, Wire' = Wire,
         conn'[connection].peer = conn[connection].peer,
         conn'[connection].inbox = conn[connection].inbox,
         conn'[connection].is_open = conn[connection].is_open,
         conn'[connection].sending = conn[connection].sending,
         req' = req, streambuf' = streambuf,
         NEW s, NEW t, Current = {s}, Current' = {t},
         Unwritten(t) => Unwritten(s), Awaiting(t) => Awaiting(s), Reading(t) => Reading(s),
         t # <<"header", "ok">>, ~Completed(t)
  PROVE  WireInv'
<1>1. StageFits(s) /\ s \in Current
  BY DEF WireInv
<1>2. Answered' = Answered
  BY DEF Answered
<1>3. StageFits(t)'
  BY <1>1, <1>2 DEF StageFits
<1>4. AnswerIsOwn'
  BY DEF WireInv, AnswerIsOwn
<1>5. Sends(s) => Sends(t)'
  BY DEF Sends
<1>6. ChunkInv'
  BY <1>1, <1>5 DEF WireInv, ChunkInv
<1>7. QED
  BY <1>3, <1>4, <1>6 DEF WireInv

\* A step after which the request has a new connection, or none.
LEMMA WireFresh ==
  ASSUME Wire' = <<>>, conn'[connection'].inbox = 0, conn'[connection'].peer = FALSE,
         conn'[connection'].sending = 0,
         AnswerIsOwn', \A t \in Current' : t # <<"header", "ok">>
  PROVE  WireInv'
<1>1. Answered'
  BY DEF Answered
<1>2. /\ InOrder(Wire, req)' /\ NoEnd(Wire)' /\ OnlyEnds(Wire)' /\ OnlyLeft(Wire)'
      /\ NoneOf(Wire, req)' /\ OnlyRest(Wire, req)'
  BY EmptyWire
<1>3. \A t \in Current' : StageFits(t)'
  BY <1>1, <1>2 DEF StageFits
<1>4. ChunkInv'
  BY DEF ChunkInv
<1>5. QED
  BY <1>1, <1>2, <1>3, <1>4 DEF WireInv

\* A step that calls the callback: if it keeps the connection, nothing is left on
\* it that could be taken for the next answer.
LEMMA WireEnds ==
  ASSUME WireInv, connections = {connection}, connection \in Conn, connection' = connection,
         NEW cs \in [Conn -> Connections],
         cs[connection].wire = Wire, cs[connection].inbox = conn[connection].inbox,
         cs[connection].peer = conn[connection].peer,
         cs[connection].is_open = conn[connection].is_open,
         cs[connection].sending = conn[connection].sending,
         NEW ec, callback(cs, ec),
         ec = "ok" => Answered /\ OnlyLeft(Wire) /\ conn[connection].sending = 0,
         req' = req, Current' = {}
  PROVE  WireInv'
<1>1. /\ ec = "ok" => /\ conn'[connection].is_open = conn[connection].is_open
                      /\ conn'[connection].wire = Wire
                      /\ conn'[connection].inbox = conn[connection].inbox
                      /\ conn'[connection].peer = conn[connection].peer
                      /\ conn'[connection].sending = conn[connection].sending
      /\ ec # "ok" => conn'[connection] = NewConnection
  BY CallbackPool
<1>2. streambuf' = <<>>
  BY DEF callback
<1>3. AnswerIsOwn'
  BY <1>2 DEF AnswerIsOwn
<1>4. CASE ec = "ok"
  <2>1. Wire' = Wire
    BY <1>1, <1>4 DEF Wire
  <2>2. Answered'
    BY <1>1, <1>4 DEF Answered
  <2>3. ChunkInv'
    BY <1>1, <1>4 DEF ChunkInv
  <2>4. QED
    BY <1>1, <1>3, <1>4, <2>1, <2>2, <2>3 DEF WireInv
<1>5. CASE ec # "ok"
  <2>1. /\ Wire' = <<>> /\ conn'[connection'].inbox = 0 /\ conn'[connection'].peer = FALSE
        /\ conn'[connection'].sending = 0
    BY <1>1, <1>5 DEF Wire, NewConnection
  <2>2. QED
    BY <1>3, <2>1, WireFresh
<1>6. QED
  BY <1>4, <1>5

\* Init has no wire.
LEMMA WireInit == Init => WireInv
<1> SUFFICES ASSUME Init PROVE WireInv
  OBVIOUS
<1>1. conn[connection] = NewConnection /\ streambuf = <<>>
  BY DEF Init
<1>2. Current = {}
  <2>1. handlers = <<>> /\ op = "none"
    BY DEF Init
  <2>2. Pending(handlers) = {}
    BY <2>1 DEF Pending
  <2>3. QED
    BY <2>1, <2>2 DEF Current, Stages
<1>3. /\ Wire = <<>> /\ conn[connection].inbox = 0 /\ conn[connection].peer = FALSE
      /\ conn[connection].sending = 0
  BY <1>1 DEF Wire, NewConnection
<1>4. InOrder(Wire, req) /\ OnlyLeft(Wire)
  BY <1>3, EmptyWire
<1>5. Answered /\ AnswerIsOwn /\ ChunkInv
  BY <1>1, <1>3 DEF Answered, AnswerIsOwn, ChunkInv
<1>6. QED
  BY <1>2, <1>3, <1>4, <1>5 DEF WireInv

\* What streambuf holds after k items of the wire were added to it.
LEMMA TakenItems ==
  ASSUME NEW q, NEW w, NEW k, NEW u, Taken(q, w, k, u)
  PROVE  /\ \A i \in DOMAIN u : (i \in DOMAIN q /\ u[i] = q[i]) \/ \E j \in 1..k : u[i] = w[j]
         /\ k > 0 => u # <<>> /\ u[Len(u)] = w[k]
<1>0. /\ q \in Seq(Items) /\ w \in Seq(Items) /\ k \in 0..Len(w)
      /\ u = q \o SubSeq(w, 1, k)
  BY DEF Taken
<1>1. Len(w) \in Nat /\ DOMAIN w = 1..Len(w) /\ \A i \in 1..Len(w) : w[i] \in Items
  BY <1>0, LenProperties, ElementOfSeq
<1>2. k \in Nat /\ k <= Len(w)
  BY <1>0, <1>1
<1> DEFINE b == SubSeq(w, 1, k)
<1>3. b \in Seq(Items) /\ Len(b) = k /\ \A i \in 1..k : b[i] = w[i]
  <2>1. \A i \in 1..k : w[i] \in Items
    BY <1>1, <1>2
  <2>2. k \in Int /\ 1 \in Int
    BY <1>2
  <2>3. /\ b \in Seq(Items) /\ Len(b) = (IF 1 <= k THEN k - 1 + 1 ELSE 0)
        /\ \A i \in 1..(k - 1 + 1) : b[i] = w[1 + i - 1]
    BY <2>1, <2>2, SubSeqProperties
  <2> HIDE DEF b
  <2>4. Len(b) = k
    BY <1>2, <2>3
  <2>5. ASSUME NEW i \in 1..k PROVE b[i] = w[i]
    <3>1. i \in 1..(k - 1 + 1) /\ 1 + i - 1 = i
      BY <1>2
    <3>2. QED
      BY <2>3, <3>1
  <2>6. QED
    BY <2>3, <2>4, <2>5
<1>4. u = q \o b
  BY <1>0
<1> HIDE DEF b
<1>5. PICK m \in Nat : m = Len(q)
  BY <1>0, LenProperties
<1>6. /\ u \in Seq(Items) /\ Len(u) = m + k
      /\ \A i \in 1..(m + k) : u[i] = IF i <= m THEN q[i] ELSE b[i - m]
  <2>1. q \in Seq(Items) /\ b \in Seq(Items)
    BY <1>0, <1>3
  <2>2. /\ q \o b \in Seq(Items) /\ Len(q \o b) = Len(q) + Len(b)
        /\ \A i \in 1..(Len(q) + Len(b)) :
             (q \o b)[i] = IF i <= Len(q) THEN q[i] ELSE b[i - Len(q)]
    BY <2>1, ConcatProperties, Zenon
  <2>3. Len(q) = m /\ Len(b) = k
    BY <1>3, <1>5
  <2>4. QED
    BY <1>4, <2>2, <2>3, Zenon
<1>7. DOMAIN u = 1..(m + k) /\ DOMAIN q = 1..m
  BY <1>0, <1>5, <1>6, LenProperties
<1>8. ASSUME NEW i \in DOMAIN u
      PROVE  (i \in DOMAIN q /\ u[i] = q[i]) \/ \E j \in 1..k : u[i] = w[j]
  <2>1. CASE i <= m
    BY <1>2, <1>5, <1>6, <1>7, <2>1
  <2>2. CASE ~(i <= m)
    <3>1. i - m \in 1..k
      BY <1>2, <1>5, <1>7, <2>2
    <3>2. u[i] = w[i - m]
      BY <1>3, <1>6, <1>7, <2>2, <3>1
    <3>3. QED
      BY <3>1, <3>2
  <2>3. QED
    BY <2>1, <2>2
<1>9. ASSUME k > 0 PROVE u # <<>> /\ u[Len(u)] = w[k]
  <2>1. m + k \in 1..(m + k) /\ ~(m + k <= m) /\ (m + k) - m = k /\ k \in 1..k
    BY <1>2, <1>5, <1>9
  <2>2. u[m + k] = w[k]
    BY <1>3, <1>6, <2>1
  <2>3. u # <<>>
    <3>1. Len(u) # 0
      BY <1>2, <1>5, <1>6, <1>9
    <3>2. QED
      BY <3>1
  <2>4. QED
    BY <1>6, <2>2, <2>3
<1>10. QED
  BY <1>8, <1>9

\* A read keeps the wire in order, and what it takes as a header is the request's.
LEMMA WireReadable ==
  ASSUME Types, RunInv, WireInv, Readable
  PROVE  WireInv'
<1>a. conn \in [Conn -> Connections] /\ connection \in Conn /\ streambuf \in Seq(Items)
  BY DEF Types, TypeOK, Connections
<1>1. Wire \in Seq(Items) /\ op \in Reads /\ op \in Ops
  BY ReadableStep DEF Ops
<1>2. PICK n \in 1..Len(Wire), k \in 0..Len(Wire), ec \in Codes :
        /\ EndsRead(Wire[n]) /\ \A i \in 1..(n - 1) : ~EndsRead(Wire[i])
        /\ IF Wire[n] \in Closing THEN k = n - 1
           ELSE k = n \/ (k = n + 1 /\ op = "header" /\ Wire[k].part = "body")
        /\ ec = IF Wire[n].part \in {"eof", "reset", "last", "bad_line"}
                THEN Wire[n].part ELSE "ok"
        /\ conn' = [conn EXCEPT ![connection].wire = SubSeq(Wire, k + 1, Len(Wire))]
        /\ streambuf' = IF op = "header" THEN streambuf \o SubSeq(Wire, 1, k) ELSE streambuf
        /\ Complete(ec)
  BY ReadableStep
<1>3. connection' = connection /\ req' = req
  BY DEF Readable
<1>4. PICK w \in Seq(Items) : w = Wire
  BY <1>1
<1>5. PICK v : v = SubSeq(w, k + 1, Len(w))
  OBVIOUS
<1>6. n \in 1..Len(w) /\ k \in 0..Len(w) /\ Len(w) \in Nat /\ DOMAIN w = 1..Len(w)
  BY <1>4, LenProperties
<1>7. Suffix(w, k, v) /\ v \in Seq(Items)
  <2>1. Suffix(w, k, v)
    BY <1>5, <1>6 DEF Suffix
  <2>2. QED
    BY <2>1, SuffixItems
<1>8. /\ conn'[connection].wire = v /\ conn'[connection].is_open = conn[connection].is_open
      /\ conn'[connection].inbox = conn[connection].inbox
      /\ conn'[connection].peer = conn[connection].peer
      /\ conn'[connection].sending = conn[connection].sending
  <2>1. conn' = [conn EXCEPT ![connection].wire = v]
    BY <1>2, <1>4, <1>5
  <2>2. QED
    BY <1>a, <1>7, <2>1, OneField DEF Others
<1>9. Wire' = v
  BY <1>3, <1>8 DEF Wire
<1>10. PICK o \in Reads : o = op /\ Current = {<<o, "going">>} /\ Current' = {<<o, ec>>}
  BY <1>1, <1>2, CompleteStage
<1>11. /\ InOrder(w, req) /\ (conn[connection].peer => NoEnd(w))
       /\ StageFits(<<o, "going">>) /\ AnswerIsOwn /\ ChunkInv
  BY <1>4, <1>10 DEF WireInv
<1>12. /\ InOrder(v, req) /\ (NoEnd(w) => NoEnd(v)) /\ (NoneOf(w, req) => NoneOf(v, req))
       /\ (OnlyRest(w, req) => OnlyRest(v, req))
       /\ (Unfinished(w, req) => Unfinished(v, req))
  BY <1>7, <1>11, SuffixKeeps
<1>13. conn[connection].is_open
  <2>1. w # <<>>
    BY <1>6
  <2>2. QED
    BY <1>4, <2>1 DEF WireInv
<1>14. Answered' = Answered
  BY <1>3, <1>8 DEF Answered
<1>15. \A x : x \in Closing => x.part \in {"eof", "reset"}
  BY DEF Closing, Eof, Reset, Item
<1>16. ec = "ok" => w[n] \notin Closing
  BY <1>2, <1>4, <1>15
<1>17. CASE o = "header"
  <2>1. EndsRead(w[n]) /\ \A i \in 1..(n - 1) : w[i] \notin Closing
    BY <1>2, <1>4 DEF EndsRead
  <2>2. \/ conn[connection].peer = FALSE
        \/ conn[connection].inbox = 0
        \/ conn[connection].inbox = req /\ NoneOf(w, req)
    <3>1. Awaiting(<<o, "going">>)
      BY <1>17 DEF Awaiting
    <3>2. conn[connection].peer \in BOOLEAN
      BY <1>a DEF Connections
    <3>3. QED
      BY <1>4, <1>11, <3>1, <3>2 DEF StageFits
  <2>3. PICK u : u = streambuf \o SubSeq(w, 1, k)
    OBVIOUS
  <2>4. streambuf' = u
    BY <1>2, <1>4, <1>10, <1>17, <2>3
  <2>5. /\ \A i \in DOMAIN u : \/ i \in DOMAIN streambuf /\ u[i] = streambuf[i]
                              \/ \E j \in 1..k : u[i] = w[j]
        /\ k > 0 => u # <<>> /\ u[Len(u)] = w[k]
    <3>1. Taken(streambuf, w, k, u)
      BY <1>a, <1>6, <2>3 DEF Taken
    <3>2. \A i \in DOMAIN u : \/ i \in DOMAIN streambuf /\ u[i] = streambuf[i]
                              \/ \E j \in 1..k : u[i] = w[j]
      BY <3>1, TakenItems
    <3>3. k > 0 => u # <<>> /\ u[Len(u)] = w[k]
      BY <3>1, TakenItems
    <3>4. QED
      BY <3>2, <3>3
  <2>6. ASSUME NEW j \in 1..k PROVE w[j].req = req \/ w[j].framing = "unframed"
    <3>1. j \in DOMAIN w /\ w[j] \notin Closing
      <4>1. CASE w[n] \in Closing
        <5>1. j \in 1..(n - 1)
          BY <1>2, <1>4, <1>6, <4>1
        <5>2. QED
          BY <1>6, <2>1, <5>1
      <4>2. CASE w[n] \notin Closing
        <5>1. j \in 1..(n - 1) \/ j = n \/ (j = n + 1 /\ j = k /\ w[j].part = "body")
          BY <1>2, <1>4, <1>6, <4>2
        <5>2. w[j] \notin Closing
          BY <1>15, <2>1, <4>2, <5>1
        <5>3. QED
          BY <1>6, <5>2
      <4>3. QED
        BY <4>1, <4>2
    <3>2. Belongs(w[j], req)
      BY <1>11, <3>1 DEF InOrder
    <3>3. QED
      BY <3>1, <3>2 DEF Belongs, LeftBody
  <2>7. AnswerIsOwn'
    <3>1. \A i \in DOMAIN u : u[i].req = req \/ u[i].framing = "unframed"
      BY <1>11, <2>5, <2>6 DEF AnswerIsOwn
    <3>2. QED
      BY <1>3, <2>4, <3>1 DEF AnswerIsOwn
  <2>8. ASSUME ec = "ok" PROVE Answered /\ OnlyRest(v, req) /\ HeaderRead'
    <3>1. w[n] \notin Closing /\ w[n].part = "header"
      BY <1>10, <1>16, <1>17, <2>1, <2>8 DEF EndsRead
    <3>2. k = n \/ (k = n + 1 /\ w[k].part = "body")
      BY <1>2, <1>4, <3>1
    <3>3. /\ w[n].req = req /\ OnlyRest(v, req)
          /\ \A i \in DOMAIN v :
               v[i] \in Closing \/ (v[i].framing = w[k].framing /\ w[k].part # "body")
      <4>1. n \in DOMAIN w /\ InOrder(w, req)
        BY <1>6, <1>11
      <4>2. QED
        BY <1>7, <3>1, <3>2, <4>1, HeaderSplit, Zenon
    <3>4. ~NoneOf(w, req)
      BY <1>6, <3>1, <3>3 DEF NoneOf
    <3>5. Answered
      BY <2>2, <3>4 DEF Answered
    <3>6. k > 0
      BY <1>6, <3>2
    <3>7. HeaderRead'
      BY <1>9, <2>4, <2>5, <3>3, <3>6 DEF HeaderRead
    <3>8. QED
      BY <3>3, <3>5, <3>7
  <2>a. ASSUME conn[connection].sending # 0, ec = "ok"
        PROVE  u[Len(u)].framing = "chunked" /\ u[Len(u)].part # "body"
    <3>1. w[n] \notin Closing /\ w[n].part = "header"
      BY <1>10, <1>16, <1>17, <2>1, <2>a DEF EndsRead
    <3>2. k = n \/ (k = n + 1 /\ w[k].part = "body")
      BY <1>2, <1>4, <3>1
    <3>3. NoEnd(w) /\ Unfinished(w, req)
      BY <1>4, <1>11, <2>a DEF ChunkInv
    <3>4. w[n].req = req
      <4>1. Belongs(w[n], req)
        BY <1>6, <1>11 DEF InOrder
      <4>2. QED
        BY <3>1, <4>1 DEF Belongs, LeftBody
    <3>5. k = n
      <4>1. SUFFICES ASSUME k = n + 1, w[k].part = "body" PROVE FALSE
        BY <3>2
      <4>2. k \in DOMAIN w /\ n \in DOMAIN w /\ n < k
        BY <1>6, <4>1
      <4>3. Follows(w[n], w[k], req)
        BY <1>11, <4>2 DEF InOrder
      <4>4. w[k].req = req
        BY <3>3, <3>4, <4>2, <4>3 DEF Follows, NoEnd
      <4>5. QED
        BY <3>3, <4>1, <4>2, <4>4 DEF Unfinished
    <3>6. k > 0 /\ n \in DOMAIN w
      BY <1>6, <3>5
    <3>7. u[Len(u)] = w[n]
      BY <2>5, <3>5, <3>6
    <3>8. QED
      BY <3>1, <3>3, <3>4, <3>6, <3>7 DEF Unfinished
  <2>9. /\ ~Unwritten(<<o, ec>>) /\ ~Completed(<<o, ec>>)
        /\ Reading(<<o, ec>>) => ec = "ok"
        /\ <<o, ec>> = <<"header", "ok">> => ec = "ok"
    BY <1>17 DEF Unwritten, Completed, Reading
  <2>10. StageFits(<<o, ec>>)'
    <3>1. \/ conn'[connection'].peer = FALSE
          \/ conn'[connection'].inbox = 0
          \/ conn'[connection'].inbox = req' /\ NoneOf(Wire', req')
      BY <1>3, <1>8, <1>9, <1>12, <2>2
    <3>2. ec = "ok" => Answered' /\ OnlyRest(Wire', req') /\ HeaderRead'
      BY <1>3, <1>9, <1>14, <2>8
    <3>3. QED
      BY <2>9, <3>1, <3>2 DEF StageFits
  <2>11. ChunkInv'
    <3>1. conn[connection].sending # 0 => Sends(<<o, ec>>)'
      BY <2>4, <2>9, <2>a DEF Sends
    <3>2. QED
      BY <1>3, <1>4, <1>8, <1>9, <1>10, <1>11, <1>12, <3>1 DEF ChunkInv
  <2>12. QED
    BY <1>3, <1>8, <1>9, <1>10, <1>11, <1>12, <1>13, <2>7, <2>10, <2>11 DEF WireInv
<1>18. CASE o # "header"
  <2>1. Reading(<<o, "going">>)
    BY <1>18 DEF Reading
  <2>2. Answered /\ OnlyRest(w, req)
    BY <1>4, <1>11, <2>1 DEF StageFits
  <2>3. /\ ~Unwritten(<<o, ec>>) /\ ~Awaiting(<<o, ec>>)
        /\ <<o, ec>> # <<"header", "ok">>
    BY <1>18 DEF Unwritten, Awaiting, Reads
  <2>4. ASSUME Completed(<<o, ec>>) PROVE OnlyEnds(v)
    <3>1. \/ w[n] \in Closing /\ k = n - 1
          \/ w[n] \notin Closing /\ w[n].req = req /\ w[n].part \in {"body", "last"} /\ k = n
      <4>1. EndsRead(w[n])
        BY <1>2, <1>4
      <4>2. CASE o = "rest"
        <5>1. w[n] \in Closing
          BY <1>10, <4>1, <4>2 DEF EndsRead
        <5>2. QED
          BY <1>2, <1>4, <5>1
      <4>3. CASE (o = "body" /\ ec = "ok") \/ (o = "data" /\ ec = "last")
        <5>1. w[n].part \notin {"eof", "reset"}
          BY <1>2, <1>4, <4>3
        <5>2. w[n] \notin Closing
          BY <1>15, <5>1
        <5>3. w[n].part \in {"body", "last"}
          <6>1. CASE o = "body" /\ ec = "ok"
            BY <1>10, <4>1, <5>2, <6>1 DEF EndsRead
          <6>2. CASE o = "data" /\ ec = "last"
            BY <1>2, <1>4, <6>2
          <6>3. QED
            BY <4>3, <6>1, <6>2
        <5>4. w[n].req = req
          BY <1>6, <2>2, <5>2 DEF OnlyRest
        <5>5. k = n
          BY <1>2, <1>4, <1>10, <1>18, <5>2
        <5>6. QED
          BY <5>2, <5>3, <5>4, <5>5
      <4>4. QED
        BY <2>4, <4>2, <4>3 DEF Completed
    <3>2. QED
      <4>1. n \in DOMAIN w /\ InOrder(w, req)
        BY <1>6, <1>11
      <4>2. QED
        BY <1>7, <3>1, <4>1, LastSplit, Zenon
  <2>5. StageFits(<<o, ec>>)'
    BY <1>3, <1>9, <1>12, <1>14, <2>2, <2>3, <2>4 DEF StageFits
  <2>6. AnswerIsOwn'
    <3>1. streambuf' = streambuf
      BY <1>2, <1>10, <1>18
    <3>2. QED
      BY <1>3, <1>11, <3>1 DEF AnswerIsOwn
  <2>7. ASSUME conn[connection].sending # 0 PROVE ~Completed(<<o, ec>>)
    <3>1. NoEnd(w) /\ Unfinished(w, req)
      BY <1>4, <1>11, <2>7 DEF ChunkInv
    <3>2. w[n] \notin Closing /\ n \in DOMAIN w
      BY <1>6, <3>1 DEF NoEnd
    <3>3. w[n].part \notin {"body", "last"}
      BY <2>2, <3>1, <3>2 DEF OnlyRest, Unfinished
    <3>4. EndsRead(w[n]) /\ ec = IF w[n].part \in {"eof", "reset", "last", "bad_line"}
                                THEN w[n].part ELSE "ok"
      BY <1>2, <1>4
    <3>5. QED
      BY <1>10, <3>2, <3>3, <3>4 DEF EndsRead, Completed
  <2>8. ChunkInv'
    <3>1. conn[connection].sending # 0 => Sends(<<o, ec>>)'
      BY <2>3, <2>7 DEF Sends
    <3>2. QED
      BY <1>3, <1>4, <1>8, <1>9, <1>10, <1>11, <1>12, <3>1 DEF ChunkInv
  <2>9. QED
    BY <1>3, <1>8, <1>9, <1>10, <1>11, <1>12, <1>13, <2>5, <2>6, <2>8 DEF WireInv
<1>19. QED
  BY <1>17, <1>18

\* The server's steps keep the wire in order.  It answers only what it was asked, and
\* it was asked only while the answer is awaited, ...
LEMMA WireServe ==
  ASSUME Types, RunInv, PoolInv, WireInv, NEW c \in Conn, Serve(c)
  PROVE  WireInv'
<1>a. conn \in [Conn -> Connections] /\ connection \in Conn /\ req \in 0..MaxRequests
  BY DEF Types, TypeOK, Connections
<1>1. conn[c].peer /\ UNCHANGED <<connection, streambuf, op, handlers, pc, req>>
  BY DEF Serve
<1>2. c = connection
  BY <1>1 DEF PoolInv, NewConnection
<1>3. /\ conn'[connection].is_open = conn[connection].is_open
      /\ conn[connection].inbox # 0
      /\ conn'[connection].inbox = 0 /\ conn'[connection].peer = conn[connection].peer
      /\ \E f \in AllFramings :
           \E n \in 0..Len(Answer(conn[connection].inbox, f)) :
             /\ conn'[connection].wire =
                  conn[connection].wire \o SubSeq(Answer(conn[connection].inbox, f), 1, n)
             /\ conn'[connection].sending # 0 =>
                  f = "chunked" /\ conn'[connection].sending = conn[connection].inbox
  BY <1>a, <1>2, ServeStep
<1>4. Current' = Current
  BY <1>1 DEF Current
<1>5. AnswerIsOwn' /\ conn[connection].is_open
  BY <1>1, <1>2 DEF WireInv, AnswerIsOwn
<1>6. PICK w \in Seq(Items) : w = Wire
  BY <1>a DEF Wire, Connections
<1>7. InOrder(w, req) /\ NoEnd(w) /\ \A s \in Current : StageFits(s)
  BY <1>1, <1>2, <1>6 DEF WireInv
<1>8. ~Answered
  BY <1>1, <1>2, <1>3 DEF Answered
<1>9. Current # {}
  BY <1>8 DEF WireInv
<1>10. ASSUME NEW s \in Current
       PROVE  /\ conn[connection].inbox = req /\ NoneOf(w, req)
              /\ ~Unwritten(s) /\ ~Reading(s) /\ ~Completed(s) /\ s # <<"header", "ok">>
  <2>1. StageFits(s)
    BY <1>7
  <2>2. ~Unwritten(s) /\ ~Reading(s)
    BY <1>8, <2>1 DEF StageFits
  <2>3. PICK o \in Ops : \E e : s = <<o, e>>
    BY CurrentOps
  <2>4. PICK e : s = <<o, e>>
    BY <2>3
  <2>5. Awaiting(s)
    BY <2>2, <2>4 DEF Awaiting, Unwritten, Reading, Ops, Reads
  <2>6. s # <<"header", "ok">> /\ ~Completed(s)
    BY <2>2 DEF Reading, Completed, Reads
  <2>7. QED
    BY <1>1, <1>2, <1>3, <1>6, <2>1, <2>2, <2>5, <2>6 DEF StageFits
<1>11. conn[connection].inbox = req /\ NoneOf(w, req)
  BY <1>9, <1>10
<1>12. PICK r \in 1..MaxRequests : r = req
  <2>1. req # 0
    BY <1>3, <1>11
  <2>2. QED
    BY <1>a, <2>1, HttpClientAssumption
<1>13. PICK f \in AllFramings :
         \E n \in 0..Len(Answer(r, f)) :
           /\ conn'[connection].wire = w \o SubSeq(Answer(r, f), 1, n)
           /\ conn'[connection].sending # 0 => f = "chunked" /\ conn'[connection].sending = r
  BY <1>3, <1>6, <1>11, <1>12 DEF Wire
<1>14. PICK n \in 0..Len(Answer(r, f)) :
         /\ conn'[connection].wire = w \o SubSeq(Answer(r, f), 1, n)
         /\ conn'[connection].sending # 0 => f = "chunked" /\ conn'[connection].sending = r
  BY <1>13
<1>15. PICK v : v = w \o SubSeq(Answer(r, f), 1, n)
  OBVIOUS
<1>16. InOrder(v, r) /\ NoEnd(v) /\ (f = "chunked" => Unfinished(v, r))
  <2>1. Serves(w, r, f, v)
    BY <1>15 DEF Serves
  <2>2. InOrder(w, r) /\ NoEnd(w) /\ NoneOf(w, r)
    BY <1>7, <1>11, <1>12
  <2>3. QED
    BY <2>1, <2>2, AnswerKeeps
<1>17. Wire' = v /\ req' = r
  BY <1>1, <1>12, <1>14, <1>15 DEF Wire
<1>18. Answered'
  BY <1>1, <1>3 DEF Answered
<1>19. ASSUME NEW s \in Current PROVE StageFits(s)' /\ Sends(s)'
  <2>1. ~Unwritten(s) /\ ~Reading(s) /\ ~Completed(s) /\ s # <<"header", "ok">>
    BY <1>10
  <2>2. conn'[connection'].inbox = 0
    BY <1>1, <1>3
  <2>3. QED
    BY <2>1, <2>2 DEF StageFits, Sends
<1>20. ChunkInv'
  BY <1>1, <1>2, <1>3, <1>4, <1>9, <1>14, <1>16, <1>17, <1>19 DEF ChunkInv
<1>21. QED
  BY <1>1, <1>3, <1>4, <1>5, <1>9, <1>16, <1>17, <1>18, <1>19, <1>20 DEF WireInv

\* ... chunks follow their header, and nothing else does, ...
LEMMA WireChunk ==
  ASSUME Types, RunInv, PoolInv, WireInv, NEW c \in Conn, Chunk(c)
  PROVE  WireInv'
<1>a. conn \in [Conn -> Connections] /\ connection \in Conn /\ req \in 0..MaxRequests
  BY DEF Types, TypeOK, Connections
<1>1. conn[c].peer /\ UNCHANGED <<connection, streambuf, op, handlers, pc, req>>
  BY DEF Chunk
<1>2. c = connection
  BY <1>1 DEF PoolInv, NewConnection
<1>3. /\ conn'[connection].is_open = conn[connection].is_open
      /\ conn[connection].sending # 0
      /\ conn'[connection].inbox = conn[connection].inbox
      /\ conn'[connection].peer = conn[connection].peer
      /\ Chunks(conn[connection].wire, conn[connection].sending, conn'[connection].wire)
      /\ conn'[connection].sending # 0 =>
           /\ conn'[connection].sending = conn[connection].sending
           /\ conn'[connection].wire =
                Append(Begun(conn[connection].wire, conn[connection].sending),
                       Item(conn[connection].sending, "data", "chunked"))
  BY <1>a, <1>2, ChunkStep
<1>4. Current' = Current
  BY <1>1 DEF Current
<1>5. AnswerIsOwn' /\ conn[connection].is_open
  BY <1>1, <1>2 DEF WireInv, AnswerIsOwn
<1>6. PICK w : w = Wire
  OBVIOUS
<1>7. PICK r : r = req
  OBVIOUS
<1>8. PICK v : v = conn'[connection].wire
  OBVIOUS
<1>9. /\ conn[connection].sending = r /\ conn[connection].inbox = 0
      /\ Unfinished(w, r) /\ Current # {} /\ \A s \in Current : Sends(s)
  BY <1>3, <1>6, <1>7 DEF WireInv, ChunkInv
<1>10. InOrder(w, r) /\ NoEnd(w) /\ \A s \in Current : StageFits(s)
  BY <1>1, <1>2, <1>6, <1>7 DEF WireInv
<1>11. Chunks(w, r, v)
  BY <1>3, <1>6, <1>8, <1>9 DEF Wire
<1>12. /\ InOrder(v, r) /\ NoEnd(v) /\ (OnlyRest(w, r) => OnlyRest(v, r))
       /\ v = Append(Begun(w, r), Item(r, "data", "chunked")) => Unfinished(v, r)
       /\ \A i \in DOMAIN v : (i \in DOMAIN w /\ v[i] = w[i]) \/ v[i].framing = "chunked"
  BY <1>9, <1>10, <1>11, ChunkKeeps
<1>13. Wire' = v /\ req' = r
  BY <1>1, <1>7, <1>8 DEF Wire
<1>14. Answered'
  BY <1>1, <1>3, <1>9 DEF Answered
<1>15. ASSUME NEW s \in Current PROVE StageFits(s)' /\ Sends(s)'
  <2>1. Sends(s) /\ StageFits(s)
    BY <1>9, <1>10
  <2>2. Sends(s)' /\ ~Unwritten(s) /\ ~Completed(s)
    BY <1>1, <2>1 DEF Sends
  <2>3. Reading(s) => OnlyRest(v, r)
    BY <1>6, <1>7, <1>12, <2>1 DEF StageFits
  <2>4. s = <<"header", "ok">> => HeaderRead'
    <3>1. SUFFICES ASSUME s = <<"header", "ok">> PROVE HeaderRead'
      OBVIOUS
    <3>2. /\ HeaderRead
          /\ streambuf[Len(streambuf)].framing = "chunked"
          /\ streambuf[Len(streambuf)].part # "body"
      BY <2>1, <3>1 DEF StageFits, Sends
    <3>3. QED
      BY <1>1, <1>6, <1>12, <1>13, <3>2 DEF HeaderRead
  <2>5. conn'[connection'].inbox = 0
    BY <1>1, <1>3, <1>9
  <2>6. StageFits(s)'
    BY <1>13, <1>14, <2>2, <2>3, <2>4, <2>5 DEF StageFits
  <2>7. QED
    BY <2>2, <2>6
<1>16. ChunkInv'
  <2>1. ASSUME conn'[connection].sending # 0
        PROVE  conn'[connection].sending = r /\ Unfinished(v, r)
    BY <1>3, <1>6, <1>8, <1>9, <1>12, <2>1 DEF Wire
  <2>2. conn'[connection].inbox = 0 /\ conn'[connection].peer
    BY <1>1, <1>2, <1>3, <1>9
  <2>3. QED
    BY <1>1, <1>4, <1>9, <1>13, <1>15, <2>1, <2>2 DEF ChunkInv
<1>17. QED
  BY <1>1, <1>3, <1>4, <1>5, <1>9, <1>12, <1>13, <1>14, <1>15, <1>16 DEF WireInv

\* ... and behind the end of a connection there is nothing.
LEMMA WireClose ==
  ASSUME Types, RunInv, PoolInv, WireInv, NEW c \in Conn, Close(c)
  PROVE  WireInv'
<1>a. conn \in [Conn -> Connections] /\ connection \in Conn /\ req \in 0..MaxRequests
  BY DEF Types, TypeOK, Connections
<1>1. conn[c].peer /\ UNCHANGED <<connection, streambuf, op, handlers, pc, req>>
  BY DEF Close
<1>2. c = connection
  BY <1>1 DEF PoolInv, NewConnection
<1>3. /\ conn'[connection].is_open = conn[connection].is_open
      /\ conn'[connection].peer = FALSE /\ conn'[connection].sending = 0
      /\ \E end \in Closing : conn'[connection].wire = Append(conn[connection].wire, end)
  BY <1>a, <1>2, CloseStep
<1>4. Current' = Current
  BY <1>1 DEF Current
<1>5. AnswerIsOwn' /\ conn[connection].is_open
  BY <1>1, <1>2 DEF WireInv, AnswerIsOwn
<1>6. PICK w \in Seq(Items) : w = Wire
  BY <1>a DEF Wire, Connections
<1>7. InOrder(w, req) /\ \A s \in Current : StageFits(s)
  BY <1>1, <1>2, <1>6 DEF WireInv
<1>8. PICK end \in Closing : conn'[connection].wire = Append(w, end)
  BY <1>3, <1>6 DEF Wire
<1>9. PICK v : v = Append(w, end)
  OBVIOUS
<1>10. PICK r \in Nat : r = req
  BY <1>a, HttpClientAssumption
<1>11. Wire' = v /\ req' = r
  BY <1>1, <1>8, <1>9, <1>10 DEF Wire
<1>12. /\ InOrder(w, r) => InOrder(v, r)
       /\ OnlyEnds(w) => OnlyEnds(v)
       /\ OnlyLeft(w) => OnlyLeft(v)
       /\ NoneOf(w, r) => NoneOf(v, r)
       /\ OnlyRest(w, r) => OnlyRest(v, r)
  BY <1>9, EndKeeps
<1>13. \A i \in DOMAIN v : v[i] \in Closing \/ (i \in DOMAIN w /\ v[i] = w[i])
  BY <1>9, EndKeeps
<1>14. Answered' /\ ~conn'[connection'].peer
  BY <1>1, <1>3 DEF Answered
<1>15. HeaderRead => HeaderRead'
  BY <1>1, <1>6, <1>11, <1>13 DEF HeaderRead
<1>16. ASSUME NEW s \in Current PROVE StageFits(s)'
  <2>1. StageFits(s)
    BY <1>7
  <2>2. /\ Unwritten(s) => OnlyLeft(w) /\ NoneOf(w, r)
        /\ Reading(s) => OnlyRest(w, r)
        /\ s = <<"header", "ok">> => HeaderRead
        /\ Completed(s) => OnlyEnds(w)
    BY <1>6, <1>10, <2>1 DEF StageFits
  <2>3. QED
    BY <1>11, <1>12, <1>14, <1>15, <2>2 DEF StageFits
<1>17. Current = {} /\ pc # "threw" => OnlyLeft(v)
  BY <1>6, <1>12 DEF WireInv
<1>18. InOrder(v, r)
  BY <1>7, <1>10, <1>12
<1>19. ChunkInv'
  BY <1>1, <1>3 DEF ChunkInv
<1>20. QED
  BY <1>1, <1>3, <1>4, <1>5, <1>11, <1>14, <1>16, <1>17, <1>18, <1>19 DEF WireInv

\* A request takes over a connection on which nothing was left that could be taken
\* for its answer, or a new one.
LEMMA WireRequest ==
  ASSUME Types, RunInv, PoolInv, WireInv, Request
  PROVE  WireInv'
<1>a. /\ connections \subseteq Conn /\ connection \in Conn /\ conn \in [Conn -> Connections]
      /\ req \in 0..MaxRequests
  BY DEF Types, TypeOK, Connections
<1> DEFINE idle == {c \in connections : ~conn[c].in_use}
<1>1. PICK c \in IF idle # {} THEN idle ELSE Conn \ connections :
        /\ connection' = c
        /\ conn' = [conn EXCEPT ![c].attempt_reconnect = TRUE, ![c].in_use = TRUE]
        /\ connect(conn[c].is_open)
  BY DEF Request
<1>2. c \in Conn /\ (c \in connections \/ conn[c] = NewConnection)
  BY <1>a, <1>1 DEF PoolInv
<1>3. pc = "idle" /\ handlers' = handlers /\ streambuf' = streambuf /\ req' = req + 1
  BY DEF Request
<1>4. handlers = <<>> /\ streambuf = <<>> /\ Current = {}
  BY <1>3 DEF RunInv
<1>5. Stages(handlers) = {}
  BY <1>4 DEF Current
<1>6. PICK o \in {"write", "resolve"} : op' = o
  BY <1>1 DEF connect, Begin
<1>7. Current' = {<<o, "going">>}
  BY <1>3, <1>5, <1>6 DEF Current
<1>8. /\ Unwritten(<<o, "going">>) /\ ~Awaiting(<<o, "going">>) /\ ~Reading(<<o, "going">>)
      /\ <<o, "going">> # <<"header", "ok">> /\ ~Completed(<<o, "going">>)
  BY DEF Unwritten, Awaiting, Reading, Completed, Reads
<1>9. /\ conn'[c].is_open = conn[c].is_open /\ conn'[c].wire = conn[c].wire
      /\ conn'[c].inbox = conn[c].inbox /\ conn'[c].peer = conn[c].peer
      /\ conn'[c].sending = conn[c].sending
  BY <1>a, <1>1, <1>2, TakenConnection DEF Others
<1>10. AnswerIsOwn'
  BY <1>3, <1>4 DEF AnswerIsOwn
<1>11. CASE c \in connections
  <2>1. c = connection
    BY <1>11 DEF PoolInv
  <2>2. PICK w \in Seq(Items) : w = Wire
    BY <1>a DEF Wire, Connections
  <2>3. PICK r \in Nat : r = req
    BY <1>a, HttpClientAssumption
  <2>4. InOrder(w, r) /\ OnlyLeft(w) /\ Answered
    BY <1>3, <1>4, <2>2, <2>3 DEF WireInv
  <2>5. InOrder(w, r + 1) /\ NoneOf(w, r + 1)
    BY <2>4, NextRequest
  <2>6. Wire' = w /\ req' = r + 1
    BY <1>1, <1>3, <1>9, <2>1, <2>2, <2>3 DEF Wire
  <2>7. Answered'
    BY <1>1, <1>9, <2>1, <2>4 DEF Answered
  <2>8. StageFits(<<o, "going">>)'
    BY <1>8, <2>4, <2>5, <2>6, <2>7 DEF StageFits
  <2>9. /\ conn'[connection'].peer => NoEnd(w)
        /\ ~conn'[connection'].is_open =>
             w = <<>> /\ conn'[connection'].inbox = 0 /\ ~conn'[connection'].peer
    BY <1>1, <1>9, <2>1, <2>2 DEF WireInv
  <2>10. ChunkInv'
    <3>1. conn[connection].sending = 0
      BY <1>4, NotSending DEF WireInv
    <3>2. QED
      BY <1>1, <1>9, <2>1, <3>1 DEF ChunkInv
  <2>11. QED
    BY <1>7, <1>10, <2>5, <2>6, <2>8, <2>9, <2>10 DEF WireInv
<1>12. CASE conn[c] = NewConnection
  <2>1. /\ Wire' = <<>> /\ conn'[connection'].inbox = 0 /\ conn'[connection'].peer = FALSE
        /\ conn'[connection'].sending = 0
    <3>1. /\ conn[c].wire = <<>> /\ conn[c].inbox = 0 /\ conn[c].peer = FALSE
          /\ conn[c].sending = 0
      BY <1>12 DEF NewConnection
    <3>2. connection' = c
      BY <1>1
    <3>3. QED
      BY <1>9, <3>1, <3>2 DEF Wire
  <2>2. QED
    BY <1>7, <1>8, <1>10, <2>1, WireFresh
<1>13. QED
  BY <1>2, <1>11, <1>12

\* A step that leaves the request where it is.
LEMMA WireStays ==
  ASSUME WireInv, UNCHANGED <<conn, connection, streambuf, req>>, Current' = Current,
         pc' # "threw" => pc # "threw"
  PROVE  WireInv'
<1>1. Wire' = Wire /\ Answered' = Answered /\ AnswerIsOwn' = AnswerIsOwn
  BY DEF Wire, Answered, AnswerIsOwn
<1>2. HeaderRead' = HeaderRead
  BY <1>1 DEF HeaderRead
<1>3. \A s \in Current : StageFits(s)'
  BY <1>1, <1>2 DEF WireInv, StageFits
<1>4. \A s : Sends(s)' <=> Sends(s)
  BY DEF Sends
<1>5. ChunkInv'
  BY <1>1, <1>4 DEF WireInv, ChunkInv
<1>6. QED
  BY <1>1, <1>3, <1>5 DEF WireInv

\* The fields of the connection when Rearmed.
LEMMA RearmedConnection ==
  ASSUME conn \in [Conn -> Connections], connection \in Conn
  PROVE  /\ Rearmed \in [Conn -> Connections]
         /\ Rearmed[connection].is_open = conn[connection].is_open
         /\ Rearmed[connection].wire = conn[connection].wire
         /\ Rearmed[connection].inbox = conn[connection].inbox
         /\ Rearmed[connection].peer = conn[connection].peer
         /\ Rearmed[connection].sending = conn[connection].sending
<1>1. PICK g : g = [conn EXCEPT ![connection].attempt_reconnect = TRUE]
  OBVIOUS
<1>2. g \in [Conn -> Connections]
  BY <1>1, FieldSet
<1>3. /\ g[connection].is_open = conn[connection].is_open
      /\ g[connection].wire = conn[connection].wire
      /\ g[connection].inbox = conn[connection].inbox
      /\ g[connection].peer = conn[connection].peer
      /\ g[connection].sending = conn[connection].sending
  BY <1>1, OneField DEF Others
<1>4. g = Rearmed
  BY <1>1 DEF Rearmed
<1>5. QED
  BY <1>2, <1>3, <1>4

\* What the header says of the body is enough to know when nothing more is to come.
LEMMA WireHeaderEnds ==
  ASSUME Types, RunInv, PoolInv, WireInv, HeaderEnds
  PROVE  WireInv'
<1>a. connection \in Conn /\ conn \in [Conn -> Connections]
  BY DEF Types, TypeOK, Connections
<1>1. Handle("header", "ok") /\ connection' = connection
  BY DEF HeaderEnds
<1>2. PICK ec \in {"protocol_error", "ok"} :
        callback(Rearmed, ec) /\ (ec = "ok" => framing = "unframed" \/ Covered)
  BY DEF HeaderEnds
<1>3. "header" \in Ops
  BY DEF Ops, Reads
<1>4. Current = {<<"header", "ok">>} /\ Stages(handlers') = {} /\ req' = req
  BY <1>1, <1>3, HandleStage
<1>5. Current' = {}
  BY <1>2, <1>4 DEF callback, Current
<1>6. connections = {connection}
  BY <1>4 DEF PoolInv
<1>7. /\ Rearmed \in [Conn -> Connections]
      /\ Rearmed[connection].is_open = conn[connection].is_open
      /\ Rearmed[connection].wire = Wire
      /\ Rearmed[connection].inbox = conn[connection].inbox
      /\ Rearmed[connection].peer = conn[connection].peer
      /\ Rearmed[connection].sending = conn[connection].sending
  BY <1>a, RearmedConnection DEF Wire
<1>8. Answered /\ OnlyRest(Wire, req) /\ HeaderRead /\ InOrder(Wire, req)
  <2>1. StageFits(<<"header", "ok">>) /\ InOrder(Wire, req)
    BY <1>4 DEF WireInv
  <2>2. Reading(<<"header", "ok">>)
    BY DEF Reading
  <2>3. QED
    BY <2>1, <2>2 DEF StageFits
<1>9. ASSUME ec = "ok" PROVE OnlyLeft(Wire)
  <2>1. ASSUME NEW i \in DOMAIN Wire PROVE Wire[i] \in Closing \/ LeftBody(Wire[i])
    <3>1. \/ Wire[i] \in Closing
          \/ Wire[i].framing = framing /\ streambuf[Len(streambuf)].part # "body"
      BY <1>8 DEF HeaderRead, framing
    <3>2. Belongs(Wire[i], req)
      BY <1>8 DEF InOrder
    <3>3. Wire[i] \in Closing \/ Wire[i].part \notin {"start", "header"}
      BY <1>8 DEF OnlyRest
    <3>4. framing = "unframed" \/ streambuf[Len(streambuf)].part = "body"
      BY <1>2, <1>9 DEF Covered
    <3>5. QED
      BY <3>1, <3>2, <3>3, <3>4 DEF Belongs, LeftBody
  <2>2. QED
    BY <2>1 DEF OnlyLeft
<1>10. ec = "ok" => Answered /\ OnlyLeft(Wire) /\ conn[connection].sending = 0
  <2>1. SUFFICES ASSUME ec = "ok" PROVE conn[connection].sending = 0
    BY <1>8, <1>9
  <2>2. framing # "chunked" \/ streambuf[Len(streambuf)].part = "body"
    BY <1>2, <2>1 DEF Covered
  <2>3. ~Sends(<<"header", "ok">>)
    BY <2>2 DEF Sends, framing
  <2>4. QED
    BY <1>4, <2>3, NotSending DEF WireInv
<1>11. PICK cs \in [Conn -> Connections] : cs = Rearmed
  BY <1>7
<1>12. /\ cs[connection].wire = Wire /\ cs[connection].inbox = conn[connection].inbox
       /\ cs[connection].peer = conn[connection].peer
       /\ cs[connection].is_open = conn[connection].is_open /\ callback(cs, ec)
       /\ cs[connection].sending = conn[connection].sending
  BY <1>2, <1>7, <1>11
<1>13. QED
  BY <1>a, <1>1, <1>4, <1>5, <1>6, <1>10, <1>12, WireEnds

\* Every step keeps what is on the wire within what the stage of the request promises.
LEMMA WireStep == Types /\ RunInv /\ PoolInv /\ WireInv /\ [Next]_vars => WireInv'
<1> SUFFICES ASSUME Types, RunInv, PoolInv, WireInv, [Next]_vars PROVE WireInv'
  OBVIOUS
<1>a. /\ connection \in Conn /\ conn \in [Conn -> Connections] /\ req \in 0..MaxRequests
      /\ conn[connection].peer \in BOOLEAN
  BY DEF Types, TypeOK, Connections
<1>1. CASE Request
  BY <1>1, WireRequest
<1>2. CASE Return
  <2>1. UNCHANGED <<conn, connection, streambuf, req, op, handlers>> /\ pc = "run"
    BY <1>2 DEF Return
  <2>2. Current' = Current
    BY <2>1 DEF Current
  <2>3. QED
    BY <2>1, <2>2, WireStays
<1>3. CASE Resolved
  <2>1. PICK ec \in {"ok", "host_not_found"} : Complete(ec)
    BY <1>3 DEF Resolved
  <2>2. ec \in Codes /\ op \in Ops /\ op = "resolve"
    BY <1>3 DEF Codes, ErrorCodes, Resolved, Ops
  <2>3. UNCHANGED <<conn, connection, streambuf, req>>
    BY <1>3 DEF Resolved
  <2>4. Current = {<<"resolve", "going">>} /\ Current' = {<<"resolve", ec>>}
    BY <2>1, <2>2, CompleteStage
  <2>5. /\ Unwritten(<<"resolve", "going">>) /\ ~Awaiting(<<"resolve", ec>>)
        /\ ~Reading(<<"resolve", ec>>) /\ ~Completed(<<"resolve", ec>>)
        /\ <<"resolve", ec>> # <<"header", "ok">>
    BY DEF Unwritten, Awaiting, Reading, Completed, Reads
  <2>6. Wire' = Wire
    BY <2>3 DEF Wire
  <2>7. QED
    BY <2>3, <2>4, <2>5, <2>6, WireMoves
<1>4. CASE Connected
  <2>1. /\ Complete("ok") /\ op = "connect"
        /\ conn' = [conn EXCEPT ![connection].is_open = TRUE, ![connection].peer = TRUE]
        /\ UNCHANGED <<connection, streambuf, req>>
    BY <1>4 DEF Connected
  <2>2. "ok" \in Codes /\ op \in Ops
    BY <2>1 DEF Codes, ErrorCodes, Ops
  <2>3. Current = {<<"connect", "going">>} /\ Current' = {<<"connect", "ok">>}
    BY <2>1, <2>2, CompleteStage
  <2>4. ~conn[connection].is_open
    BY <2>3 DEF PoolInv, Unopened
  <2>5. Wire = <<>> /\ conn[connection].inbox = 0
    BY <2>4 DEF WireInv
  <2>6. /\ conn'[connection].is_open /\ conn'[connection].wire = conn[connection].wire
        /\ conn'[connection].inbox = conn[connection].inbox
        /\ conn'[connection].sending = conn[connection].sending
    BY <1>a, <2>1, ConnectedConnection DEF Others
  <2>7. Wire' = <<>> /\ Answered' /\ conn'[connection'].is_open
    BY <2>1, <2>5, <2>6 DEF Wire, Answered
  <2>8. PICK r : r = req'
    OBVIOUS
  <2>9. /\ InOrder(<<>>, r) /\ NoEnd(<<>>) /\ OnlyLeft(<<>>) /\ NoneOf(<<>>, r)
    BY EmptyWire
  <2>10. /\ ~Awaiting(<<"connect", "ok">>) /\ ~Reading(<<"connect", "ok">>)
         /\ ~Completed(<<"connect", "ok">>) /\ <<"connect", "ok">> # <<"header", "ok">>
    BY DEF Awaiting, Reading, Completed, Reads
  <2>11. StageFits(<<"connect", "ok">>)'
    BY <2>7, <2>8, <2>9, <2>10 DEF StageFits
  <2>12. AnswerIsOwn'
    BY <2>1 DEF WireInv, AnswerIsOwn
  <2>13. ChunkInv'
    <3>1. ~Sends(<<"connect", "going">>)
      BY DEF Sends, Unwritten
    <3>2. conn[connection].sending = 0
      BY <2>3, <3>1, NotSending DEF WireInv
    <3>3. QED
      BY <2>1, <2>6, <3>2 DEF ChunkInv
  <2>14. QED
    BY <2>3, <2>7, <2>8, <2>9, <2>11, <2>12, <2>13 DEF WireInv
<1>5. CASE NotConnected
  <2>1. /\ op = "connect"
        /\ IF endpoints > 1 THEN UNCHANGED <<op, handlers>> ELSE Complete("refused")
        /\ UNCHANGED <<conn, connection, streambuf, req, pc>>
    BY <1>5 DEF NotConnected
  <2>2. "refused" \in Codes /\ op \in Ops
    BY <2>1 DEF Codes, ErrorCodes, Ops
  <2>3. CASE endpoints > 1
    <3>1. Current' = Current
      BY <2>1, <2>3 DEF Current
    <3>2. QED
      BY <2>1, <3>1, WireStays
  <2>4. CASE ~(endpoints > 1)
    <3>1. Current = {<<"connect", "going">>} /\ Current' = {<<"connect", "refused">>}
      BY <2>1, <2>2, <2>4, CompleteStage
    <3>2. /\ Unwritten(<<"connect", "going">>) /\ ~Awaiting(<<"connect", "refused">>)
          /\ ~Reading(<<"connect", "refused">>) /\ ~Completed(<<"connect", "refused">>)
          /\ <<"connect", "refused">> # <<"header", "ok">>
      BY DEF Unwritten, Awaiting, Reading, Completed, Reads
    <3>3. Wire' = Wire
      BY <2>1 DEF Wire
    <3>4. QED
      BY <2>1, <3>1, <3>2, <3>3, WireMoves
  <2>5. QED
    BY <2>3, <2>4
<1>6. CASE Written
  <2>1. /\ op = "write" /\ UNCHANGED <<connection, streambuf, req>>
        /\ \/ /\ Complete("ok")
              /\ conn' = IF conn[connection].peer THEN [conn EXCEPT ![connection].inbox = req]
                                                  ELSE conn
           \/ Complete("broken_pipe") /\ conn' = conn
    BY <1>6 DEF Written
  <2>2. {"ok", "broken_pipe"} \subseteq Codes /\ op \in Ops
    BY <2>1 DEF Codes, ErrorCodes, Ops
  <2>3. CASE Complete("broken_pipe") /\ conn' = conn
    <3>1. Current = {<<"write", "going">>} /\ Current' = {<<"write", "broken_pipe">>}
      BY <2>1, <2>2, <2>3, CompleteStage
    <3>2. /\ Unwritten(<<"write", "going">>) /\ ~Awaiting(<<"write", "broken_pipe">>)
          /\ ~Reading(<<"write", "broken_pipe">>) /\ ~Completed(<<"write", "broken_pipe">>)
          /\ <<"write", "broken_pipe">> # <<"header", "ok">>
      BY DEF Unwritten, Awaiting, Reading, Completed, Reads
    <3>3. Wire' = Wire
      BY <2>1, <2>3 DEF Wire
    <3>4. QED
      BY <2>1, <2>3, <3>1, <3>2, <3>3, WireMoves
  <2>4. CASE /\ Complete("ok")
             /\ conn' = IF conn[connection].peer THEN [conn EXCEPT ![connection].inbox = req]
                                                 ELSE conn
    <3>1. Current = {<<"write", "going">>} /\ Current' = {<<"write", "ok">>}
      BY <2>1, <2>2, <2>4, CompleteStage
    <3>2. conn[connection].is_open
      BY <3>1 DEF PoolInv, Opened
    <3>3. NoneOf(Wire, req)
      <4>1. Unwritten(<<"write", "going">>) /\ StageFits(<<"write", "going">>)
        BY <3>1 DEF Unwritten, WireInv
      <4>2. QED
        BY <4>1 DEF StageFits
    <3>4. /\ conn'[connection].wire = conn[connection].wire
          /\ conn'[connection].is_open = conn[connection].is_open
          /\ conn'[connection].peer = conn[connection].peer
          /\ conn[connection].peer => conn'[connection].inbox = req
          /\ conn'[connection].sending = conn[connection].sending
      <4>1. CASE conn[connection].peer
        <5>1. conn' = [conn EXCEPT ![connection].inbox = req]
          BY <2>4, <4>1
        <5>2. QED
          BY <1>a, <5>1, OneField DEF Others
      <4>2. CASE ~conn[connection].peer
        <5>1. conn' = conn
          BY <2>4, <4>2
        <5>2. QED
          BY <4>2, <5>1
      <4>3. QED
        BY <4>1, <4>2
    <3>5. Wire' = Wire
      BY <2>1, <3>4 DEF Wire
    <3>6. /\ ~Unwritten(<<"write", "ok">>) /\ ~Reading(<<"write", "ok">>)
          /\ ~Completed(<<"write", "ok">>) /\ <<"write", "ok">> # <<"header", "ok">>
      BY DEF Unwritten, Reading, Completed, Reads
    <3>7. StageFits(<<"write", "ok">>)'
      BY <2>1, <3>3, <3>4, <3>5, <3>6 DEF StageFits
    <3>8. AnswerIsOwn'
      BY <2>1 DEF WireInv, AnswerIsOwn
    <3>9. ChunkInv'
      <4>1. ~Sends(<<"write", "going">>)
        BY DEF Sends, Unwritten
      <4>2. conn[connection].sending = 0
        BY <3>1, <4>1, NotSending DEF WireInv
      <4>3. QED
        BY <2>1, <3>4, <4>2 DEF ChunkInv
    <3>10. QED
      BY <2>1, <3>1, <3>2, <3>4, <3>5, <3>7, <3>8, <3>9 DEF WireInv
  <2>5. QED
    BY <2>1, <2>3, <2>4
<1>7. CASE Readable
  BY <1>7, WireReadable
<1>8. CASE Expire
  <2>1. UNCHANGED <<conn, connection, streambuf, req, pc>>
    BY <1>8 DEF Expire
  <2>2. Current' = Current
    BY <1>8, ExpireStage
  <2>3. QED
    BY <2>1, <2>2, WireStays
<1>9. CASE TimerHandler
  <2>1. UNCHANGED <<conn, connection, streambuf, req, pc>>
    BY <1>9 DEF TimerHandler
  <2>2. \/ Current' = Current
        \/ op \in Ops /\ Current = {<<op, "going">>} /\ Current' = {<<op, "aborted">>}
    BY <1>9, TimerStage
  <2>3. CASE Current' = Current
    BY <2>1, <2>3, WireStays
  <2>4. CASE op \in Ops /\ Current = {<<op, "going">>} /\ Current' = {<<op, "aborted">>}
    <3>1. PICK o \in Ops : Current = {<<o, "going">>} /\ Current' = {<<o, "aborted">>}
      BY <2>4
    <3>2. /\ Unwritten(<<o, "aborted">>) => Unwritten(<<o, "going">>)
          /\ Awaiting(<<o, "aborted">>) => Awaiting(<<o, "going">>)
          /\ Reading(<<o, "aborted">>) => Reading(<<o, "going">>)
          /\ <<o, "aborted">> # <<"header", "ok">> /\ ~Completed(<<o, "aborted">>)
      BY DEF Unwritten, Awaiting, Reading, Completed
    <3>3. Wire' = Wire
      BY <2>1 DEF Wire
    <3>4. QED
      BY <2>1, <3>1, <3>2, <3>3, WireMoves
  <2>5. QED
    BY <2>2, <2>3, <2>4
<1>10. CASE Failed
  <2>1. PICK o \in Ops,
          ec \in {"host_not_found", "refused", "broken_pipe", "eof", "reset", "aborted",
                  "bad_line"} :
            /\ Handle(o, ec)
            /\ callback(conn, IF o = "rest" /\ ec = "eof" THEN "ok" ELSE ec)
    BY <1>10 DEF Failed
  <2>2. PICK r : /\ callback(conn, r) /\ (r = "ok" => <<o, ec>> = <<"rest", "eof">>)
                 /\ connection' = connection
    BY <1>10, <2>1 DEF Failed
  <2>3. Current = {<<o, ec>>} /\ Stages(handlers') = {} /\ req' = req
    BY <2>1, HandleStage
  <2>4. connections = {connection}
    BY <2>3 DEF PoolInv
  <2>5. Current' = {}
    BY <2>2, <2>3 DEF callback, Current
  <2>6. r = "ok" => Answered /\ OnlyLeft(Wire) /\ conn[connection].sending = 0
    <3>1. SUFFICES ASSUME r = "ok"
                   PROVE  Answered /\ OnlyLeft(Wire) /\ conn[connection].sending = 0
      OBVIOUS
    <3>2. StageFits(<<"rest", "eof">>)
      BY <2>2, <2>3, <3>1 DEF WireInv
    <3>3. Reading(<<"rest", "eof">>) /\ Completed(<<"rest", "eof">>)
      BY DEF Reading, Completed, Reads
    <3>4. conn[connection].sending = 0
      <4>1. ~Sends(<<"rest", "eof">>) /\ <<"rest", "eof">> \in Current
        BY <2>2, <2>3, <3>1, <3>3 DEF Sends
      <4>2. QED
        BY <4>1, NotSending DEF WireInv
    <3>5. QED
      BY <3>2, <3>3, <3>4, EndsAreLeft DEF StageFits
  <2>7. conn[connection].wire = Wire
    BY DEF Wire
  <2>8. QED
    BY <1>a, <2>2, <2>3, <2>4, <2>5, <2>6, <2>7, WireEnds
<1>11. CASE ResolveHandler
  <2>1. /\ Handle("resolve", "ok") /\ op' = "connect"
        /\ UNCHANGED <<conn, connection, streambuf>>
    BY <1>11 DEF ResolveHandler, Begin
  <2>2. "resolve" \in Ops
    BY DEF Ops
  <2>3. Current = {<<"resolve", "ok">>} /\ Stages(handlers') = {} /\ req' = req
    BY <2>1, <2>2, HandleStage
  <2>4. Current' = {<<"connect", "going">>}
    BY <2>1, <2>3 DEF Current
  <2>5. /\ Unwritten(<<"resolve", "ok">>) /\ ~Awaiting(<<"connect", "going">>)
        /\ ~Reading(<<"connect", "going">>) /\ ~Completed(<<"connect", "going">>)
        /\ <<"connect", "going">> # <<"header", "ok">>
    BY DEF Unwritten, Awaiting, Reading, Completed, Reads
  <2>6. Wire' = Wire
    BY <2>1 DEF Wire
  <2>7. QED
    BY <2>1, <2>3, <2>4, <2>5, <2>6, WireMoves
<1>12. CASE Continue
  <2>1. UNCHANGED <<conn, connection, streambuf>>
    BY <1>12 DEF Continue
  <2>2. PICK o \in Ops, next \in {"write", "header", "data", "line"} :
          /\ Handle(o, "ok") /\ op' = next
          /\ <<o, next>> \in {<<"connect", "write">>, <<"write", "header">>, <<"line", "data">>,
                              <<"data", "line">>}
    BY <1>12 DEF Continue, Begin, Ops, Reads
  <2>3. Current = {<<o, "ok">>} /\ Stages(handlers') = {} /\ req' = req
    BY <2>2, HandleStage
  <2>4. Current' = {<<next, "going">>}
    BY <2>2, <2>3 DEF Current
  <2>5. /\ Unwritten(<<next, "going">>) => Unwritten(<<o, "ok">>)
        /\ Awaiting(<<next, "going">>) => Awaiting(<<o, "ok">>)
        /\ Reading(<<next, "going">>) => Reading(<<o, "ok">>)
        /\ <<next, "going">> # <<"header", "ok">> /\ ~Completed(<<next, "going">>)
    BY <2>2 DEF Unwritten, Awaiting, Reading, Completed, Reads
  <2>6. Wire' = Wire
    BY <2>1 DEF Wire
  <2>7. QED
    BY <2>1, <2>3, <2>4, <2>5, <2>6, WireMoves
<1>13. CASE Reconnect
  <2>1. PICK ec \in {"eof", "reset"} : Handle("header", ec)
    BY <1>13 DEF Reconnect
  <2>2. PICK c \in Conn \ connections :
          /\ connection' = c
          /\ conn' = [conn EXCEPT ![connection] = NewConnection,
                                  ![c].attempt_reconnect = FALSE, ![c].in_use = TRUE]
          /\ connect(FALSE)
    BY <1>13 DEF Reconnect
  <2>3. op' = "resolve" /\ streambuf' = streambuf
    BY <1>13, <2>2 DEF connect, Begin, Reconnect
  <2>4. "header" \in Ops
    BY DEF Ops, Reads
  <2>5. Current = {<<"header", ec>>} /\ Stages(handlers') = {} /\ req' = req
    BY <2>1, <2>4, HandleStage
  <2>6. Current' = {<<"resolve", "going">>}
    BY <2>3, <2>5 DEF Current
  <2>7. connection # c
    BY <2>2, <2>5 DEF PoolInv
  <2>8. /\ conn'[c].wire = conn[c].wire /\ conn'[c].inbox = conn[c].inbox
        /\ conn'[c].peer = conn[c].peer /\ conn'[c].sending = conn[c].sending
    BY <1>a, <2>2, <2>7, ReplacedConnection
  <2>9. /\ conn[c].wire = <<>> /\ conn[c].inbox = 0 /\ conn[c].peer = FALSE
        /\ conn[c].sending = 0
    BY <2>2 DEF PoolInv, NewConnection
  <2>10. connection' = c
    BY <2>2
  <2>11. /\ Wire' = <<>> /\ conn'[connection'].inbox = 0 /\ conn'[connection'].peer = FALSE
         /\ conn'[connection'].sending = 0
    BY <2>8, <2>9, <2>10 DEF Wire
  <2>12. AnswerIsOwn' /\ <<"resolve", "going">> # <<"header", "ok">>
    BY <2>3, <2>5 DEF WireInv, AnswerIsOwn
  <2>13. QED
    BY <2>6, <2>11, <2>12, WireFresh
<1>14. CASE HeaderReadsOn
  <2>1. /\ Handle("header", "ok") /\ conn' = Rearmed
        /\ UNCHANGED <<connection, streambuf>>
    BY <1>14 DEF HeaderReadsOn
  <2>2. PICK o \in {"body", "rest", "line"} : op' = o
    BY <1>14 DEF HeaderReadsOn, Begin
  <2>3. "header" \in Ops
    BY DEF Ops, Reads
  <2>4. Current = {<<"header", "ok">>} /\ Stages(handlers') = {} /\ req' = req
    BY <2>1, <2>3, HandleStage
  <2>5. Current' = {<<o, "going">>}
    BY <2>2, <2>4 DEF Current
  <2>6. /\ conn'[connection].is_open = conn[connection].is_open
        /\ conn'[connection].wire = conn[connection].wire
        /\ conn'[connection].inbox = conn[connection].inbox
        /\ conn'[connection].peer = conn[connection].peer
        /\ conn'[connection].sending = conn[connection].sending
    BY <1>a, <2>1, RearmedConnection
  <2>7. /\ ~Unwritten(<<o, "going">>) /\ ~Awaiting(<<o, "going">>)
        /\ Reading(<<"header", "ok">>) /\ ~Completed(<<o, "going">>)
        /\ <<o, "going">> # <<"header", "ok">>
    BY DEF Unwritten, Awaiting, Reading, Completed
  <2>8. Wire' = Wire
    BY <2>1, <2>6 DEF Wire
  <2>9. QED
    BY <2>1, <2>4, <2>5, <2>6, <2>7, <2>8, WireMoves
<1>15. CASE HeaderEnds
  BY <1>15, WireHeaderEnds
<1>16. CASE HeaderThrows
  <2>1. /\ Handle("header", "ok") /\ conn' = Rearmed /\ pc' = "threw" /\ op' = "none"
        /\ framing = "bad_length" /\ UNCHANGED <<connection, streambuf>>
    BY <1>16 DEF HeaderThrows
  <2>2. "header" \in Ops
    BY DEF Ops, Reads
  <2>3. Current = {<<"header", "ok">>} /\ Stages(handlers') = {} /\ req' = req
    BY <2>1, <2>2, HandleStage
  <2>4. Current' = {}
    BY <2>1, <2>3 DEF Current
  <2>5. /\ conn'[connection].is_open = conn[connection].is_open
        /\ conn'[connection].wire = conn[connection].wire
        /\ conn'[connection].inbox = conn[connection].inbox
        /\ conn'[connection].peer = conn[connection].peer
        /\ conn'[connection].sending = conn[connection].sending
    BY <1>a, <2>1, RearmedConnection
  <2>6. Answered
    <3>1. Reading(<<"header", "ok">>) /\ StageFits(<<"header", "ok">>)
      BY <2>3 DEF Reading, WireInv
    <3>2. QED
      BY <3>1 DEF StageFits
  <2>7. Wire' = Wire /\ Answered'
    BY <2>1, <2>5, <2>6 DEF Wire, Answered
  <2>8. AnswerIsOwn'
    BY <2>1, <2>3 DEF WireInv, AnswerIsOwn
  <2>9. ChunkInv'
    <3>1. ~Sends(<<"header", "ok">>)
      BY <2>1 DEF Sends, framing
    <3>2. conn[connection].sending = 0
      BY <2>3, <3>1, NotSending DEF WireInv
    <3>3. QED
      BY <2>1, <2>5, <3>2 DEF ChunkInv
  <2>10. QED
    BY <2>1, <2>3, <2>4, <2>5, <2>7, <2>8, <2>9 DEF WireInv
<1>17. CASE Received
  <2>1. PICK o \in {"body", "data"}, ec \in {"ok", "last"} :
          Handle(o, ec) /\ <<o, ec>> \in {<<"body", "ok">>, <<"data", "last">>}
    BY <1>17 DEF Received
  <2>2. callback(conn, "ok") /\ connection' = connection
    BY <1>17 DEF Received
  <2>3. o \in Ops
    BY DEF Ops, Reads
  <2>4. Current = {<<o, ec>>} /\ Stages(handlers') = {} /\ req' = req
    BY <2>1, <2>3, HandleStage
  <2>5. connections = {connection}
    BY <2>4 DEF PoolInv
  <2>6. Current' = {}
    BY <2>2, <2>4 DEF callback, Current
  <2>7. Answered /\ OnlyLeft(Wire) /\ conn[connection].sending = 0
    <3>1. Reading(<<o, ec>>) /\ Completed(<<o, ec>>)
      BY <2>1 DEF Reading, Completed, Reads
    <3>2. StageFits(<<o, ec>>)
      BY <2>4 DEF WireInv
    <3>3. conn[connection].sending = 0
      <4>1. ~Sends(<<o, ec>>)
        BY <3>1 DEF Sends
      <4>2. QED
        BY <2>4, <4>1, NotSending DEF WireInv
    <3>4. QED
      BY <3>1, <3>2, <3>3, EndsAreLeft DEF StageFits
  <2>8. conn[connection].wire = Wire
    BY DEF Wire
  <2>9. QED
    BY <1>a, <2>2, <2>4, <2>5, <2>6, <2>7, <2>8, WireEnds
<1>18. ASSUME NEW c \in Conn, Serve(c) \/ Chunk(c) \/ Close(c) PROVE WireInv'
  BY <1>18, WireServe, WireChunk, WireClose
<1>19. CASE UNCHANGED vars
  <2>1. UNCHANGED <<conn, connection, streambuf, req, op, handlers, pc>>
    BY <1>19 DEF vars
  <2>2. Current' = Current
    BY <2>1 DEF Current
  <2>3. QED
    BY <2>1, <2>2, WireStays
<1>20. QED
  BY <1>1, <1>2, <1>3, <1>4, <1>5, <1>6, <1>7, <1>8, <1>9, <1>10, <1>11, <1>12, <1>13,
     <1>14, <1>15, <1>16, <1>17, <1>18, <1>19 DEF Next, Handler

\* What is on the wire fits the stage the request is at: an answer is there only
\* after it was asked for, and in order.
THEOREM WireHolds == Spec => []WireInv
<1>1. Init => WireInv
  BY WireInit
<1>2. (Types /\ RunInv) /\ (PoolInv /\ SentInv) /\ WireInv /\ [Next]_vars => WireInv'
  BY WireStep
<1>3. QED
  BY <1>1, <1>2, RunHolds, PoolHolds, PTL DEF Spec

\* What a request reads up to the end of the header was sent for this very request,
\* whatever came late, was cut off or was sent again on a kept-alive connection; the
\* exception is the body of an answer that says nothing of its end.
THEOREM AnswersAreOwn == Spec => []AnswerIsOwn
<1>1. WireInv => AnswerIsOwn
  BY DEF WireInv
<1>2. QED
  BY <1>1, WireHolds, PTL

=============================================================================
