----------------------------- MODULE HttpClient -----------------------------
(***************************************************************************)
(* The HTTP client under the transport (externals/http-server-3.0.0,       *)
(* client_http.hpp), as SentryCpp uses it: one thread, the worker, makes   *)
(* synchronous requests one after the other over kept-alive connections.   *)
(* request() starts an asynchronous operation and runs the io_service      *)
(* until no work is left; every completed operation queues a handler, and  *)
(* handlers run one at a time in the order in which they were queued.      *)
(*                                                                         *)
(* A step is the run of one handler, the completion of an operation, the   *)
(* expiry of a timer, or a step of the server.  A byte stream is a         *)
(* sequence of items, each a part of the answer to some request; where a   *)
(* header ends is the end of an item.  Not modelled: a proxy, the limit on *)
(* the size of an answer (it is the largest size_t), stop().               *)
(***************************************************************************)
EXTENDS Integers, Sequences, FiniteSets

CONSTANTS
  Conn,          \* connections that can exist at a time
  MaxRequests,   \* bound: calls of request()
  MaxEndpoints,  \* bound: addresses the host name resolves to
  Framings,      \* how the server marks the end of an answer
  MaxUnread      \* bound: the server sends a chunk while less than this is unread

AllFramings == {"length", "chunked", "bad_chunk", "until_close", "unframed", "bad_length"}

ASSUME HttpClientAssumption ==
  /\ MaxRequests \in Nat
  /\ MaxEndpoints \in Nat \ {0}
  /\ Framings \subseteq AllFramings
  /\ MaxUnread \in Nat

VARIABLES
  connections,   \* the pool
  conn,          \* the state of each connection, with both ends of its socket
  connection,    \* session->connection
  streambuf,     \* of the response: what was read looking for the end of the header
  endpoints,     \* endpoints async_connect has left to try
  op,            \* the asynchronous operation that is under way
  timer,         \* connection->timer is waiting
  handlers,      \* op_queue_ of the io_service
  stopped,       \* stopped_ of the io_service
  pc,            \* where request() is
  result         \* the error_code its callback got

\* History variables: requests made so far (bounded by MaxRequests), and how
\* often the last one was handed to the kernel.
VARIABLES req, sent

vars == <<connections, conn, connection, streambuf, endpoints, op, timer, handlers,
          stopped, pc, result, req, sent>>

-----------------------------------------------------------------------------
Item(r, part, framing) == [req |-> r, part |-> part, framing |-> framing]
Eof == Item(0, "eof", "close")
Reset == Item(0, "reset", "close")
Closing == {Eof, Reset}
Parts == {"start", "header", "body", "line", "data", "last", "bad_line", "eof", "reset"}
Items == [req : 0..MaxRequests, part : Parts, framing : AllFramings \cup {"close"}]

\* The answers the server may give to request r.  Behind the header of a chunked
\* one the chunks follow, as many as the server likes (Chunk).
Answer(r, f) ==
  <<Item(r, "start", f), Item(r, "header", f)>> \o
  CASE f \in {"length", "until_close", "unframed"} -> <<Item(r, "body", f)>>
    [] f = "bad_chunk" -> <<Item(r, "bad_line", f)>>
    [] f \in {"chunked", "bad_length"} -> <<>>

\* wire: what the client has not read yet; inbox: the request the server has
\* not read yet; sending: the request whose chunks the server has not all sent;
\* peer: the server has not closed its end.
NewConnection == [in_use |-> FALSE, attempt_reconnect |-> TRUE, is_open |-> FALSE,
                  wire |-> <<>>, inbox |-> 0, sending |-> 0, peer |-> FALSE]

Init ==
  /\ connections = {}
  /\ conn = [c \in Conn |-> NewConnection]
  /\ connection \in Conn
  /\ streambuf = <<>>
  /\ endpoints = 0
  /\ op = "none"
  /\ timer = FALSE
  /\ handlers = <<>>
  /\ stopped = FALSE
  /\ pc = "idle"
  /\ result = "none"
  /\ req = 0
  /\ sent = 0

-----------------------------------------------------------------------------
(***************************************************************************)
(* Parts of the handlers.                                                  *)
(***************************************************************************)
\* Mutant of Begin: no set_timeout.
BeginUntimed(o) == op' = o /\ timer' = FALSE

\* set_timeout, then an asynchronous operation.
Begin(o) == op' = o /\ timer' = TRUE

\* connect: a kept-alive connection is written to at once.
connect(open) == Begin(IF open THEN "write" ELSE "resolve")

\* Mutant of Broken: a connection that failed stays in the pool if it is open.
BrokenIfClosed(ec) == IF conn[connection].is_open THEN {} ELSE {connection}

Broken(ec) == IF ec = "ok" THEN {} ELSE {connection}

\* session->callback: a connection that failed leaves the pool, and of those
\* that are idle now one stays.
callback(cs, ec) ==
  /\ LET idle == {c \in connections \ Broken(ec) : c = connection \/ ~cs[c].in_use} IN
     \E spare \in IF idle = {} THEN {{}} ELSE {idle \ {c} : c \in idle} :
       /\ connections' = connections \ (Broken(ec) \cup spare)
       /\ conn' = [c \in Conn |->
            IF c \in Broken(ec) \cup spare THEN NewConnection
            ELSE IF c = connection THEN [cs[c] EXCEPT !.in_use = FALSE] ELSE cs[c]]
  /\ result' = ec
  /\ streambuf' = <<>>
  /\ op' = "none"
  /\ timer' = FALSE

-----------------------------------------------------------------------------
(***************************************************************************)
(* request(): get_connection, connect, and io_service->run().              *)
(***************************************************************************)
Request ==
  /\ pc = "idle"
  /\ req < MaxRequests
  /\ req' = req + 1
  /\ pc' = "run"
  /\ result' = "none" /\ sent' = 0
  /\ LET idle == {c \in connections : ~conn[c].in_use} IN
     \E c \in IF idle # {} THEN idle ELSE Conn \ connections :
       /\ connection' = c
       /\ connections' = connections \cup {c}
       /\ conn' = [conn EXCEPT ![c].attempt_reconnect = TRUE, ![c].in_use = TRUE]
       /\ connect(conn[c].is_open)
  /\ UNCHANGED <<streambuf, endpoints, handlers, stopped>>

\* Mutant of StoppedAfterRun: io_service->reset() left out.
StoppedForGood == TRUE

\* run() leaves the io_service stopped, and reset() makes it usable again.
StoppedAfterRun == FALSE

\* run() returns when no operation, timer or handler is left, and at once if
\* the io_service is stopped.
Return ==
  /\ pc = "run"
  /\ stopped \/ (op = "none" /\ ~timer /\ handlers = <<>>)
  /\ stopped' = StoppedAfterRun
  /\ pc' = "idle"
  /\ UNCHANGED <<connections, conn, connection, streambuf, endpoints, op, timer,
                 handlers, result, req, sent>>

-----------------------------------------------------------------------------
(***************************************************************************)
(* The reactor: an operation completes, a timer expires.                   *)
(***************************************************************************)
Done(o, ec) == [op |-> o, ec |-> ec, conn |-> connection]

Complete(ec) ==
  /\ op' = "none"
  /\ handlers' = Append(handlers, Done(op, ec))

\* getaddrinfo takes its time: the timer cancels the socket, not the resolver.
Resolved ==
  /\ op = "resolve"
  /\ \E ec \in {"ok", "host_not_found"} : Complete(ec)
  /\ UNCHANGED <<connections, conn, connection, streambuf, endpoints, timer, stopped,
                 pc, result, req, sent>>

Connected ==
  /\ op = "connect"
  /\ Complete("ok")
  /\ endpoints' = 0
  /\ conn' = [conn EXCEPT ![connection].is_open = TRUE, ![connection].peer = TRUE]
  /\ UNCHANGED <<connections, connection, streambuf, timer, stopped, pc, result, req, sent>>

\* async_connect goes on to the next endpoint after any error, a cancellation
\* included, and no timer is set for that.
NotConnected ==
  /\ op = "connect"
  /\ endpoints' = endpoints - 1
  /\ IF endpoints > 1 THEN UNCHANGED <<op, handlers>> ELSE Complete("refused")
  /\ UNCHANGED <<connections, conn, connection, streambuf, timer, stopped, pc,
                 result, req, sent>>

\* A write succeeds as soon as the kernel has the bytes.
Written ==
  /\ op = "write"
  /\ \/ /\ Complete("ok")
        /\ sent' = sent + 1
        /\ conn' = IF conn[connection].peer THEN [conn EXCEPT ![connection].inbox = req]
                                            ELSE conn
     \/ /\ Complete("broken_pipe")
        /\ UNCHANGED <<conn, sent>>
  /\ UNCHANGED <<connections, connection, streambuf, endpoints, timer, stopped, pc,
                 result, req>>

Reads == {"header", "body", "rest", "line", "data"}
Ops == {"resolve", "connect", "write"} \cup Reads

With(w, n) == {m \in {n + 1} \cap DOMAIN w : op = "header" /\ w[m].part = "body"}

EndsRead(item) ==
  \/ item \in Closing
  \/ op = "header" /\ item.part = "header"
  \/ op = "body" /\ item.part = "body"
  \/ op = "line" /\ item.part \in {"line", "bad_line"}
  \/ op = "data" /\ item.part \in {"data", "last"}

\* The first item on the wire that ends the read has arrived.  What comes
\* before it is read as well, and with a header perhaps the body behind it;
\* that the connection is closed stays readable.
Readable ==
  /\ op \in Reads
  /\ LET w == conn[connection].wire IN
     \E n \in DOMAIN w :
       \E taken \in IF w[n] \in Closing THEN {n - 1} ELSE {n} \cup With(w, n) :
       /\ EndsRead(w[n])
       /\ \A i \in 1..(n - 1) : ~EndsRead(w[i])
       /\ conn' = [conn EXCEPT ![connection].wire = SubSeq(w, taken + 1, Len(w))]
       /\ streambuf' = IF op = "header" THEN streambuf \o SubSeq(w, 1, taken) ELSE streambuf
       /\ Complete(IF w[n].part \in {"eof", "reset", "last", "bad_line"}
                   THEN w[n].part ELSE "ok")
  /\ UNCHANGED <<connections, connection, endpoints, timer, stopped, pc, result, req, sent>>

Expire ==
  /\ timer
  /\ timer' = FALSE
  /\ handlers' = Append(handlers, Done("timer", "ok"))
  /\ UNCHANGED <<connections, conn, connection, streambuf, endpoints, op, stopped, pc,
                 result, req, sent>>

-----------------------------------------------------------------------------
(***************************************************************************)
(* The handlers.  The one of a timer cancels what its connection's socket  *)
(* does now, which need not be what the timer was set for.  All others     *)
(* begin with cancel_timeout; a timer whose handler is queued already is   *)
(* not stopped by it.                                                      *)
(***************************************************************************)
Runs(o) == /\ pc = "run" /\ ~stopped
           /\ handlers # <<>> /\ Head(handlers).op = o

\* Mutant of Cancellable: whether something is under way is not looked at.
CancellableAlways == op # "resolve"

Cancellable == op \notin {"none", "resolve"}

TimerHandler ==
  /\ Runs("timer")
  /\ LET cancels == Head(handlers).conn = connection /\ Cancellable
         next == cancels /\ op = "connect" /\ endpoints > 1
     IN  /\ endpoints' = IF next THEN endpoints - 1 ELSE endpoints
         /\ op' = IF cancels /\ ~next THEN "none" ELSE op
         /\ handlers' = Tail(handlers) \o
                        (IF cancels /\ ~next THEN <<Done(op, "aborted")>> ELSE <<>>)
  /\ UNCHANGED <<connections, conn, connection, streambuf, timer, stopped, pc,
                 result, req, sent>>

Handle(o, ec) ==
  /\ Runs(o) /\ Head(handlers).ec = ec
  /\ handlers' = Tail(handlers)
  /\ UNCHANGED <<stopped, req, sent>>

\* Mutant of MayReconnect: attempt_reconnect is not looked at.
ReconnectAlways(ec) == ec # "aborted"

MayReconnect(ec) == conn[connection].attempt_reconnect /\ ec # "aborted"

\* An error ends the request, but for a connection that broke while a header
\* was read and that may be replaced.  An answer may end with its connection.
Failed ==
  /\ \E o \in Ops,
        ec \in {"host_not_found", "refused", "broken_pipe", "eof", "reset", "aborted",
                "bad_line"} :
       /\ Handle(o, ec)
       /\ o = "header" => ~MayReconnect(ec)
       /\ callback(conn, IF o = "rest" /\ ec = "eof" THEN "ok" ELSE ec)
  /\ endpoints' = 0
  /\ UNCHANGED <<connection, pc>>

ResolveHandler ==
  /\ Handle("resolve", "ok")
  /\ endpoints' \in 1..MaxEndpoints
  /\ Begin("connect")
  /\ UNCHANGED <<connections, conn, connection, streambuf, pc, result>>

\* The handlers that only begin the next operation: a chunk is a line with
\* its length, then its data, and the last chunk is empty.  Each of these reads
\* has a timer of its own.
Continue ==
  /\ \/ Handle("connect", "ok") /\ Begin("write")
     \/ Handle("write", "ok") /\ Begin("header")
     \/ Handle("line", "ok") /\ Begin("data")
     \/ Handle("data", "ok") /\ Begin("line")
  /\ UNCHANGED <<connections, conn, connection, streambuf, endpoints, pc, result>>

\* Mutant of Replaced: connections.erase left out.
Joined(c) == connections \cup {c}

Replaced(c) == (connections \ {connection}) \cup {c}

\* The connection broke before the header was complete: a new one takes its
\* place in the pool and the whole request is sent again.  What was read of
\* the first answer stays in streambuf.
Reconnect ==
  /\ \E ec \in {"eof", "reset"} : Handle("header", ec) /\ MayReconnect(ec)
  /\ \E c \in Conn \ connections :
       /\ connections' = Replaced(c)
       /\ connection' = c
       /\ conn' = [conn EXCEPT ![connection] = NewConnection,
                               ![c].attempt_reconnect = FALSE, ![c].in_use = TRUE]
       /\ connect(FALSE)
  /\ UNCHANGED <<streambuf, endpoints, pc, result>>

\* What the header says of the body.  Bytes left over from another answer may
\* fail to parse.  A length that what was read already covers needs no further
\* read; one that is no number makes stoull throw through run(), and neither
\* request() nor sendPost catches that.
framing == streambuf[Len(streambuf)].framing
Covered == framing = "length" /\ streambuf[Len(streambuf)].part = "body"
LeftOver == streambuf[1].part # "start" \/ streambuf[2].part # "header"
Rearmed == [conn EXCEPT ![connection].attempt_reconnect = TRUE]

HeaderReadsOn ==
  /\ Handle("header", "ok")
  /\ framing \in {"length", "chunked", "bad_chunk", "until_close"} /\ ~Covered
  /\ Begin(CASE framing = "length" -> "body"
             [] framing = "until_close" -> "rest"
             [] OTHER -> "line")
  /\ conn' = Rearmed
  /\ UNCHANGED <<connections, connection, streambuf, endpoints, pc, result>>

HeaderEnds ==
  /\ Handle("header", "ok")
  /\ \/ LeftOver /\ callback(Rearmed, "protocol_error")
     \/ (framing = "unframed" \/ Covered) /\ callback(Rearmed, "ok")
  /\ UNCHANGED <<connection, endpoints, pc>>

HeaderThrows ==
  /\ Handle("header", "ok")
  /\ framing = "bad_length"
  /\ pc' = "threw"
  /\ op' = "none" /\ timer' = FALSE
  /\ conn' = Rearmed
  /\ UNCHANGED <<connections, connection, streambuf, endpoints, result>>

\* The read that completes an answer.
Received ==
  /\ Handle("body", "ok") \/ Handle("data", "last")
  /\ callback(conn, "ok")
  /\ UNCHANGED <<connection, endpoints, pc>>

Handler ==
  \/ TimerHandler \/ Failed
  \/ ResolveHandler \/ Continue \/ Reconnect
  \/ HeaderReadsOn \/ HeaderEnds \/ HeaderThrows \/ Received

-----------------------------------------------------------------------------
(***************************************************************************)
(* The server (external).  It takes a request and sends an answer, perhaps *)
(* only its beginning; it closes a connection whenever it likes.           *)
(***************************************************************************)
Serve(c) ==
  /\ conn[c].peer /\ conn[c].inbox # 0
  /\ \E f \in Framings :
       LET a == Answer(conn[c].inbox, f) IN
       \E n \in {0, 1, 2, Len(a)} :
         conn' = [conn EXCEPT
                    ![c].inbox = 0, ![c].wire = @ \o SubSeq(a, 1, n),
                    ![c].sending = IF f = "chunked" /\ n = 2 THEN conn[c].inbox ELSE 0]
  /\ UNCHANGED <<connections, connection, streambuf, endpoints, op, timer, handlers,
                 stopped, pc, result, req, sent>>

\* One more chunk, with data or the last one, or the server sends the line of one
\* and then nothing more.
Chunk(c) ==
  /\ conn[c].peer /\ conn[c].sending # 0
  /\ Len(conn[c].wire) < MaxUnread
  /\ LET r == conn[c].sending
         begun == Append(conn[c].wire, Item(r, "line", "chunked"))
     IN  \/ conn' = [conn EXCEPT ![c].wire = Append(begun, Item(r, "data", "chunked"))]
         \/ \E w \in {begun, Append(begun, Item(r, "last", "chunked"))} :
              conn' = [conn EXCEPT ![c].wire = w, ![c].sending = 0]
  /\ UNCHANGED <<connections, connection, streambuf, endpoints, op, timer, handlers,
                 stopped, pc, result, req, sent>>

Close(c) ==
  /\ conn[c].peer
  /\ \E end \in Closing :
       conn' = [conn EXCEPT ![c].peer = FALSE, ![c].sending = 0, ![c].wire = Append(@, end)]
  /\ UNCHANGED <<connections, connection, streambuf, endpoints, op, timer, handlers,
                 stopped, pc, result, req, sent>>

Next ==
  \/ Request \/ Return
  \/ Resolved \/ Connected \/ NotConnected \/ Written \/ Readable \/ Expire
  \/ Handler
  \/ \E c \in Conn : Serve(c) \/ Chunk(c) \/ Close(c)

Spec == Init /\ [][Next]_vars

\* The thread runs, a timer expires unless the operation that it was set for
\* completes before, and the resolver and the kernel's attempts to connect come to
\* an end.  The server owes nothing.
Fairness ==
  /\ WF_vars(Handler) /\ WF_vars(Return) /\ WF_vars(op # "none" /\ Expire)
  /\ WF_vars(Resolved) /\ WF_vars(Connected \/ NotConnected)

FairSpec == Spec /\ Fairness

-----------------------------------------------------------------------------
(***************************************************************************)
(* Properties.                                                             *)
(***************************************************************************)
ErrorCodes == {"none", "ok", "host_not_found", "refused", "broken_pipe", "eof", "reset",
               "aborted", "bad_line", "protocol_error"}

TypeOK ==
  /\ connections \subseteq Conn /\ connection \in Conn
  /\ conn \in [Conn -> [in_use : BOOLEAN, attempt_reconnect : BOOLEAN, is_open : BOOLEAN,
                        wire : Seq(Items), inbox : 0..MaxRequests,
                        sending : 0..MaxRequests, peer : BOOLEAN]]
  /\ streambuf \in Seq(Items)
  /\ endpoints \in 0..MaxEndpoints
  /\ op \in Ops \cup {"none"}
  /\ \A i \in DOMAIN handlers : handlers[i].op \in Ops \cup {"timer"}
  /\ timer \in BOOLEAN /\ stopped \in BOOLEAN
  /\ pc \in {"idle", "run", "threw"}
  /\ result \in ErrorCodes
  /\ req \in 0..MaxRequests /\ sent \in Nat

\* What a request reads as the header of its answer was sent for this very
\* request; on a kept-alive connection nothing of an earlier answer, late or
\* cut off, is taken for it.  The exception is an answer whose end the client
\* cannot see: it looks for "Session: close" where HTTP/1.1 has "Connection:
\* close", and keeps a connection with the body still on it.
AnswerIsOwn ==
  \A i \in DOMAIN streambuf : streambuf[i].req = req \/ streambuf[i].framing = "unframed"

\* One request() is sent at most twice, whatever breaks.
AtMostTwice == sent <= 2

\* Between requests the pool holds at most one connection, which can be used:
\* neither an error nor sending again leaks one.
PoolIsClean == pc = "idle" => /\ Cardinality(connections) <= 1
                              /\ \A c \in connections : ~conn[c].in_use /\ conn[c].is_open

\* request() returns after its callback, so that sendPost gets a response or an
\* exception, and leaves no timer behind that could cancel the next request.
ReturnsWithResult ==
  pc = "idle" /\ req > 0 => result # "none" /\ op = "none" /\ ~timer /\ handlers = <<>>

\* client_http.hpp: "Set timeout on requests": with one, request() returns or
\* throws.
RequestReturns == pc = "run" ~> pc # "run"

\* What the timers do guarantee, although each is set for one read, one may cancel
\* the operation after its own, and none covers the resolver or the second address:
\* request() returns or throws, unless the server sends chunk after chunk for ever.
ReturnsUnlessFed == RequestReturns \/ []<><<\E c \in Conn : Chunk(c)>>_vars
=============================================================================
