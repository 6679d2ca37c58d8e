---------------------------- MODULE CrashProofs ----------------------------
(***************************************************************************)
(* Proofs about CrashHandlers, for any number of threads, signals, events  *)
(* and causes, and wherever signals strike.                                *)
(***************************************************************************)
EXTENDS CrashHandlers, TransportProofs

USE DEF Initialised, Accepting, Enqueue, Drained, NothingToSend, Dequeue, MayRetry,
        TimeAfterError, StateAfterError, Unlocked, Closed, Raised

-----------------------------------------------------------------------------
(***************************************************************************)
(* The handlers use the transport as its other threads do.                 *)
(***************************************************************************)
LEMMA HandlersAreThreads ==
  /\ Handlers \subseteq Threads /\ App \subseteq Threads /\ Main \in App
  /\ SIGABRT \in Handlers /\ SIGSEGV \in Handlers /\ Signals \subseteq Handlers
  /\ \A b \in Bases : terminate[b] \in Handlers
  /\ Report \in [Handlers -> Events]
  /\ AppEvents \subseteq Events /\ \A h \in Handlers : Report[h] \notin AppEvents
  /\ \A g, h \in Handlers : Report[g] = Report[h] => g = h
  /\ App \cap Handlers = {} /\ WorkerThread \notin Threads /\ Nobody \notin Threads
  /\ Threads = App \cup Handlers /\ Bases = App \cup {WorkerThread}
  BY CrashAssumption DEF Handlers, Terminators, AppEvents, Bases, Contexts

LEMMA CrashStep == CrashNext => [Next]_vars
<1> SUFFICES ASSUME CrashNext PROVE Next \/ UNCHANGED vars
  OBVIOUS
<1> USE HandlersAreThreads
<1>1. CASE Setup \/ TimePasses \/ Over
  BY <1>1 DEF Setup, TimePasses, Over, crashVars, Next
<1>2. ASSUME NEW b \in Bases, NEW c \in Contexts, LockQueue(b, c)
      PROVE  UNCHANGED vars
  BY <1>2 DEF LockQueue
<1>3. ASSUME NEW b \in Bases, NEW c \in Threads,
             PushLocked(b, c) \/ UnlockScope(b, c) \/ LockScope(b, c)
      PROVE  Next \/ UNCHANGED vars
  BY <1>3 DEF PushLocked, UnlockScope, LockScope, Next
<1>4. ASSUME NEW b \in Bases, NEW h \in Handlers, Handle(b, h)
      PROVE  Next \/ UNCHANGED vars
  <2>1. CASE GetStacktrace(b, h) \/ HandlerThrows(b, h) \/ HandlerEnds(b, h)
    BY <2>1 DEF GetStacktrace, HandlerThrows, HandlerEnds
  <2>2. CASE HandlerCapture(b, h)
    <3>1. SendEvent(h, Report[h]) /\ Report[h] \in Events
      BY <2>2 DEF HandlerCapture
    <3> QED BY <3>1 DEF Next
  <2>3. CASE HandlerClose(b, h)
    <3>1. Stop(h, b = WorkerThread) \/ Join(h)
      BY <2>3 DEF HandlerClose
    <3>2. CASE Join(h)
      BY <3>2 DEF Next
    <3>3. CASE Stop(h, b = WorkerThread)
      <4>1. (b = WorkerThread) \in BOOLEAN
        OBVIOUS
      <4> QED BY <3>3, <4>1, Zenon DEF Next
    <3> QED BY <3>1, <3>2, <3>3
  <2> QED BY <1>4, <2>1, <2>2, <2>3 DEF Handle
<1>5. CASE WorkerStep
  BY <1>5 DEF WorkerStep, Next
<1>6. CASE Exited
  BY <1>6 DEF Exited, Next
<1>7. ASSUME NEW b \in Bases, NEW s \in Signals, Signal(s, b)
      PROVE  UNCHANGED vars
  BY <1>7 DEF Signal
<1>8. ASSUME NEW t \in App, NEW isStd \in BOOLEAN, Exception(t, isStd)
      PROVE  UNCHANGED vars
  BY <1>8 DEF Exception
<1>9. ASSUME NEW t \in App, NEW e \in AppEvents, CaptureEvent(t, e)
      PROVE  Next
  BY <1>9 DEF CaptureEvent, Next
<1>10. CASE Exit
  <2>1. Stop(Main, FALSE) /\ FALSE \in BOOLEAN
    BY <1>10 DEF Exit
  <2> QED BY <2>1, Zenon DEF Next
<1>11. CASE WorkerThrows
  BY <1>11 DEF WorkerThrows, Next, Worker
<1>12. ASSUME NEW h \in Signals, HandlerSwallowed(h)
       PROVE  Next
  BY <1>12 DEF HandlerSwallowed, Next, Worker
<1> QED BY <1>1, <1>2, <1>3, <1>4, <1>5, <1>6, <1>7, <1>8, <1>9, <1>10, <1>11, <1>12
        DEF CrashNext, Proceeds

\* Whatever signals strike and wherever they do, what the handlers do to the
\* transport is what threads may do to it: every behaviour with crashes is one
\* of Transport, and what is proved of Transport holds in it.
THEOREM CrashIsTransport == CrashSpec => Spec
<1>1. CrashInit => Init
  BY DEF CrashInit
<1>2. [CrashNext]_crashVars => [Next]_vars
  BY CrashStep DEF crashVars
<1> QED BY <1>1, <1>2, PTL DEF CrashSpec, Spec
-----------------------------------------------------------------------------
(***************************************************************************)
(* The report of one crash is settled.  The inductive invariant.           *)
(***************************************************************************)
CrashTypes ==
  /\ stack \in [Bases -> Seq(Handlers)]
  /\ hpc \in [Handlers -> {"off", "trace", "capture", "crumb", "close", "abort"}]
  /\ dead \in BOOLEAN
  /\ causes \in Seq(Bases)

\* Whatever strikes: a handler captures its own report and nobody else does,
\* once; the worker drains and leaves only after stop().
ReportInv ==
  /\ \A h \in Handlers :
       /\ hpc[h] \in {"off", "trace", "capture"} => Fresh(Report[h])
       /\ hpc[h] \in {"crumb", "close"} \/ scopeMutex = h \/ apc[h] # "idle"
            => ~Fresh(Report[h])
  /\ \A c \in Threads : apc[c] = "push" =>
       IF c \in Handlers THEN arg[c] = Report[c] ELSE arg[c] \in AppEvents
  /\ \A e \in Events : ticket[e] <= arrived
  /\ wpc \in {"drain", "exited"} \/ loop = "drain" => m_shouldStop
  /\ \A c \in Threads : apc[c] = "stopped" => wpc = "exited"

\* Nothing has struck yet.
Peace ==
  /\ ~dead /\ ~m_shouldStop /\ joiner = {}
  /\ \A b \in Bases : stack[b] = <<>>
  /\ \A h \in Handlers : hpc[h] = "off"
  /\ \A c \in Threads : apc[c] \in {"idle", "push"}

PeaceInv == Len(causes) = 0 => Peace

\* One thing struck, the application thread t.
Single(t) == Len(causes) = 1 /\ causes[1] = t

\* The handlers are all on t.  One that has a report queued, or stops the
\* transport, is on top, unless the worker has left, with everything settled
\* that was queued before a report.
SingleInvOf(t) ==
  /\ \A b \in Bases : b # t => stack[b] = <<>>
  /\ \A c \in App : apc[c] \notin {"idle", "push"} => c = t
  /\ m_shouldStop => joiner # {} /\ \A h \in Handlers : apc[h] # "push"
  /\ \A h \in Handlers : Queued(h) \/ apc[h] = "push" => h = Top(t) \/ wpc = "exited"
  /\ \A j \in joiner : apc[j] = "stopped" \/ (apc[j] = "join" /\ j = Top(t))
  /\ \A c \in Threads : apc[c] = "threw" => wpc = "exited"
  /\ \A h \in Handlers : dead /\ Queued(h) => wpc = "exited"
  /\ wpc = "exited" =>
       \A h \in Handlers, e \in Events :
         Queued(h) /\ 0 < ticket[e] /\ ticket[e] <= ticket[Report[h]]
           => outcome[e] # "none"

SingleInv == \A t \in App : Single(t) => SingleInvOf(t)

CrashInv == CrashTypes /\ ReportInv /\ PeaceInv /\ SingleInv

-----------------------------------------------------------------------------
\* A handler may have come onto the stack of b.
Risen(b) ==
  /\ stack' \in [Bases -> Seq(Handlers)]
  /\ hpc' \in [Handlers -> {"off", "trace", "capture", "crumb", "close", "abort"}]
  /\ dead' \in BOOLEAN
  /\ \A c \in Bases : c # b => stack'[c] = stack[c]
  /\ \A h \in Handlers :
       \/ hpc'[h] = hpc[h] \/ hpc'[h] = "abort"
       \/ hpc'[h] = "trace" /\ (hpc[h] = "off" \/ Fresh(Report[h]))

LEMMA BeginRises ==
  ASSUME CrashTypes, NEW b \in Bases, NEW h \in Handlers, Begin(b, h)
  PROVE  Risen(b)
<1>1. Append(stack[b], h) \in Seq(Handlers)
  BY DEF CrashTypes
<1>2. CASE hpc[h] = "off"
  BY <1>1, <1>2 DEF CrashTypes, Begin, Risen
<1>3. CASE hpc[h] # "off"
  BY <1>3 DEF CrashTypes, Begin, Risen
<1> QED BY <1>2, <1>3

LEMMA AbortRises ==
  ASSUME CrashTypes, NEW b \in Bases, Abort(b)
  PROVE  Risen(b)
<1> DEFINE t == terminate[b]
<1>0. SIGABRT \in Handlers /\ t \in Handlers
  BY HandlersAreThreads
<1>1. Append(stack[b], SIGABRT) \in Seq(Handlers)
  BY <1>0 DEF CrashTypes
<1>2. CASE hpc[SIGABRT] = "off"
  <2>1. /\ hpc' = [hpc EXCEPT ![SIGABRT] = "trace", ![t] = "abort"]
        /\ stack' = [stack EXCEPT ![b] = Append(@, SIGABRT)] /\ dead' = dead
    BY <1>2 DEF Abort
  <2>2. hpc' \in [Handlers -> {"off", "trace", "capture", "crumb", "close", "abort"}]
    BY <1>0, <2>1 DEF CrashTypes
  <2>3. \A h \in Handlers : hpc'[h] = IF h = t THEN "abort"
                                      ELSE IF h = SIGABRT THEN "trace" ELSE hpc[h]
    BY <1>0, <2>1 DEF CrashTypes
  <2>4. stack' \in [Bases -> Seq(Handlers)] /\ \A c \in Bases : c # b => stack'[c] = stack[c]
    BY <1>1, <2>1 DEF CrashTypes
  <2> QED BY <1>2, <2>1, <2>2, <2>3, <2>4 DEF CrashTypes, Risen
<1>3. CASE hpc[SIGABRT] # "off"
  BY <1>3 DEF CrashTypes, Abort, Risen
<1> QED BY <1>2, <1>3

LEMMA EscapeRises ==
  ASSUME CrashTypes, NEW b \in Bases, Escape(b)
  PROVE  Risen(b)
<1> DEFINE t == terminate[b]
<1>1. t \in Handlers /\ <<t>> \in Seq(Handlers)
  BY HandlersAreThreads
<1>2. CASE hpc[t] = "off"
  BY <1>1, <1>2, BeginRises DEF Escape
<1>3. CASE hpc[t] # "off" /\ Top(b) = SIGABRT /\ hpc[t] = "abort" /\ Fresh(Report[t])
  BY <1>1, <1>3 DEF CrashTypes, Escape, Risen
<1>4. CASE /\ hpc[t] # "off"
           /\ ~(Top(b) = SIGABRT /\ hpc[t] = "abort" /\ Fresh(Report[t]))
  BY <1>4, AbortRises DEF Escape
<1> QED BY <1>2, <1>3, <1>4

-----------------------------------------------------------------------------
\* What the worker does to what the threads and the handlers look at.
LEMMA WorkerEffect ==
  ASSUME IndInv, Worker
  PROVE  /\ UNCHANGED <<threadVars, ticket, arrived>>
         /\ wpc # "exited"
         /\ wpc' = "exited" => wpc = "drain" /\ m_tasks = <<>> /\ task = NoTask
                               /\ outcome' = outcome
         /\ (wpc' \in {"drain", "exited"} \/ loop' = "drain") =>
              m_shouldStop \/ wpc \in {"drain", "exited"} \/ loop = "drain"
         /\ \A e \in Events : outcome'[e] = outcome[e] \/ ticket[e] > 0
<1>1. TypeOK /\ SlotsOK /\ OnePlace
  BY DEF IndInv, TypeInv, PlaceInv
<1>2. CASE RunLoop \/ DrainLoop
  BY <1>1, <1>2 DEF RunLoop, DrainLoop, history, SlotsOK
<1>3. CASE PerformNoConnection \/ PerformSendEvents \/ PerformDropEvents
  BY <1>1, <1>3 DEF PerformNoConnection, PerformSendEvents, PerformDropEvents, history, TypeOK
<1>4. CASE Pop
  BY <1>4 DEF Pop
<1>5. ASSUME wpc = "post" PROVE task.event \in Events /\ ticket[task.event] > 0
  BY <1>1, <1>5 DEF SlotsOK, Task, OnePlace, InHand
<1>6. CASE PostOk \/ PostTooManyRequests \/ PostBadRetryAfter \/ PostError
  <2>1. \A e \in Events : outcome'[e] = outcome[e] \/ e = task.event
    BY <1>1, <1>6 DEF PostOk, PostTooManyRequests, PostBadRetryAfter, PostError, Settle, TypeOK
  <2> QED
    BY <1>1, <1>5, <1>6, <2>1
    DEF PostOk, PostTooManyRequests, PostBadRetryAfter, PostError, Settle, TypeOK
<1>7. CASE PostRejected
  <2>1. \A e \in Events : outcome'[e] = outcome[e] \/ e = task.event
    BY <1>1, <1>7 DEF PostRejected, TypeOK
  <2> QED BY <1>1, <1>5, <1>7, <2>1 DEF PostRejected, TypeOK
<1>8. CASE PushRetry
  BY <1>1, <1>8 DEF PushRetry, history, TypeOK
<1> QED BY <1>2, <1>3, <1>4, <1>6, <1>7, <1>8 DEF Worker

-----------------------------------------------------------------------------
(***************************************************************************)
(* ReportInv.                                                              *)
(***************************************************************************)
\* What a step may do to the handlers, other than capturing a report.
HandlersMoved ==
  \A h \in Handlers :
    /\ hpc'[h] \in {"off", "trace", "capture"} =>
         hpc[h] \in {"off", "trace", "capture"} \/ Fresh(Report[h])
    /\ hpc'[h] \in {"crumb", "close"} \/ scopeMutex' = h =>
         hpc[h] \in {"crumb", "close"} \/ scopeMutex = h

LEMMA ReportKept ==
  ASSUME ReportInv, HandlersMoved,
         UNCHANGED <<apc, arg, ticket, arrived>>, m_shouldStop => m_shouldStop',
         \A e \in Events : Fresh(e)' <=> Fresh(e),
         (wpc' \in {"drain", "exited"} \/ loop' = "drain") =>
           m_shouldStop \/ wpc \in {"drain", "exited"} \/ loop = "drain",
         wpc = "exited" => wpc' = "exited"
  PROVE  ReportInv'
<1>1. \A h \in Handlers : Report[h] \in Events
  BY HandlersAreThreads
<1> QED BY <1>1 DEF ReportInv, HandlersMoved

\* A step that leaves the transport alone.
LEMMA ReportUnmoved ==
  ASSUME ReportInv, HandlersMoved, UNCHANGED vars
  PROVE  ReportInv'
<1>1. UNCHANGED <<apc, arg, ticket, arrived, m_shouldStop, wpc, loop, outcome>>
  BY DEF vars, workerVars, threadVars, history
<1>2. \A e \in Events : Fresh(e)' <=> Fresh(e)
  BY <1>1 DEF Fresh
<1> QED BY <1>1, <1>2, ReportKept

LEMMA RisenMoves ==
  ASSUME NEW b \in Bases, Risen(b), UNCHANGED scopeMutex
  PROVE  HandlersMoved
  BY DEF Risen, HandlersMoved

LEMMA ReportWorker ==
  ASSUME IndInv, ReportInv, HandlersMoved, Worker
  PROVE  ReportInv'
<1>1. \A e \in Events : Fresh(e)' <=> Fresh(e)
  BY WorkerEffect DEF Fresh, threadVars
<1> QED BY <1>1, WorkerEffect, ReportKept DEF threadVars

LEMMA ReportPush ==
  ASSUME IndInv, ReportInv, HandlersMoved, NEW c \in Threads, Push(c)
  PROVE  ReportInv'
<1>1. /\ TypeOK /\ arg[c] \in Events /\ apc[c] = "push"
  BY DEF IndInv, TypeInv, SlotsOK, Push
<1>2. /\ apc' = [apc EXCEPT ![c] = "idle"] /\ arg' = [arg EXCEPT ![c] = NoEvent]
      /\ ticket' = [ticket EXCEPT ![arg[c]] = arrived + 1] /\ arrived' = arrived + 1
      /\ UNCHANGED <<wpc, loop, m_shouldStop, outcome>>
  BY DEF Push, workerVars
<1>3. \A e \in Events : Fresh(e)' <=> Fresh(e)
  <2>1. TAKE e \in Events
  <2>2. CASE e = arg[c]
    BY <1>1, <1>2, <2>2 DEF Fresh, TypeOK
  <2>3. CASE e # arg[c]
    BY <1>1, <1>2, <2>3, TransportAssumption DEF Fresh, TypeOK
  <2> QED BY <2>2, <2>3
<1>4. \A h \in Handlers : Report[h] \in Events
  BY HandlersAreThreads
<1>5. \A e \in Events : ticket'[e] <= arrived'
  BY <1>1, <1>2 DEF ReportInv, TypeOK
<1>6. \A d \in Threads : apc'[d] # "idle" => apc'[d] = apc[d] /\ arg'[d] = arg[d]
  BY <1>1, <1>2 DEF TypeOK
<1> QED BY <1>2, <1>3, <1>4, <1>5, <1>6, HandlersAreThreads DEF ReportInv, HandlersMoved

\* A thread captures an event, a handler its own report.
LEMMA ReportSend ==
  ASSUME IndInv, ReportInv, NEW c \in Threads, NEW e \in Events, SendEvent(c, e),
         scopeMutex' = scopeMutex,
         IF c \in Handlers THEN /\ e = Report[c] /\ hpc[c] = "capture"
                                /\ hpc' = [hpc EXCEPT ![c] = "crumb"]
                           ELSE /\ e \in AppEvents /\ hpc' = hpc,
         CrashTypes
  PROVE  ReportInv'
<1>1. TypeOK /\ Fresh(e)
  BY DEF IndInv, TypeInv, SendEvent
<1>2. UNCHANGED <<wpc, loop, m_shouldStop, ticket, arrived>>
  BY DEF SendEvent, workerVars
<1>3. ~Fresh(e)'
  <2>1. CASE m_shouldStop
    BY <1>1, <2>1 DEF SendEvent, Fresh, TypeOK
  <2>2. CASE ~m_shouldStop
    BY <1>1, <2>2 DEF SendEvent, Fresh, TypeOK
  <2> QED BY <2>1, <2>2
<1>4. \A x \in Events : x # e => (Fresh(x)' <=> Fresh(x))
  <2>1. CASE m_shouldStop
    BY <1>1, <1>2, <2>1 DEF SendEvent, Fresh, TypeOK
  <2>2. CASE ~m_shouldStop
    <3>1. arg[c] = NoEvent
      BY DEF IndInv, TypeInv, SlotsOK, SendEvent
    <3> QED BY <1>1, <1>2, <2>2, <3>1, TransportAssumption DEF SendEvent, Fresh, TypeOK
  <2> QED BY <2>1, <2>2
<1>5. \A d \in Threads : \/ apc'[d] = apc[d] /\ arg'[d] = arg[d]
                         \/ d = c /\ apc'[d] = "push" /\ arg'[d] = e
  BY <1>1 DEF SendEvent, TypeOK
<1>6. \A h \in Handlers : Report[h] \in Events /\ Report[h] \notin AppEvents
  BY HandlersAreThreads
<1>7. \A g, h \in Handlers : Report[g] = Report[h] => g = h
  BY HandlersAreThreads
<1>8. \A d \in Threads : apc'[d] = "push" =>
        IF d \in Handlers THEN arg'[d] = Report[d] ELSE arg'[d] \in AppEvents
  BY <1>5 DEF ReportInv
<1>9. CASE c \in Handlers
  <2>1. \A h \in Handlers : h # c => Report[h] # e /\ hpc'[h] = hpc[h]
    BY <1>7, <1>9 DEF CrashTypes
  <2>2. hpc'[c] = "crumb"
    BY <1>9 DEF CrashTypes
  <2> QED
    BY <1>2, <1>3, <1>4, <1>5, <1>6, <1>8, <1>9, <2>1, <2>2, HandlersAreThreads DEF ReportInv
<1>10. CASE c \notin Handlers
  <2>1. \A h \in Handlers : Report[h] # e /\ hpc'[h] = hpc[h] /\ h # c
    BY <1>6, <1>10
  <2> QED
    BY <1>2, <1>4, <1>5, <1>6, <1>8, <2>1, HandlersAreThreads DEF ReportInv
<1> QED BY <1>9, <1>10

LEMMA ReportStop ==
  ASSUME IndInv, ReportInv, NEW c \in Threads, NEW w \in BOOLEAN, Stop(c, w) \/ Join(c),
         UNCHANGED <<hpc, scopeMutex>>,
         c \in Handlers => hpc[c] = "close"
  PROVE  ReportInv'
<1>1. TypeOK
  BY DEF IndInv, TypeInv
<1>2. /\ UNCHANGED <<wpc, loop, arg, ticket, arrived, outcome>>
      /\ m_shouldStop => m_shouldStop'
      /\ \A d \in Threads : d # c => apc'[d] = apc[d]
      /\ apc'[c] \in {"join", "stopped", "threw"}
      /\ apc'[c] = "stopped" => wpc = "exited"
  BY <1>1 DEF Stop, Join, workerVars, history, TypeOK
<1>3. \A e \in Events : Fresh(e)' <=> Fresh(e)
  BY <1>2 DEF Fresh
<1>4. \A h \in Handlers : Report[h] \in Events /\ h \in Threads
  BY HandlersAreThreads
<1> QED BY <1>2, <1>3, <1>4 DEF ReportInv

-----------------------------------------------------------------------------
(***************************************************************************)
(* SingleInv, after something struck the application thread t.             *)
(***************************************************************************)
\* Only on t can a handler run.
LEMMA HandlerIsOn ==
  ASSUME NEW t \in App, SingleInvOf(t), NEW b \in Bases, Top(b) \in Handlers
  PROVE  b = t
<1>1. b \notin Handlers
  BY HandlersAreThreads
<1> QED BY <1>1 DEF SingleInvOf, Top

\* A step that leaves the stacks and the transport alone.
LEMMA SingleUnmoved ==
  ASSUME NEW t \in App, SingleInvOf(t), UNCHANGED <<vars, stack, dead>>
  PROVE  SingleInvOf(t)'
<1>1. UNCHANGED <<stack, dead, apc, joiner, m_shouldStop, wpc, ticket, outcome>>
  BY DEF vars, workerVars, threadVars, history
<1> QED BY <1>1 DEF SingleInvOf, Top, Queued

\* A handler comes onto t, or the process dies.
LEMMA SingleRises ==
  ASSUME NEW t \in App, SingleInvOf(t), UNCHANGED vars,
         \A b \in Bases : b # t => stack'[b] = stack[b],
         wpc = "exited" \/ \A h \in Handlers : ~Queued(h) /\ apc[h] # "push",
         \A j \in joiner : apc[j] = "stopped"
  PROVE  SingleInvOf(t)'
<1>1. UNCHANGED <<apc, joiner, m_shouldStop, wpc, ticket, outcome>>
  BY DEF vars, workerVars, threadVars, history
<1>2. \A h \in Handlers : Queued(h)' = Queued(h)
  BY <1>1 DEF Queued
<1> QED BY <1>1, <1>2 DEF SingleInvOf

\* The context on top of t is not in stop(): no other is.
LEMMA JoinersStopped ==
  ASSUME NEW t \in App, SingleInvOf(t), apc[Top(t)] # "join"
  PROVE  \A j \in joiner : apc[j] = "stopped"
  BY DEF SingleInvOf

LEMMA SingleWorker ==
  ASSUME NEW t \in App, SingleInvOf(t), IndInv, Worker, UNCHANGED <<stack, dead>>
  PROVE  SingleInvOf(t)'
<1>1. UNCHANGED <<apc, joiner, m_shouldStop, ticket, arrived>> /\ wpc # "exited"
  BY WorkerEffect DEF threadVars
<1>2. Top(t)' = Top(t) /\ \A h \in Handlers : Queued(h)' = Queued(h)
  BY <1>1 DEF Top, Queued
<1>3. ASSUME wpc' = "exited", NEW e \in Events, 0 < ticket[e] PROVE outcome'[e] # "none"
  <2>1. m_tasks = <<>> /\ task = NoTask /\ outcome' = outcome
    BY <1>3, WorkerEffect
  <2>2. ~InQueue(e) /\ ~InHand(e)
    BY <2>1, TransportAssumption DEF InQueue, InHand, NoTask
  <2> QED BY <1>3, <2>1, <2>2 DEF IndInv, PlaceInv, OnePlace
<1> QED BY <1>1, <1>2, <1>3 DEF SingleInvOf

LEMMA SinglePush ==
  ASSUME NEW t \in App, SingleInvOf(t), IndInv, ReportInv,
         NEW b \in Bases, NEW c \in Threads, Top(b) = c, Push(c), ~dead,
         UNCHANGED <<stack, dead>>
  PROVE  SingleInvOf(t)'
<1>1. TypeOK /\ arg[c] \in Events /\ apc[c] = "push" /\ ticket[arg[c]] = 0
  BY DEF IndInv, TypeInv, SlotsOK, Push, PlaceInv
<1>2. /\ apc' = [apc EXCEPT ![c] = "idle"]
      /\ ticket' = [ticket EXCEPT ![arg[c]] = arrived + 1]
      /\ UNCHANGED <<wpc, m_shouldStop, outcome, joiner>>
  BY DEF Push, workerVars
<1>3. /\ \A d \in Threads : d # c => apc'[d] = apc[d]
      /\ apc'[c] = "idle"
      /\ \A e \in Events : ticket'[e] = IF e = arg[c] THEN arrived + 1 ELSE ticket[e]
  BY <1>1, <1>2 DEF TypeOK
<1>4. Top(t)' = Top(t)
  BY DEF Top
<1>5. CASE c \in Handlers
  <2>1. c = Top(t) /\ arg[c] = Report[c]
    BY <1>1, <1>5, HandlerIsOn DEF ReportInv
  <2>2. \A h \in Handlers : Queued(h)' => Queued(h) \/ h = c
    BY <1>3, <1>5, <2>1, HandlersAreThreads DEF Queued
  <2>3. wpc # "exited"
    BY <1>1, <1>5 DEF ReportInv, SingleInvOf
  <2>4. ~dead'
    OBVIOUS
  <2>5. \A j \in joiner : j # c
    BY <1>1 DEF SingleInvOf
  <2>6. joiner \subseteq Threads /\ Handlers \subseteq Threads /\ App \subseteq Threads
    BY <1>1, HandlersAreThreads DEF TypeOK
  <2> QED BY <1>2, <1>3, <1>4, <2>1, <2>2, <2>3, <2>4, <2>5, <2>6 DEF SingleInvOf
<1>6. CASE c \notin Handlers
  <2>1. arg[c] \in AppEvents
    BY <1>1, <1>6 DEF ReportInv
  <2>2. \A h \in Handlers : Report[h] \in Events /\ Report[h] # arg[c]
    BY <2>1, HandlersAreThreads
  <2>3. \A h \in Handlers : Queued(h)' = Queued(h) /\ ticket'[Report[h]] = ticket[Report[h]]
    BY <1>3, <2>2 DEF Queued
  <2>4. \A h \in Handlers : ticket[Report[h]] <= arrived /\ ticket[Report[h]] \in Nat /\ arrived \in Nat
    BY <1>1, <2>2 DEF ReportInv, TypeOK
  <2>5. \A h \in Handlers, e \in Events :
          0 < ticket'[e] /\ ticket'[e] <= ticket'[Report[h]]
            => 0 < ticket[e] /\ ticket[e] <= ticket[Report[h]]
    BY <1>3, <2>3, <2>4
  <2>6. /\ joiner \subseteq Threads /\ Handlers \subseteq Threads /\ App \subseteq Threads
        /\ \A j \in joiner : j # c
    BY <1>1, HandlersAreThreads DEF TypeOK, SingleInvOf
  <2>7. /\ wpc' = "exited" =>
           \A h \in Handlers, e \in Events :
             Queued(h)' /\ 0 < ticket'[e] /\ ticket'[e] <= ticket'[Report[h]]
               => outcome'[e] # "none"
    BY <1>2, <2>3, <2>5 DEF SingleInvOf
  <2>8. /\ m_shouldStop' => joiner' # {} /\ \A h \in Handlers : apc'[h] # "push"
        /\ \A h \in Handlers : Queued(h)' \/ apc'[h] = "push" => h = Top(t)' \/ wpc' = "exited"
        /\ \A h \in Handlers : dead' /\ Queued(h)' => wpc' = "exited"
    BY <1>2, <1>3, <1>4, <2>3, <2>6 DEF SingleInvOf
  <2>9. /\ \A j \in joiner' : apc'[j] = "stopped" \/ (apc'[j] = "join" /\ j = Top(t)')
        /\ \A d \in App : apc'[d] \notin {"idle", "push"} => d = t
        /\ \A d \in Threads : apc'[d] = "threw" => wpc' = "exited"
        /\ \A d \in Bases : d # t => stack'[d] = <<>>
    BY <1>2, <1>3, <1>4, <2>6 DEF SingleInvOf
  <2> QED BY <2>7, <2>8, <2>9 DEF SingleInvOf
<1> QED BY <1>5, <1>6

LEMMA SingleSend ==
  ASSUME NEW t \in App, SingleInvOf(t), IndInv,
         NEW b \in Bases, NEW c \in Threads, NEW e \in Events, Top(b) = c, SendEvent(c, e),
         UNCHANGED <<stack, dead>>
  PROVE  SingleInvOf(t)'
<1>1. TypeOK /\ Fresh(e) /\ apc[c] = "idle"
  BY DEF IndInv, TypeInv, SendEvent
<1>2. /\ UNCHANGED <<wpc, m_shouldStop, ticket, joiner>>
      /\ \A x \in Events : outcome'[x] = outcome[x] \/ ticket[x] = 0
      /\ \A d \in Threads : d # c => apc'[d] = apc[d]
      /\ apc'[c] = IF m_shouldStop THEN "idle" ELSE "push"
  BY <1>1 DEF SendEvent, workerVars, TypeOK, Fresh
<1>3. Top(t)' = Top(t) /\ \A h \in Handlers : Queued(h)' = Queued(h)
  BY <1>2 DEF Top, Queued
<1>4. c \in Handlers => c = Top(t)
  BY HandlerIsOn
<1>5. /\ joiner \subseteq Threads /\ Handlers \subseteq Threads /\ App \subseteq Threads
      /\ \A j \in joiner : j # c
  BY <1>1, HandlersAreThreads DEF TypeOK, SingleInvOf
<1>6. wpc' = "exited" =>
        \A h \in Handlers, x \in Events :
          Queued(h)' /\ 0 < ticket'[x] /\ ticket'[x] <= ticket'[Report[h]]
            => outcome'[x] # "none"
  BY <1>1, <1>2, <1>3 DEF SingleInvOf, TypeOK
<1> QED BY <1>2, <1>3, <1>4, <1>5, <1>6 DEF SingleInvOf

LEMMA SingleStop ==
  ASSUME NEW t \in App, SingleInvOf(t), IndInv, ReportInv,
         NEW h \in Handlers, Top(t) = h, Stop(h, FALSE),
         UNCHANGED <<stack, dead>>
  PROVE  SingleInvOf(t)'
<1>1. TypeOK /\ apc[h] = "idle" /\ h \in Threads
  BY HandlersAreThreads DEF IndInv, TypeInv, Stop
<1>2. /\ UNCHANGED <<wpc, ticket, outcome>>
      /\ \A d \in Threads : d # h => apc'[d] = apc[d]
      /\ IF joiner = {} THEN joiner' = {h} /\ apc'[h] = "join"
                        ELSE joiner' = joiner /\ apc'[h] = "threw"
  BY <1>1 DEF Stop, workerVars, history, TypeOK
<1>3. Top(t)' = Top(t) /\ \A g \in Handlers : Queued(g)' = Queued(g)
  BY <1>2 DEF Top, Queued
<1>4. \A g \in Handlers : apc[g] # "push"
  BY <1>1 DEF SingleInvOf, ReportInv
<1>5. /\ joiner \subseteq Threads /\ Handlers \subseteq Threads /\ App \subseteq Threads
      /\ h \notin App
  BY <1>1, HandlersAreThreads DEF TypeOK
<1>6. \A j \in joiner : apc[j] = "stopped"
  BY <1>1, JoinersStopped
<1>7. joiner # {} => wpc = "exited"
  BY <1>5, <1>6 DEF ReportInv
<1>8. joiner' # {} /\ \A g \in Handlers : apc'[g] # "push"
  BY <1>2, <1>4, <1>5
<1>9. \A j \in joiner' : apc'[j] = "stopped" \/ (apc'[j] = "join" /\ j = Top(t)')
  BY <1>1, <1>2, <1>3, <1>5, <1>6
<1>10. \A d \in Threads : apc'[d] = "threw" => wpc' = "exited"
  BY <1>2, <1>7 DEF SingleInvOf
<1> QED BY <1>2, <1>3, <1>5, <1>8, <1>9, <1>10 DEF SingleInvOf

LEMMA SingleJoin ==
  ASSUME NEW t \in App, SingleInvOf(t), IndInv, NEW c \in Threads, Join(c),
         UNCHANGED <<stack, dead>>
  PROVE  SingleInvOf(t)'
<1>1. TypeOK /\ apc[c] = "join"
  BY DEF IndInv, TypeInv, Join
<1>2. /\ UNCHANGED <<wpc, ticket, outcome, joiner, m_shouldStop>>
      /\ \A d \in Threads : d # c => apc'[d] = apc[d]
      /\ apc'[c] = "stopped"
  BY <1>1 DEF Join, workerVars, history, TypeOK
<1>3. Top(t)' = Top(t) /\ \A g \in Handlers : Queued(g)' = Queued(g)
  BY <1>2 DEF Top, Queued
<1>4. joiner \subseteq Threads /\ Handlers \subseteq Threads /\ App \subseteq Threads
  BY <1>1, HandlersAreThreads DEF TypeOK
<1> QED BY <1>1, <1>2, <1>3, <1>4 DEF SingleInvOf

-----------------------------------------------------------------------------
(***************************************************************************)
(* What strikes first strikes in peace.                                    *)
(***************************************************************************)
LEMMA PeaceFacts ==
  ASSUME Peace, ReportInv
  PROVE  /\ wpc # "exited"
         /\ \A h \in Handlers : ~Queued(h) /\ apc[h] = "idle"
         /\ \A b \in Bases : Top(b) = b
<1>1. \A h \in Handlers : Fresh(Report[h]) /\ apc[h] = "idle"
  BY DEF Peace, ReportInv
<1>2. \A h \in Handlers : ~Queued(h)
  BY <1>1 DEF Fresh, Queued
<1> QED BY <1>1, <1>2 DEF Peace, ReportInv, Top

LEMMA SingleStruck ==
  ASSUME NEW t \in App, Peace, ReportInv, UNCHANGED vars,
         \A b \in Bases : b # t => stack'[b] = stack[b]
  PROVE  SingleInvOf(t)'
<1>1. UNCHANGED <<apc, joiner, m_shouldStop, wpc, ticket, outcome>>
  BY DEF vars, workerVars, threadVars, history
<1>2. /\ wpc # "exited"
      /\ \A h \in Handlers : ~Queued(h)' /\ apc[h] = "idle"
  BY <1>1, PeaceFacts DEF Queued
<1>3. App \subseteq Threads /\ Handlers \subseteq Threads
  BY HandlersAreThreads
<1>4. \A c \in Threads : apc[c] \in {"idle", "push"}
  BY DEF Peace
<1> QED BY <1>1, <1>2, <1>3, <1>4 DEF SingleInvOf, Peace

LEMMA SingleExit ==
  ASSUME Peace, IndInv, ReportInv, Stop(Main, FALSE), UNCHANGED <<stack, dead>>
  PROVE  SingleInvOf(Main)'
<1>1. /\ TypeOK /\ Main \in App /\ Main \in Threads /\ Main \in Bases /\ Main \notin Handlers
      /\ Handlers \subseteq Threads /\ App \subseteq Threads
  BY HandlersAreThreads DEF IndInv, TypeInv
<1>2. /\ UNCHANGED <<wpc, ticket, outcome>>
      /\ \A d \in Threads : d # Main => apc'[d] = apc[d]
      /\ joiner' = {Main} /\ apc'[Main] = "join"
  BY <1>1 DEF Stop, workerVars, history, TypeOK, Peace
<1>3. /\ wpc # "exited"
      /\ \A h \in Handlers : ~Queued(h)' /\ apc[h] = "idle"
      /\ Top(Main)' = Main
  BY <1>1, <1>2, PeaceFacts DEF Queued, Top
<1>4. \A c \in Threads : c # Main => apc'[c] \in {"idle", "push"}
  BY <1>2 DEF Peace
<1>5. \A h \in Handlers : apc'[h] = "idle"
  BY <1>1, <1>2, <1>3
<1> QED BY <1>1, <1>2, <1>3, <1>4, <1>5 DEF SingleInvOf, Peace

-----------------------------------------------------------------------------
(***************************************************************************)
(* The invariant holds.                                                    *)
(***************************************************************************)
LEMMA InitCrashInv == CrashInit => CrashInv
<1> SUFFICES ASSUME CrashInit PROVE CrashInv
  OBVIOUS
<1>1. CrashTypes
  <2>1. stack \in [Bases -> Seq(Handlers)] /\ causes \in Seq(Bases)
    BY DEF CrashInit
  <2> QED BY <2>1 DEF CrashInit, CrashTypes
<1>2. Len(causes) = 0
  BY DEF CrashInit
<1>3. Peace
  BY HandlersAreThreads DEF CrashInit, Init, Peace
<1>4. ReportInv
  <2>1. \A h \in Handlers : Report[h] \in Events /\ h \in Threads /\ scopeMutex # h
    BY HandlersAreThreads DEF CrashInit
  <2>2. \A e \in Events : Fresh(e)
    BY TransportAssumption DEF CrashInit, Init, Fresh
  <2> QED BY <2>1, <2>2 DEF CrashInit, Init, ReportInv
<1> QED BY <1>1, <1>2, <1>3, <1>4 DEF CrashInv, PeaceInv, SingleInv, Single

\* Nothing strikes.
LEMMA Unstruck ==
  ASSUME CrashInv, causes' = causes, CrashTypes', ReportInv',
         Len(causes) = 0 /\ Peace => Peace',
         \A t \in App : SingleInvOf(t) => SingleInvOf(t)'
  PROVE  CrashInv'
  BY DEF CrashInv, PeaceInv, SingleInv, Single

\* Something strikes b.
LEMMA Struck ==
  ASSUME CrashInv, NEW b \in Bases, causes' = Append(causes, b), CrashTypes', ReportInv',
         Peace /\ b \in App => SingleInvOf(b)'
  PROVE  CrashInv'
<1>1. /\ Len(causes) \in Nat /\ Len(causes') = Len(causes) + 1
      /\ Len(causes) = 0 => causes'[1] = b
  BY DEF CrashInv, CrashTypes
<1>2. PeaceInv'
  BY <1>1 DEF PeaceInv
<1>3. ASSUME NEW t \in App, Single(t)' PROVE SingleInvOf(t)'
  <2>1. Len(causes) = 0 /\ b = t
    BY <1>1, <1>3 DEF Single
  <2> QED BY <2>1 DEF CrashInv, PeaceInv
<1> QED BY <1>2, <1>3 DEF CrashInv, SingleInv

\* A context moves that is in no call of the transport, and the stacks stay.
LEMMA StepUnmoved ==
  ASSUME CrashInv, UNCHANGED <<vars, stack, dead, causes>>, HandlersMoved,
         hpc' \in [Handlers -> {"off", "trace", "capture", "crumb", "close", "abort"}],
         Peace => hpc' = hpc
  PROVE  CrashInv'
<1>1. CrashTypes'
  BY DEF CrashInv, CrashTypes
<1>2. ReportInv'
  BY ReportUnmoved DEF CrashInv
<1>3. Peace => Peace'
  BY DEF Peace, vars, threadVars
<1> QED BY <1>1, <1>2, <1>3, SingleUnmoved, Unstruck

\* A handler h on top of b is in no call of the transport, or in one that has
\* ended, and something comes onto b.
LEMMA StepRises ==
  ASSUME CrashInv, NEW b \in Bases, Risen(b), UNCHANGED <<vars, scopeMutex, causes>>,
         Top(b) \in Threads, ~Peace,
         \A t \in App : SingleInvOf(t) =>
           /\ b = t
           /\ wpc = "exited" \/ \A h \in Handlers : ~Queued(h) /\ apc[h] # "push"
           /\ apc[Top(b)] # "join"
  PROVE  CrashInv'
<1>1. CrashTypes'
  BY DEF CrashInv, CrashTypes, Risen
<1>2. ReportInv'
  BY ReportUnmoved, RisenMoves DEF CrashInv
<1>3. ASSUME NEW t \in App, SingleInvOf(t) PROVE SingleInvOf(t)'
  BY <1>3, SingleRises, JoinersStopped DEF Risen
<1> QED BY <1>1, <1>2, <1>3, Unstruck

LEMMA NextCrashInv == IndInv /\ CrashInv /\ CrashNext => CrashInv'
<1> SUFFICES ASSUME IndInv, CrashInv, CrashNext PROVE CrashInv'
  OBVIOUS
<1>a. CrashTypes /\ ReportInv
  BY DEF CrashInv
<1>b. Handlers \subseteq Threads /\ App \subseteq Threads /\ App \subseteq Bases
  BY HandlersAreThreads
<1>c. ASSUME NEW b \in Bases, Top(b) \in Handlers PROVE ~Peace
  BY <1>a, <1>c, PeaceFacts, HandlersAreThreads
<1>1. CASE Setup \/ TimePasses
  <2>1. UNCHANGED <<stack, hpc, scopeMutex, dead, causes>>
    BY <1>1 DEF Setup, TimePasses, handlerVars
  <2>2. UNCHANGED <<apc, arg, joiner, m_shouldStop, outcome, ticket, arrived, loop>>
    BY <1>1 DEF Setup, TimePasses, Start, SetupClient, Tick, workerVars, threadVars, history
  <2>3. wpc' = wpc \/ (wpc = "unborn" /\ wpc' = "run")
    BY <1>1 DEF Setup, TimePasses, Start, SetupClient, Tick, workerVars
  <2>4. \A e \in Events : Fresh(e)' <=> Fresh(e)
    BY <2>2 DEF Fresh
  <2>5. ReportInv'
    BY <1>a, <2>1, <2>2, <2>3, <2>4, ReportKept DEF HandlersMoved
  <2>6. ASSUME NEW t \in App, SingleInvOf(t) PROVE SingleInvOf(t)'
    BY <2>1, <2>2, <2>3, <2>6 DEF SingleInvOf, Top, Queued
  <2>7. CrashTypes' /\ (Peace => Peace')
    BY <1>a, <2>1, <2>2 DEF CrashTypes, Peace
  <2> QED BY <2>1, <2>5, <2>6, <2>7, Unstruck
<1>2. CASE Over
  BY <1>2, <1>a, StepUnmoved DEF Over, crashVars, handlerVars, CrashTypes, HandlersMoved
<1>3. ASSUME NEW b \in Bases, NEW c \in Contexts, LockQueue(b, c)
      PROVE  CrashInv'
  BY <1>3, <1>a, StepUnmoved DEF LockQueue, CrashTypes, HandlersMoved
<1>4. ASSUME NEW b \in Bases, NEW c \in Threads, LockScope(b, c)
      PROVE  CrashInv'
  <2>1. HandlersMoved
    BY <1>4, <1>a DEF LockScope, HandlersMoved
  <2> QED BY <1>4, <1>a, <2>1, StepUnmoved DEF LockScope, CrashTypes
<1>5. ASSUME NEW b \in Bases, NEW c \in Threads, UnlockScope(b, c)
      PROVE  CrashInv'
  <2>1. \A h \in Handlers : h # Nobody
    BY <1>b, HandlersAreThreads
  <2>2. \A h \in Handlers : hpc'[h] = hpc[h] \/ (hpc'[h] = "close" /\ scopeMutex = h)
    BY <1>5, <1>a DEF UnlockScope, CrashTypes
  <2>3. HandlersMoved
    BY <1>5, <2>1, <2>2 DEF UnlockScope, HandlersMoved
  <2>4. hpc' \in [Handlers -> {"off", "trace", "capture", "crumb", "close", "abort"}]
    BY <1>5, <1>a DEF UnlockScope, CrashTypes
  <2>5. Peace => hpc' = hpc
    BY <1>5, <1>c DEF UnlockScope, Runs
  <2> QED BY <1>5, <2>3, <2>4, <2>5, StepUnmoved DEF UnlockScope
<1>6. ASSUME NEW b \in Bases, NEW c \in Threads, PushLocked(b, c)
      PROVE  CrashInv'
  <2>1. /\ Top(b) = c /\ ~dead /\ Push(c)
        /\ UNCHANGED <<stack, hpc, scopeMutex, dead, causes>>
    BY <1>6 DEF PushLocked, Runs
  <2>2. ReportInv'
    BY <1>a, <2>1, ReportPush DEF HandlersMoved
  <2>3. CrashTypes'
    BY <1>a, <2>1 DEF CrashTypes
  <2>4. Peace => Peace'
    BY <2>1 DEF Peace, Push, IndInv, TypeInv, TypeOK
  <2> QED BY <1>a, <2>1, <2>2, <2>3, <2>4, SinglePush, Unstruck
<1>7. ASSUME NEW t \in App, NEW e \in AppEvents, CaptureEvent(t, e)
      PROVE  CrashInv'
  <2>1. /\ Top(t) = t /\ SendEvent(t, e) /\ t \in Threads /\ t \in Bases /\ t \notin Handlers
        /\ e \in Events /\ UNCHANGED <<stack, hpc, scopeMutex, dead, causes>>
    BY <1>7, HandlersAreThreads DEF CaptureEvent, Runs, handlerVars
  <2>2. ReportInv'
    BY <1>a, <2>1, ReportSend
  <2>3. CrashTypes'
    BY <1>a, <2>1 DEF CrashTypes
  <2>4. Peace => Peace'
    BY <2>1 DEF Peace, SendEvent, IndInv, TypeInv, TypeOK
  <2> QED BY <2>1, <2>2, <2>3, <2>4, SingleSend, Unstruck
<1>8. CASE WorkerStep
  <2>1. Worker /\ UNCHANGED <<stack, hpc, scopeMutex, dead, causes>>
    BY <1>8 DEF WorkerStep
  <2>2. ReportInv'
    BY <1>a, <2>1, ReportWorker DEF HandlersMoved
  <2>3. CrashTypes' /\ (Peace => Peace')
    BY <1>a, <2>1, WorkerEffect DEF CrashTypes, Peace, threadVars
  <2> QED BY <2>1, <2>2, <2>3, SingleWorker, Unstruck
<1>9. ASSUME NEW b \in Bases, NEW h \in Handlers, GetStacktrace(b, h)
      PROVE  CrashInv'
  <2>1. /\ Top(b) = h /\ h \in Threads /\ ~Peace /\ hpc[h] = "trace"
        /\ UNCHANGED <<vars, scopeMutex, causes>>
    BY <1>9, <1>b, <1>c DEF GetStacktrace, Runs
  <2>2. CASE hpc' = [hpc EXCEPT ![h] = "capture"] /\ UNCHANGED <<stack, dead>>
    <3>1. HandlersMoved
      BY <1>a, <2>1, <2>2 DEF HandlersMoved, CrashTypes
    <3> QED BY <1>a, <2>1, <2>2, <3>1, StepUnmoved DEF CrashTypes
  <2>3. CASE Escape(b) \/ Begin(b, SIGSEGV)
    <3>1. Risen(b)
      BY <1>a, <2>3, EscapeRises, BeginRises, HandlersAreThreads
    <3>2. Fresh(Report[h]) /\ apc[h] = "idle" /\ ~Queued(h)
      BY <1>a, <2>1 DEF ReportInv, Fresh, Queued
    <3>3. ASSUME NEW t \in App, SingleInvOf(t)
          PROVE  /\ b = t
                 /\ wpc = "exited" \/ \A g \in Handlers : ~Queued(g) /\ apc[g] # "push"
                 /\ apc[Top(b)] # "join"
      <4>1. b = t
        BY <2>1, <3>3, HandlerIsOn
      <4> QED BY <2>1, <3>2, <3>3, <4>1 DEF SingleInvOf
    <3> QED BY <2>1, <3>1, <3>3, StepRises
  <2> QED BY <1>9, <2>2, <2>3 DEF GetStacktrace
<1>10. ASSUME NEW b \in Bases, NEW h \in Handlers, HandlerCapture(b, h)
       PROVE  CrashInv'
  <2>1. /\ Top(b) = h /\ h \in Threads /\ ~Peace /\ hpc[h] = "capture"
        /\ SendEvent(h, Report[h]) /\ Report[h] \in Events
        /\ hpc' = [hpc EXCEPT ![h] = "crumb"]
        /\ UNCHANGED <<stack, scopeMutex, dead, causes>>
    BY <1>10, <1>b, <1>c, HandlersAreThreads DEF HandlerCapture, Runs
  <2>2. ReportInv'
    BY <1>a, <2>1, ReportSend
  <2>3. CrashTypes'
    BY <1>a, <2>1 DEF CrashTypes
  <2> QED BY <2>1, <2>2, <2>3, SingleSend, Unstruck
<1>11. ASSUME NEW b \in Bases, NEW h \in Handlers, HandlerClose(b, h)
       PROVE  CrashInv'
  <2>1. /\ Top(b) = h /\ h \in Threads /\ ~Peace /\ hpc[h] = "close"
        /\ Stop(h, b = WorkerThread) \/ Join(h)
        /\ UNCHANGED <<stack, hpc, scopeMutex, dead, causes>>
    BY <1>11, <1>b, <1>c DEF HandlerClose, Runs, handlerVars
  <2>2. ReportInv'
    <3>1. (b = WorkerThread) \in BOOLEAN
      OBVIOUS
    <3> QED BY <1>a, <2>1, <3>1, ReportStop
  <2>3. CrashTypes'
    BY <1>a, <2>1 DEF CrashTypes
  <2>4. ASSUME NEW t \in App, SingleInvOf(t) PROVE SingleInvOf(t)'
    <3>1. b = t /\ t # WorkerThread
      BY <1>b, <2>1, <2>4, HandlerIsOn, HandlersAreThreads
    <3>2. CASE Join(h)
      BY <2>1, <2>4, <3>2, SingleJoin
    <3>3. CASE Stop(h, b = WorkerThread)
      <4>1. Stop(h, FALSE)
        BY <3>1, <3>3 DEF Stop
      <4> QED BY <1>a, <2>1, <2>4, <3>1, <4>1, SingleStop
    <3> QED BY <2>1, <3>2, <3>3
  <2> QED BY <2>1, <2>2, <2>3, <2>4, Unstruck
<1>12. ASSUME NEW b \in Bases, NEW h \in Handlers, HandlerThrows(b, h) \/ HandlerEnds(b, h)
       PROVE  CrashInv'
  <2>1. /\ Top(b) = h /\ h \in Threads /\ ~Peace /\ apc[h] \in {"threw", "stopped"}
        /\ UNCHANGED <<vars, scopeMutex, causes>>
    BY <1>12, <1>b, <1>c DEF HandlerThrows, HandlerEnds, Runs
  <2>2. Risen(b)
    <3>1. CASE Escape(b) \/ Abort(b)
      BY <1>a, <3>1, EscapeRises, AbortRises
    <3>2. CASE dead' = TRUE /\ UNCHANGED <<stack, hpc>>
      BY <1>a, <3>2 DEF CrashTypes, Risen
    <3> QED BY <1>12, <3>1, <3>2 DEF HandlerThrows, HandlerEnds
  <2>3. ASSUME NEW t \in App, SingleInvOf(t)
        PROVE  b = t /\ wpc = "exited" /\ apc[Top(b)] # "join"
    BY <1>a, <2>1, <2>3, HandlerIsOn DEF SingleInvOf, ReportInv
  <2> QED BY <2>1, <2>2, <2>3, StepRises
<1>13. CASE Exited
  <2>1. /\ Top(Main) = Main /\ Main \in Bases /\ Main \in App /\ Main \in Threads
        /\ Main \notin Handlers /\ UNCHANGED <<scopeMutex, causes>>
    BY <1>13, HandlersAreThreads DEF Exited, Runs
  <2>2. apc[Main] \in {"join", "stopped", "threw"}
    BY <1>13 DEF Exited, Join
  <2>3. ~Peace
    BY <2>1, <2>2 DEF Peace
  <2>4. CASE Join(Main) /\ UNCHANGED <<stack, hpc, dead>>
    <3>1. ReportInv'
      BY <1>a, <2>1, <2>4, ReportStop
    <3>2. CrashTypes'
      BY <1>a, <2>1, <2>4 DEF CrashTypes
    <3> QED BY <2>1, <2>3, <2>4, <3>1, <3>2, SingleJoin, Unstruck
  <2>5. CASE apc[Main] \in {"stopped", "threw"} /\ UNCHANGED vars
    <3>1. Risen(Main)
      <4>1. CASE Escape(Main)
        BY <1>a, <2>1, <4>1, EscapeRises
      <4>2. CASE dead' = TRUE /\ UNCHANGED <<stack, hpc>>
        BY <1>a, <4>2 DEF CrashTypes, Risen
      <4> QED BY <1>13, <2>5, <4>1, <4>2 DEF Exited, Join
    <3>2. ASSUME NEW t \in App, SingleInvOf(t)
          PROVE  Main = t /\ wpc = "exited" /\ apc[Top(Main)] # "join"
      BY <1>a, <2>1, <2>5, <3>2 DEF SingleInvOf, ReportInv
    <3> QED BY <2>1, <2>3, <2>5, <3>1, <3>2, StepRises
  <2> QED BY <1>13, <2>4, <2>5 DEF Exited
<1>14. ASSUME NEW b \in Bases, causes' = Append(causes, b), Risen(b),
              UNCHANGED <<vars, scopeMutex>>
       PROVE  CrashInv'
  <2>1. CrashTypes'
    BY <1>a, <1>14 DEF CrashTypes, Risen
  <2>2. ReportInv'
    BY <1>a, <1>14, ReportUnmoved, RisenMoves
  <2>3. Peace /\ b \in App => SingleInvOf(b)'
    BY <1>a, <1>14, SingleStruck DEF Risen
  <2> QED BY <1>14, <2>1, <2>2, <2>3, Struck
<1>15. ASSUME NEW b \in Bases, NEW s \in Signals, Signal(s, b)
       PROVE  CrashInv'
  BY <1>a, <1>14, <1>15, BeginRises, HandlersAreThreads DEF Signal, Strikes
<1>16. ASSUME NEW t \in App, NEW isStd \in BOOLEAN, Exception(t, isStd)
       PROVE  CrashInv'
  <2>1. t \in Bases /\ Risen(t)
    BY <1>a, <1>16, BeginRises, AbortRises, HandlersAreThreads DEF Exception
  <2> QED BY <1>14, <1>16, <2>1 DEF Exception, Strikes
<1>17. CASE Exit
  <2>1. /\ Stop(Main, FALSE) /\ Main \in Threads /\ Main \in Bases /\ Main \notin Handlers
        /\ causes' = Append(causes, Main)
        /\ UNCHANGED <<stack, hpc, scopeMutex, dead>>
    BY <1>17, HandlersAreThreads DEF Exit, Strikes
  <2>2. ReportInv'
    BY <1>a, <2>1, ReportStop
  <2>3. CrashTypes'
    BY <1>a, <2>1 DEF CrashTypes
  <2> QED BY <1>a, <2>1, <2>2, <2>3, SingleExit, Struck
<1>18. CASE WorkerThrows
  <2>1. /\ WorkerThread \in Bases /\ WorkerThread \notin App
        /\ terminate[WorkerThread] \in Handlers
    BY <1>b, HandlersAreThreads
  <2>2. /\ Worker /\ Begin(WorkerThread, terminate[WorkerThread])
        /\ causes' = Append(causes, WorkerThread)
        /\ UNCHANGED scopeMutex
    BY <1>18 DEF WorkerThrows, Strikes, Worker
  <2>3. Risen(WorkerThread)
    BY <1>a, <2>1, <2>2, BeginRises
  <2>4. ReportInv'
    BY <1>a, <2>1, <2>2, <2>3, ReportWorker, RisenMoves
  <2>5. CrashTypes'
    BY <1>a, <2>1, <2>2, <2>3 DEF CrashTypes, Risen
  <2> QED BY <2>1, <2>2, <2>4, <2>5, Struck
<1>19. ASSUME NEW h \in Signals, HandlerSwallowed(h)
       PROVE  CrashInv'
  <2>1. /\ h \in Handlers /\ WorkerThread \in Bases /\ WorkerThread \notin App
        /\ Top(WorkerThread) = h /\ Worker
        /\ stack' = [stack EXCEPT ![WorkerThread] = <<>>]
        /\ UNCHANGED <<hpc, scopeMutex, dead, causes>>
    BY <1>b, <1>19, HandlersAreThreads DEF HandlerSwallowed, Runs, Worker
  <2>2. ReportInv'
    BY <1>a, <2>1, ReportWorker DEF HandlersMoved
  <2>3. CrashTypes'
    BY <1>a, <2>1 DEF CrashTypes
  <2>4. ~Peace /\ \A t \in App : ~SingleInvOf(t)
    BY <1>c, <2>1, HandlerIsOn
  <2> QED BY <2>1, <2>2, <2>3, <2>4, Unstruck
<1> QED BY <1>1, <1>2, <1>3, <1>4, <1>5, <1>6, <1>7, <1>8, <1>9, <1>10, <1>11, <1>12,
           <1>13, <1>15, <1>16, <1>17, <1>18, <1>19
        DEF CrashNext, Proceeds, Handle

LEMMA StutterCrashInv == CrashInv /\ UNCHANGED crashVars => CrashInv'
  BY StepUnmoved DEF CrashInv, CrashTypes, HandlersMoved, crashVars, handlerVars

\* Whatever strikes, and whichever handlers run where, the invariant CrashInv
\* about reports, stacks and joins holds, beside IndInv of the transport.
THEOREM CrashInvariance == CrashSpec => []CrashInv
<1>1. IndInv /\ CrashInv /\ [CrashNext]_crashVars => CrashInv'
  BY NextCrashInv, StutterCrashInv
<1> QED BY <1>1, InitCrashInv, CrashIsTransport, Invariance, PTL DEF CrashSpec

\* When one thing strikes an application thread, no path through the handlers
\* kills the process before the report, and all that was queued before it, is
\* settled: every handler that has queued its report stays on top of its
\* thread until the worker has drained the queue and left.
THEOREM CrashIsReported == CrashSpec => []ReportSettled
<1>1. CrashInv => ReportSettled
  BY DEF CrashInv, SingleInv, Single, SingleInvOf, ReportSettled
<1> QED BY <1>1, CrashInvariance, PTL

-----------------------------------------------------------------------------
(***************************************************************************)
(* The mutexes.  Who holds m_tasksQueueMutex is about to push or to pop,   *)
(* and does so only while it holds it.                                     *)
(***************************************************************************)
MutexInv ==
  /\ \/ queueMutex = Nobody
     \/ queueMutex \in Threads /\ apc[queueMutex] = "push"
     \/ queueMutex = WorkerThread /\ wpc \in {"pop", "retry"}
  /\ scopeMutex \in Threads \cup {Nobody}

\* A step that unlocks nothing, and that takes no holder out of its section.
LEMMA MutexKept ==
  ASSUME MutexInv, UNCHANGED <<queueMutex, scopeMutex>>,
         \A c \in Threads : apc[c] = "push" => apc'[c] = "push",
         wpc \in {"pop", "retry"} => wpc' = wpc
  PROVE  MutexInv'
  BY DEF MutexInv

\* MutexInv is inductive.
LEMMA MutexStep == IndInv /\ MutexInv /\ [CrashNext]_crashVars => MutexInv'
<1> SUFFICES ASSUME IndInv, MutexInv, [CrashNext]_crashVars PROVE MutexInv'
  OBVIOUS
<1>a. apc \in [Threads -> {"idle", "push", "join", "stopped", "threw"}]
  BY DEF IndInv, TypeInv, TypeOK
<1>b. Handlers \subseteq Threads /\ App \subseteq Threads /\ Main \in Threads
      /\ WorkerThread \notin Threads /\ Nobody \notin Threads
  BY HandlersAreThreads
<1>c. ASSUME UNCHANGED vars PROVE UNCHANGED <<apc, wpc>>
  BY <1>c DEF vars, workerVars, threadVars
<1>d. ASSUME NEW c \in Threads, NEW e, SendEvent(c, e)
      PROVE  wpc' = wpc /\ \A d \in Threads : apc[d] = "push" => apc'[d] = "push"
  BY <1>a, <1>d DEF SendEvent, workerVars
<1>e. ASSUME NEW c \in Threads, NEW w, Stop(c, w) \/ Join(c)
      PROVE  wpc' = wpc /\ \A d \in Threads : apc[d] = "push" => apc'[d] = "push"
  BY <1>a, <1>e DEF Stop, Join, workerVars
<1>0. CASE UNCHANGED crashVars
  BY <1>0, <1>c, MutexKept DEF crashVars, handlerVars
<1>1. CASE Setup \/ TimePasses \/ Over
  <2>1. UNCHANGED <<queueMutex, scopeMutex, apc>>
    BY <1>1, <1>c DEF Setup, TimePasses, Over, crashVars, handlerVars, Start, SetupClient,
                      Tick, threadVars
  <2>2. wpc \in {"pop", "retry"} => wpc' = wpc
    BY <1>1, <1>c DEF Setup, TimePasses, Over, crashVars, Start, SetupClient, Tick, workerVars
  <2> QED BY <2>1, <2>2, MutexKept
<1>2. ASSUME NEW b \in Bases, NEW c \in Contexts, LockQueue(b, c)
      PROVE  MutexInv'
  <2>1. UNCHANGED <<apc, wpc, scopeMutex>> /\ queueMutex' = c
    BY <1>2, <1>c DEF LockQueue
  <2>2. IF c = WorkerThread THEN wpc \in {"pop", "retry"} ELSE apc[c] = "push" /\ c \in Threads
    BY <1>2 DEF LockQueue, Contexts
  <2> QED BY <2>1, <2>2 DEF MutexInv
<1>3. ASSUME NEW b \in Bases, NEW c \in Threads, PushLocked(b, c)
      PROVE  MutexInv'
  BY <1>3 DEF PushLocked, MutexInv
<1>4. ASSUME NEW b \in Bases, NEW c \in Threads, LockScope(b, c) \/ UnlockScope(b, c)
      PROVE  MutexInv'
  BY <1>4, <1>c DEF LockScope, UnlockScope, MutexInv
<1>5. ASSUME NEW b \in Bases, NEW h \in Handlers, Handle(b, h)
      PROVE  MutexInv'
  <2>1. CASE GetStacktrace(b, h) \/ HandlerThrows(b, h) \/ HandlerEnds(b, h)
    BY <2>1, <1>c, MutexKept DEF GetStacktrace, HandlerThrows, HandlerEnds
  <2>2. CASE HandlerCapture(b, h)
    BY <2>2, <1>b, <1>d, MutexKept DEF HandlerCapture
  <2>3. CASE HandlerClose(b, h)
    BY <2>3, <1>b, <1>e, MutexKept DEF HandlerClose, handlerVars
  <2> QED BY <1>5, <2>1, <2>2, <2>3 DEF Handle
<1>6. CASE WorkerStep
  <2>1. scopeMutex' = scopeMutex /\ apc' = apc
    BY <1>6, WorkerEffect DEF WorkerStep, threadVars
  <2>2. CASE wpc \in {"pop", "retry"}
    BY <1>6, <2>1, <2>2 DEF WorkerStep, MutexInv
  <2>3. CASE wpc \notin {"pop", "retry"}
    BY <1>6, <2>1, <2>3, MutexKept DEF WorkerStep
  <2> QED BY <2>2, <2>3
<1>7. CASE Exited
  <2>1. UNCHANGED <<queueMutex, scopeMutex>>
    BY <1>7 DEF Exited
  <2>2. CASE Join(Main)
    BY <1>b, <1>e, <2>1, <2>2, MutexKept
  <2>3. CASE UNCHANGED vars
    BY <1>c, <2>1, <2>3, MutexKept
  <2> QED BY <1>7, <2>2, <2>3 DEF Exited
<1>8. ASSUME NEW b \in Bases, NEW s \in Signals, Signal(s, b)
      PROVE  MutexInv'
  BY <1>8, <1>c, MutexKept DEF Signal
<1>9. ASSUME NEW t \in App, NEW isStd \in BOOLEAN, Exception(t, isStd)
      PROVE  MutexInv'
  BY <1>9, <1>c, MutexKept DEF Exception
<1>10. ASSUME NEW t \in App, NEW e \in AppEvents, CaptureEvent(t, e)
       PROVE  MutexInv'
  BY <1>10, <1>b, <1>d, MutexKept DEF CaptureEvent, handlerVars
<1>11. CASE Exit
  BY <1>11, <1>b, <1>e, MutexKept DEF Exit
<1>12. CASE WorkerThrows
  BY <1>12, MutexKept DEF WorkerThrows, PostBadRetryAfter, Settle, threadVars
<1>13. ASSUME NEW h \in Signals, HandlerSwallowed(h)
       PROVE  MutexInv'
  BY <1>13, MutexKept DEF HandlerSwallowed, PostError, Settle, threadVars
<1> QED BY <1>0, <1>1, <1>2, <1>3, <1>4, <1>5, <1>6, <1>7, <1>8, <1>9, <1>10, <1>11, <1>12,
           <1>13 DEF CrashNext, Proceeds

\* Every variable keeps its type; and whoever holds m_tasksQueueMutex, wherever
\* signals strike, is about to push or to pop and has yet to do it.
THEOREM CrashTypeCorrect == CrashSpec => []CrashTypeOK
<1>1. CrashInit => MutexInv
  BY DEF CrashInit, MutexInv
<1>2. IndInv /\ MutexInv /\ [CrashNext]_crashVars => MutexInv'
  BY MutexStep
<1>3. CrashInv /\ MutexInv => CrashTypeOK
  BY DEF CrashInv, CrashTypes, MutexInv, CrashTypeOK
<1> QED BY <1>1, <1>2, <1>3, CrashInvariance, CrashIsTransport, Invariance, PTL DEF CrashSpec

-----------------------------------------------------------------------------
(***************************************************************************)
(* One crash is reported once.                                             *)
(***************************************************************************)
\* The report of the handler is in the queue, or on its way into it.
Reporting(h) == Queued(h) \/ apc[h] = "push"

\* One thing struck, on thread b, the worker's or another.  The handlers are
\* all on b; a report comes from the handler on top, until stop() is called,
\* and from then on addActionToQueue refuses the next one.
OnceInvOf(b) ==
  /\ \A c \in Bases : c # b => stack[c] = <<>>
  /\ \A c \in App : apc[c] \notin {"idle", "push"} => c = b
  /\ \A c \in Threads : apc[c] \notin {"idle", "push"} => m_shouldStop
  /\ m_shouldStop => \A h \in Handlers : apc[h] # "push"
  /\ \A h \in Handlers : Reporting(h) => h = Top(b) \/ m_shouldStop
  /\ \A g, h \in Handlers : Reporting(g) /\ Reporting(h) => g = h

OnceInv == \A b \in Bases : Single(b) => OnceInvOf(b)

\* After one thing struck, handlers are on that thread only.
LEMMA OnceIsOn ==
  ASSUME NEW b \in Bases, OnceInvOf(b), NEW c \in Bases, Top(c) \in Handlers
  PROVE  c = b
<1>1. c \notin Handlers
  BY HandlersAreThreads
<1> QED BY <1>1 DEF OnceInvOf, Top

\* A step that leaves the calls, the reports and the stacks alone.
LEMMA OnceSame ==
  ASSUME NEW b \in Bases, OnceInvOf(b), UNCHANGED <<stack, apc, m_shouldStop, ticket>>
  PROVE  OnceInvOf(b)'
  BY DEF OnceInvOf, Top, Reporting, Queued

\* The stack of b changes while no report is out, or after stop().
LEMMA OnceRises ==
  ASSUME NEW b \in Bases, OnceInvOf(b), UNCHANGED <<apc, m_shouldStop, ticket>>,
         \A c \in Bases : c # b => stack'[c] = stack[c],
         m_shouldStop \/ \A h \in Handlers : ~Reporting(h)
  PROVE  OnceInvOf(b)'
<1>1. \A h \in Handlers : Reporting(h)' <=> Reporting(h)
  BY DEF Reporting, Queued
<1> QED BY <1>1 DEF OnceInvOf

\* A push adds no second report.
LEMMA OncePush ==
  ASSUME NEW b \in Bases, OnceInvOf(b), IndInv, ReportInv, NEW c \in Threads, Push(c),
         UNCHANGED stack
  PROVE  OnceInvOf(b)'
<1>1. TypeOK /\ arg[c] \in Events /\ apc[c] = "push"
  BY DEF IndInv, TypeInv, SlotsOK, Push
<1>2. /\ \A d \in Threads : apc'[d] = IF d = c THEN "idle" ELSE apc[d]
      /\ \A e \in Events : ticket'[e] = IF e = arg[c] THEN arrived + 1 ELSE ticket[e]
      /\ m_shouldStop' = m_shouldStop
  BY <1>1 DEF Push, TypeOK
<1>3. \A h \in Handlers : h \in Threads /\ Report[h] \in Events
  BY HandlersAreThreads
<1>4. \A h \in Handlers : Report[h] = arg[c] => h = c
  BY <1>1, HandlersAreThreads DEF ReportInv
<1>5. \A h \in Handlers : Reporting(h)' => Reporting(h)
  BY <1>1, <1>2, <1>3, <1>4 DEF Reporting, Queued
<1>6. Top(b)' = Top(b)
  BY DEF Top
<1>7. App \subseteq Threads
  BY HandlersAreThreads
<1> QED BY <1>2, <1>3, <1>5, <1>6, <1>7 DEF OnceInvOf

\* A capture adds the report of the handler that makes it, and no other.
LEMMA OnceSend ==
  ASSUME NEW b \in Bases, OnceInvOf(b), IndInv, ReportInv, NEW c \in Threads, NEW e \in Events,
         SendEvent(c, e), UNCHANGED stack,
         c \in Handlers => e = Report[c] /\ Top(b) = c
  PROVE  OnceInvOf(b)'
<1>1. TypeOK /\ Fresh(e) /\ apc[c] = "idle"
  BY DEF IndInv, TypeInv, SendEvent
<1>2. /\ \A d \in Threads : d # c => apc'[d] = apc[d]
      /\ apc'[c] = IF m_shouldStop THEN "idle" ELSE "push"
      /\ m_shouldStop' = m_shouldStop /\ ticket' = ticket
  BY <1>1 DEF SendEvent, TypeOK
<1>3. Handlers \subseteq Threads /\ App \subseteq Threads
  BY HandlersAreThreads
<1>4. Top(b)' = Top(b)
  BY DEF Top
<1>5. \A h \in Handlers : Reporting(h)' => Reporting(h) \/ (h = c /\ ~m_shouldStop)
  BY <1>1, <1>2, <1>3 DEF Reporting, Queued
<1>6. c \in Handlers /\ ~m_shouldStop => \A h \in Handlers : ~Reporting(h)
  <2>1. c \in Handlers => ~Reporting(c)
    BY <1>1 DEF Reporting, Queued, Fresh
  <2> QED BY <2>1 DEF OnceInvOf
<1>7. /\ \A d \in App : apc'[d] \notin {"idle", "push"} => d = b
      /\ \A d \in Threads : apc'[d] \notin {"idle", "push"} => m_shouldStop'
      /\ \A d \in Bases : d # b => stack'[d] = <<>>
      /\ m_shouldStop' => \A h \in Handlers : apc'[h] # "push"
  BY <1>1, <1>2, <1>3 DEF OnceInvOf
<1>8. \A h \in Handlers : Reporting(h)' => h = Top(b)' \/ m_shouldStop'
  BY <1>2, <1>4, <1>5 DEF OnceInvOf
<1>9. \A g, h \in Handlers : Reporting(g)' /\ Reporting(h)' => g = h
  BY <1>5, <1>6 DEF OnceInvOf
<1> QED BY <1>7, <1>8, <1>9 DEF OnceInvOf

\* The handler on top of b, or Main, is in stop().
LEMMA OnceStop ==
  ASSUME NEW b \in Bases, OnceInvOf(b), IndInv, NEW c \in Threads, NEW w,
         Stop(c, w) \/ Join(c), UNCHANGED stack,
         c = Top(b), c \in App => c = b
  PROVE  OnceInvOf(b)'
<1>1. TypeOK
  BY DEF IndInv, TypeInv
<1>2. /\ \A d \in Threads : d # c => apc'[d] = apc[d]
      /\ apc'[c] \in {"join", "stopped", "threw"} /\ apc[c] # "push"
      /\ ticket' = ticket
      /\ Stop(c, w) => m_shouldStop' = TRUE
      /\ Join(c) => m_shouldStop' = m_shouldStop /\ apc[c] = "join"
  BY <1>1 DEF Stop, Join, history, TypeOK
<1>3. Handlers \subseteq Threads /\ App \subseteq Threads
  BY HandlersAreThreads
<1>4. m_shouldStop'
  BY <1>2 DEF OnceInvOf
<1>5. \A h \in Handlers : apc[h] # "push"
  BY <1>2 DEF OnceInvOf, Reporting
<1>6. \A h \in Handlers : Reporting(h)' => Reporting(h)
  BY <1>2, <1>3 DEF Reporting, Queued
<1>7. \A h \in Handlers : apc'[h] # "push"
  BY <1>2, <1>3, <1>5
<1>8. \A d \in App : apc'[d] \notin {"idle", "push"} => d = b
  BY <1>2, <1>3 DEF OnceInvOf
<1> QED BY <1>4, <1>6, <1>7, <1>8 DEF OnceInvOf

\* What strikes first strikes in peace.
LEMMA OnceStruck ==
  ASSUME NEW b \in Bases, Peace, ReportInv, UNCHANGED <<apc, m_shouldStop, ticket>>,
         \A c \in Bases : c # b => stack'[c] = stack[c]
  PROVE  OnceInvOf(b)'
<1>1. \A h \in Handlers : ~Queued(h) /\ apc[h] = "idle"
  BY PeaceFacts
<1>2. \A h \in Handlers : ~Reporting(h)' /\ apc'[h] = "idle"
  BY <1>1 DEF Reporting, Queued
<1>3. App \subseteq Threads
  BY HandlersAreThreads
<1> QED BY <1>2, <1>3 DEF OnceInvOf, Peace

\* The end of main is a cause without a handler.
LEMMA OnceExit ==
  ASSUME Peace, IndInv, ReportInv, Stop(Main, FALSE), UNCHANGED stack
  PROVE  OnceInvOf(Main)'
<1>1. /\ TypeOK /\ Main \in App /\ Main \in Threads /\ Main \in Bases /\ Main \notin Handlers
      /\ Handlers \subseteq Threads /\ App \subseteq Threads
  BY HandlersAreThreads DEF IndInv, TypeInv
<1>2. /\ \A d \in Threads : d # Main => apc'[d] = apc[d]
      /\ m_shouldStop' = TRUE /\ ticket' = ticket
  BY <1>1 DEF Stop, history, TypeOK
<1>3. \A h \in Handlers : ~Queued(h) /\ apc[h] = "idle"
  BY PeaceFacts
<1>4. \A h \in Handlers : ~Reporting(h)' /\ apc'[h] = "idle"
  BY <1>1, <1>2, <1>3 DEF Reporting, Queued
<1> QED BY <1>1, <1>2, <1>4 DEF OnceInvOf, Peace

\* Nothing strikes; something strikes b.
LEMMA OnceUnstruck ==
  ASSUME OnceInv, causes' = causes, \A b \in Bases : OnceInvOf(b) => OnceInvOf(b)'
  PROVE  OnceInv'
  BY DEF OnceInv, Single

\* The first thing that strikes begins the invariant.
LEMMA OnceNow ==
  ASSUME CrashInv, NEW b \in Bases, causes' = Append(causes, b), Peace => OnceInvOf(b)'
  PROVE  OnceInv'
<1>1. /\ Len(causes) \in Nat /\ Len(causes') = Len(causes) + 1
      /\ Len(causes) = 0 => causes'[1] = b
  BY DEF CrashInv, CrashTypes
<1>2. ASSUME NEW c \in Bases, Single(c)' PROVE OnceInvOf(c)'
  <2>1. Len(causes) = 0 /\ b = c
    BY <1>1, <1>2 DEF Single
  <2> QED BY <2>1 DEF CrashInv, PeaceInv
<1> QED BY <1>2 DEF OnceInv

\* OnceInv is preserved by every step.
LEMMA OnceStep == IndInv /\ CrashInv /\ OnceInv /\ [CrashNext]_crashVars => OnceInv'
<1> SUFFICES ASSUME IndInv, CrashInv, OnceInv, [CrashNext]_crashVars PROVE OnceInv'
  OBVIOUS
<1>a. CrashTypes /\ ReportInv
  BY DEF CrashInv
<1>b. /\ Handlers \subseteq Threads /\ App \subseteq Threads /\ App \subseteq Bases
      /\ WorkerThread \in Bases /\ \A b \in Bases : b \notin Handlers
  BY HandlersAreThreads
<1>c. ASSUME UNCHANGED vars PROVE UNCHANGED <<apc, m_shouldStop, ticket>>
  BY <1>c DEF vars, threadVars, history
<1>d. ASSUME UNCHANGED <<stack, apc, m_shouldStop, ticket, causes>> PROVE OnceInv'
  BY <1>d, OnceSame, OnceUnstruck
<1>e. ASSUME Worker PROVE UNCHANGED <<apc, m_shouldStop, ticket>>
  BY <1>e, WorkerEffect DEF threadVars
<1>0. CASE UNCHANGED crashVars
  BY <1>0, <1>c, <1>d DEF crashVars, handlerVars
<1>1. CASE Setup \/ TimePasses \/ Over
  <2>1. UNCHANGED <<stack, causes, apc, m_shouldStop, ticket>>
    BY <1>1, <1>c DEF Setup, TimePasses, Over, crashVars, handlerVars, Start, SetupClient,
                      Tick, threadVars, history
  <2> QED BY <1>d, <2>1
<1>2. ASSUME NEW b \in Bases, NEW c \in Contexts, LockQueue(b, c)
      PROVE  OnceInv'
  BY <1>2, <1>c, <1>d DEF LockQueue
<1>3. ASSUME NEW b \in Bases, NEW c \in Threads, PushLocked(b, c)
      PROVE  OnceInv'
  BY <1>3, <1>a, OncePush, OnceUnstruck DEF PushLocked
<1>4. ASSUME NEW b \in Bases, NEW c \in Threads, LockScope(b, c) \/ UnlockScope(b, c)
      PROVE  OnceInv'
  BY <1>4, <1>c, <1>d DEF LockScope, UnlockScope
<1>5. CASE WorkerStep
  BY <1>5, <1>d, <1>e DEF WorkerStep
<1>6. ASSUME NEW b \in Bases, NEW h \in Handlers, GetStacktrace(b, h)
      PROVE  OnceInv'
  <2>1. /\ Top(b) = h /\ hpc[h] = "trace" /\ UNCHANGED <<vars, causes>>
    BY <1>6 DEF GetStacktrace, Runs
  <2>2. UNCHANGED <<apc, m_shouldStop, ticket>>
    BY <1>c, <2>1
  <2>3. \A c \in Bases : c # b => stack'[c] = stack[c]
    <3>1. CASE stack' = stack
      BY <3>1
    <3>2. CASE Escape(b) \/ Begin(b, SIGSEGV)
      <4>1. Risen(b)
        BY <1>a, <3>2, EscapeRises, BeginRises, HandlersAreThreads
      <4> QED BY <4>1 DEF Risen
    <3> QED BY <1>6, <3>1, <3>2 DEF GetStacktrace
  <2>4. ~Reporting(h)
    BY <1>a, <2>1 DEF ReportInv, Fresh, Reporting, Queued
  <2>5. ASSUME NEW c \in Bases, OnceInvOf(c) PROVE OnceInvOf(c)'
    <3>1. c = b
      BY <2>1, <2>5, OnceIsOn
    <3>2. m_shouldStop \/ \A g \in Handlers : ~Reporting(g)
      BY <2>1, <2>4, <2>5, <3>1 DEF OnceInvOf
    <3> QED BY <2>2, <2>3, <2>5, <3>1, <3>2, OnceRises
  <2> QED BY <2>1, <2>5, OnceUnstruck
<1>7. ASSUME NEW b \in Bases, NEW h \in Handlers, HandlerCapture(b, h)
      PROVE  OnceInv'
  <2>1. /\ Top(b) = h /\ h \in Threads /\ SendEvent(h, Report[h]) /\ Report[h] \in Events
        /\ UNCHANGED <<stack, causes>>
    BY <1>7, <1>b, HandlersAreThreads DEF HandlerCapture, Runs
  <2>2. ASSUME NEW c \in Bases, OnceInvOf(c) PROVE OnceInvOf(c)'
    <3>1. c = b
      BY <2>1, <2>2, OnceIsOn
    <3> QED BY <1>a, <2>1, <2>2, <3>1, OnceSend
  <2> QED BY <2>1, <2>2, OnceUnstruck
<1>8. ASSUME NEW b \in Bases, NEW h \in Handlers, HandlerClose(b, h)
      PROVE  OnceInv'
  <2>1. /\ Top(b) = h /\ h \in Threads /\ h \notin App
        /\ Stop(h, b = WorkerThread) \/ Join(h)
        /\ UNCHANGED <<stack, causes>>
    BY <1>8, <1>b DEF HandlerClose, Runs, handlerVars
  <2>2. ASSUME NEW c \in Bases, OnceInvOf(c) PROVE OnceInvOf(c)'
    <3>1. c = b
      BY <2>1, <2>2, OnceIsOn
    <3> QED BY <2>1, <2>2, <3>1, OnceStop
  <2> QED BY <2>1, <2>2, OnceUnstruck
<1>9. ASSUME NEW b \in Bases, NEW h \in Handlers, HandlerThrows(b, h) \/ HandlerEnds(b, h)
      PROVE  OnceInv'
  <2>1. /\ Top(b) = h /\ h \in Threads /\ apc[h] \in {"threw", "stopped"}
        /\ UNCHANGED <<vars, causes>>
    BY <1>9, <1>b DEF HandlerThrows, HandlerEnds, Runs
  <2>2. UNCHANGED <<apc, m_shouldStop, ticket>>
    BY <1>c, <2>1
  <2>3. \A c \in Bases : c # b => stack'[c] = stack[c]
    <3>1. CASE stack' = stack
      BY <3>1
    <3>2. CASE Escape(b) \/ Abort(b)
      <4>1. Risen(b)
        BY <1>a, <3>2, EscapeRises, AbortRises
      <4> QED BY <4>1 DEF Risen
    <3> QED BY <1>9, <3>1, <3>2 DEF HandlerThrows, HandlerEnds
  <2>4. ASSUME NEW c \in Bases, OnceInvOf(c) PROVE OnceInvOf(c)'
    <3>1. c = b
      BY <2>1, <2>4, OnceIsOn
    <3>2. m_shouldStop
      BY <2>1, <2>4 DEF OnceInvOf
    <3> QED BY <2>2, <2>3, <2>4, <3>1, <3>2, OnceRises
  <2> QED BY <2>1, <2>4, OnceUnstruck
<1>10. CASE Exited
  <2>1. /\ Top(Main) = Main /\ Main \in Bases /\ Main \in App /\ Main \in Threads
        /\ apc[Main] \in {"join", "stopped", "threw"} /\ causes' = causes
    BY <1>10, HandlersAreThreads DEF Exited, Runs, Join
  <2>2. ASSUME NEW c \in Bases, OnceInvOf(c) PROVE c = Main /\ m_shouldStop
    BY <2>1, <2>2 DEF OnceInvOf
  <2>3. CASE Join(Main) /\ UNCHANGED stack
    BY <2>1, <2>2, <2>3, OnceStop, OnceUnstruck
  <2>4. CASE UNCHANGED vars
    <3>1. \A c \in Bases : c # Main => stack'[c] = stack[c]
      <4>1. CASE stack' = stack
        BY <4>1
      <4>2. CASE Escape(Main)
        <5>1. Risen(Main)
          BY <1>a, <2>1, <4>2, EscapeRises
        <5> QED BY <5>1 DEF Risen
      <4> QED BY <1>10, <4>1, <4>2 DEF Exited
    <3>2. ASSUME NEW c \in Bases, OnceInvOf(c) PROVE OnceInvOf(c)'
      BY <1>c, <2>2, <2>4, <3>1, <3>2, OnceRises
    <3> QED BY <2>1, <3>2, OnceUnstruck
  <2> QED BY <1>10, <2>3, <2>4 DEF Exited
<1>11. ASSUME NEW b \in Bases, causes' = Append(causes, b), Risen(b),
              UNCHANGED <<apc, m_shouldStop, ticket>>
       PROVE  OnceInv'
  <2>1. Peace => OnceInvOf(b)'
    BY <1>a, <1>11, OnceStruck DEF Risen
  <2> QED BY <1>11, <2>1, OnceNow
<1>12. ASSUME NEW b \in Bases, NEW s \in Signals, Signal(s, b)
       PROVE  OnceInv'
  BY <1>a, <1>c, <1>11, <1>12, BeginRises, HandlersAreThreads DEF Signal, Strikes
<1>13. ASSUME NEW t \in App, NEW isStd \in BOOLEAN, Exception(t, isStd)
       PROVE  OnceInv'
  <2>1. t \in Bases /\ Risen(t)
    BY <1>a, <1>13, BeginRises, AbortRises, HandlersAreThreads DEF Exception
  <2> QED BY <1>c, <1>11, <1>13, <2>1 DEF Exception, Strikes
<1>14. ASSUME NEW t \in App, NEW e \in AppEvents, CaptureEvent(t, e)
       PROVE  OnceInv'
  <2>1. /\ SendEvent(t, e) /\ t \in Threads /\ t \notin Handlers /\ e \in Events
        /\ UNCHANGED <<stack, causes>>
    BY <1>14, HandlersAreThreads DEF CaptureEvent, handlerVars
  <2> QED BY <1>a, <2>1, OnceSend, OnceUnstruck
<1>15. CASE Exit
  <2>1. /\ Stop(Main, FALSE) /\ Main \in Bases /\ causes' = Append(causes, Main)
        /\ UNCHANGED stack
    BY <1>15, HandlersAreThreads DEF Exit, Strikes
  <2> QED BY <1>a, <2>1, OnceExit, OnceNow
<1>16. CASE WorkerThrows
  <2>1. /\ Worker /\ Begin(WorkerThread, terminate[WorkerThread])
        /\ causes' = Append(causes, WorkerThread)
    BY <1>16 DEF WorkerThrows, Strikes, Worker
  <2>2. Risen(WorkerThread)
    BY <1>a, <1>b, <2>1, BeginRises, HandlersAreThreads
  <2> QED BY <1>b, <1>e, <1>11, <2>1, <2>2
<1>17. ASSUME NEW h \in Signals, HandlerSwallowed(h)
       PROVE  OnceInv'
  <2>1. /\ h \in Handlers /\ h \in Threads /\ Top(WorkerThread) = h /\ Worker
        /\ apc[h] = "threw" /\ stack' = [stack EXCEPT ![WorkerThread] = <<>>]
        /\ causes' = causes
    BY <1>b, <1>17, HandlersAreThreads DEF HandlerSwallowed, Runs, Worker
  <2>2. \A c \in Bases : c # WorkerThread => stack'[c] = stack[c]
    BY <1>a, <2>1 DEF CrashTypes
  <2>3. ASSUME NEW c \in Bases, OnceInvOf(c) PROVE OnceInvOf(c)'
    <3>1. c = WorkerThread /\ m_shouldStop
      BY <1>b, <2>1, <2>3, OnceIsOn DEF OnceInvOf
    <3> QED BY <1>e, <2>1, <2>2, <2>3, <3>1, OnceRises
  <2> QED BY <2>1, <2>3, OnceUnstruck
<1> QED BY <1>0, <1>1, <1>2, <1>3, <1>4, <1>5, <1>6, <1>7, <1>8, <1>9, <1>10, <1>12, <1>13,
           <1>14, <1>15, <1>16, <1>17 DEF CrashNext, Proceeds, Handle

\* One crash, of an application thread or of the worker, leaves one report,
\* although the end of its handler raises SIGABRT and what it throws
\* terminates again: the handler that reports has called stop() before another
\* can run, and stop() closes the queue.
THEOREM CrashIsReportedOnce == CrashSpec => []ReportedOnce
<1>1. CrashInit => OnceInv
  <2>1. CrashInit => Len(causes) = 0
    BY DEF CrashInit
  <2> QED BY <2>1 DEF OnceInv, Single
<1>2. IndInv /\ CrashInv /\ OnceInv /\ [CrashNext]_crashVars => OnceInv'
  BY OnceStep
<1>3. CrashInv /\ OnceInv => ReportedOnce
  <2> SUFFICES ASSUME CrashInv, OnceInv, Len(causes) <= 1,
                      NEW g \in Handlers, NEW h \in Handlers, Queued(g), Queued(h)
               PROVE  g = h
    BY DEF ReportedOnce
  <2>1. causes \in Seq(Bases) /\ Len(causes) \in Nat
    BY DEF CrashInv, CrashTypes
  <2>2. CASE Len(causes) = 0
    BY <2>2, PeaceFacts DEF CrashInv, PeaceInv
  <2>3. CASE Len(causes) = 1
    <3>1. causes[1] \in Bases
      BY <2>1, <2>3
    <3>2. OnceInvOf(causes[1])
      BY <2>3, <3>1 DEF OnceInv, Single
    <3> QED BY <3>2 DEF OnceInvOf, Reporting
  <2> QED BY <2>1, <2>2, <2>3
<1> QED BY <1>1, <1>2, <1>3, CrashInvariance, CrashIsTransport, Invariance, PTL DEF CrashSpec
=============================================================================
