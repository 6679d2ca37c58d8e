-------------------------- MODULE TransportProofs --------------------------
(***************************************************************************)
(* Machine-checked proofs about Transport, for every set of events, every  *)
(* finite set of threads, every timeout and every set of responses.        *)
(***************************************************************************)
EXTENDS Transport, TLAPS, SequenceTheorems, FiniteSetTheorems

\* The one-line helpers of the actions are always expanded.
USE DEF Initialised, Accepting, Enqueue, Drained, NothingToSend, Dequeue, MayRetry,
        TimeAfterError, StateAfterError

-----------------------------------------------------------------------------
(***************************************************************************)
(* The queue.                                                              *)
(***************************************************************************)

\* What addActionToQueue's m_tasks.push does to the queue.
LEMMA AppendTask ==
  ASSUME NEW q \in Seq(Task), NEW x \in Task
  PROVE  /\ Append(q, x) \in Seq(Task)
         /\ Append(q, x) # <<>>
         /\ Len(Append(q, x)) = Len(q) + 1
         /\ Len(q) \in Nat /\ DOMAIN q = 1..Len(q)
         /\ DOMAIN Append(q, x) = 1..(Len(q) + 1)
         /\ \A i \in 1..Len(q) : Append(q, x)[i] = q[i]
         /\ Append(q, x)[Len(q) + 1] = x
  BY DEF Task

\* What m_tasks.front() and m_tasks.pop() do to it.
LEMMA PopTask ==
  ASSUME NEW q \in Seq(Task), q # <<>>
  PROVE  /\ Head(q) = q[1] /\ Head(q) \in Task
         /\ Tail(q) \in Seq(Task)
         /\ Len(Tail(q)) = Len(q) - 1
         /\ Len(q) \in Nat \ {0}
         /\ DOMAIN q = 1..Len(q)
         /\ DOMAIN Tail(q) = 1..(Len(q) - 1)
         /\ \A i \in 1..(Len(q) - 1) : Tail(q)[i] = q[i + 1]
<1>1. Len(q) \in Nat \ {0} /\ DOMAIN q = 1..Len(q)
  BY EmptySeq, LenProperties
<1>2. /\ Head(q) \in Task
      /\ Tail(q) \in Seq(Task)
      /\ Len(Tail(q)) = Len(q) - 1
      /\ \A i \in 1..Len(Tail(q)) : Tail(q)[i] = q[i + 1]
  BY HeadTailProperties
<1>3. DOMAIN Tail(q) = 1..(Len(q) - 1)
  BY <1>2, LenProperties
<1>4. Head(q) = q[1]
  OBVIOUS
<1>5. QED
  BY <1>1, <1>2, <1>3, <1>4

-----------------------------------------------------------------------------
(***************************************************************************)
(* Type correctness needs two facts more: an argument is there while it is *)
(* being pushed, and the worker holds a task exactly while it works on it. *)
(***************************************************************************)
SlotsOK ==
  /\ \A t \in Threads : IF apc[t] = "push" THEN arg[t] \in Events
                                           ELSE arg[t] = NoEvent
  /\ IF wpc \in {"post", "retry"} THEN task \in Task ELSE task = NoTask

\* The assertion of performSendEvents is part of the invariant: Pop takes
\* the head of a queue that has one.
TypeInv == TypeOK /\ SlotsOK /\ PopFindsTask

LEMMA InitTypeInv == Init => TypeInv
<1> SUFFICES ASSUME Init PROVE TypeInv
  OBVIOUS
<1>1. m_tasks \in Seq(Task)
  BY EmptySeq DEF Init
<1>2. TypeOK
  <2>1. elapsed \in 0..ReconnectTimeout /\ sinceError \in 0..ReconnectTimeout
    BY TransportAssumption DEF Init
  <2>2. /\ outcome \in [Events -> Outcome]
        /\ posts \in [Events -> Nat]
        /\ ticket \in [Events -> Nat]
    BY DEF Init, Outcome
  <2>3. /\ apc \in [Threads -> {"idle", "push", "join", "stopped", "threw"}]
        /\ arg \in [Threads -> Events \cup {NoEvent}]
    BY DEF Init
  <2>4. QED
    BY <1>1, <2>1, <2>2, <2>3 DEF Init, TypeOK, State
<1>3. SlotsOK /\ PopFindsTask
  BY DEF Init, SlotsOK, PopFindsTask
<1>4. QED
  BY <1>2, <1>3 DEF TypeInv

LEMMA NextTypeInv == TypeInv /\ [Next]_vars => TypeInv'
<1> SUFFICES ASSUME TypeInv, [Next]_vars PROVE TypeInv'
  OBVIOUS
<1> USE TransportAssumption DEF TypeInv, SlotsOK, PopFindsTask, TypeOK
<1>1. CASE Start
  BY <1>1 DEF Start, threadVars, history
<1>2. CASE SetupClient
  BY <1>2 DEF SetupClient, workerVars, history
<1>3. ASSUME NEW t \in Threads, NEW e \in Events, SendEvent(t, e)
      PROVE  TypeInv'
  <2>1. UNCHANGED <<workerVars, joiner, m_shouldStop, client, m_tasks,
                    posts, ticket, arrived, firstPosts, sinceError>>
    BY <1>3 DEF SendEvent
  <2>2. CASE m_shouldStop
    BY <1>3, <2>1, <2>2 DEF SendEvent, workerVars, Outcome
  <2>3. CASE ~m_shouldStop
    BY <1>3, <2>1, <2>3 DEF SendEvent, workerVars
  <2>4. QED
    BY <2>2, <2>3
<1>4. ASSUME NEW t \in Threads, Push(t)
      PROVE  TypeInv'
  <2>1. [event |-> arg[t], isRetrying |-> FALSE] \in Task
    BY <1>4 DEF Push, Task
  <2>2. m_tasks' \in Seq(Task) /\ m_tasks' # <<>>
    BY <1>4, <2>1, AppendTask DEF Push
  <2>3. QED
    BY <1>4, <2>2 DEF Push, workerVars
<1>5. ASSUME NEW t \in Threads, NEW w \in BOOLEAN, Stop(t, w)
      PROVE  TypeInv'
  BY <1>5 DEF Stop, workerVars, history
<1>6. ASSUME NEW t \in Threads, Join(t)
      PROVE  TypeInv'
  BY <1>6 DEF Join, workerVars, history
<1>7. CASE RunLoop
  BY <1>7 DEF RunLoop, threadVars, history
<1>8. CASE DrainLoop
  BY <1>8 DEF DrainLoop, threadVars, history
<1>9. CASE PerformNoConnection
  BY <1>9 DEF PerformNoConnection, threadVars, history, State
<1>10. CASE PerformSendEvents
  BY <1>10 DEF PerformSendEvents, threadVars, history
<1>11. CASE PerformDropEvents
  BY <1>11 DEF PerformDropEvents, threadVars, history
<1>12. CASE Pop
  <2>1. task' \in Task /\ m_tasks' \in Seq(Task)
    BY <1>12, PopTask DEF Pop
  <2>2. firstPosts' \in Nat
    BY <1>12 DEF Pop
  <2>3. QED
    BY <1>12, <2>1, <2>2 DEF Pop, threadVars
<1>13. CASE PostOk
  BY <1>13 DEF PostOk, Settle, threadVars, Task, Outcome
<1>14. CASE PostTooManyRequests
  BY <1>14 DEF PostTooManyRequests, Settle, threadVars, Task, Outcome, State
<1>15. CASE PostBadRetryAfter
  BY <1>15 DEF PostBadRetryAfter, Settle, threadVars, Task, Outcome
<1>16. CASE PostError
  BY <1>16 DEF PostError, Settle, threadVars, Task, Outcome, State
<1>17. CASE PostRejected
  <2>1. task.event \in Events
    BY <1>17 DEF PostRejected, Task
  <2>2. posts' \in [Events -> Nat]
    BY <1>17, <2>1 DEF PostRejected
  <2>3. outcome' = outcome \/ outcome' = [outcome EXCEPT ![task.event] = "rejected"]
    BY <1>17 DEF PostRejected
  <2>4. outcome' \in [Events -> Outcome]
    BY <2>1, <2>3 DEF Outcome
  <2>5. QED
    BY <1>17, <2>2, <2>4 DEF PostRejected, threadVars
<1>18. CASE PushRetry
  <2>1. [event |-> task.event, isRetrying |-> TRUE] \in Task
    BY <1>18 DEF PushRetry, Task
  <2>2. m_tasks' \in Seq(Task)
    BY <1>18, <2>1, AppendTask DEF PushRetry
  <2>3. QED
    BY <1>18, <2>2 DEF PushRetry, threadVars, history
<1>19. CASE Tick
  BY <1>19 DEF Tick, threadVars
<1>20. CASE UNCHANGED vars
  BY <1>20 DEF vars, workerVars, threadVars, history
<1>21. QED
  BY <1>1, <1>2, <1>3, <1>4, <1>5, <1>6, <1>7, <1>8, <1>9, <1>10, <1>11,
     <1>12, <1>13, <1>14, <1>15, <1>16, <1>17, <1>18, <1>19, <1>20
  DEF Next, Worker, Ended

\* Every reachable state of the transport is well typed.
THEOREM TypeCorrect == Spec => []TypeOK
<1>1. TypeInv => TypeOK
  BY DEF TypeInv
<1>2. QED
  BY <1>1, InitTypeInv, NextTypeInv, PTL DEF Spec

\* The assertion of performSendEvents (transport.cpp, line 176) never fails,
\* although the queue is tested without the lock: only the worker pops.
THEOREM AssertionHolds == Spec => []PopFindsTask
<1>1. TypeInv => PopFindsTask
  BY DEF TypeInv
<1>2. QED
  BY <1>1, InitTypeInv, NextTypeInv, PTL DEF Spec

-----------------------------------------------------------------------------
(***************************************************************************)
(* The inductive invariant.                                                *)
(***************************************************************************)

\* Nothing is queued before setupClient has created the HTTP client.
ClientInv ==
  /\ wpc = "unborn" => ~client
  /\ ~client => /\ m_tasks = <<>>
                /\ task = NoTask
                /\ \A t \in Threads : apc[t] = "idle"

\* The state machine sends only once the timeout is over.
TimeInv ==
  /\ elapsed = sinceError
  /\ m_state = "SEND_EVENTS" => elapsed = ReconnectTimeout
  /\ wpc \in {"pop", "post", "retry"} => m_state = "SEND_EVENTS"

\* Where an event can be: nowhere yet, about to be pushed by one thread, in
\* one queue slot, or in the worker's hand.
PlaceInv ==
  /\ OnePlace
  /\ \A t \in Threads :
       apc[t] = "push" => outcome[arg[t]] = "none" /\ ticket[arg[t]] = 0
  /\ \A t, u \in Threads :
       apc[t] = "push" /\ apc[u] = "push" /\ arg[t] = arg[u] => t = u

\* The first attempts still in the queue are those of the events numbered
\* firstPosts + 1 .. arrived, in this order.
First(i) == ~m_tasks[i].isRetrying
TicketAt(i) == ticket[m_tasks[i].event]

OrderInv ==
  /\ firstPosts <= arrived
  /\ \A i \in DOMAIN m_tasks :
       First(i) => firstPosts < TicketAt(i) /\ TicketAt(i) <= arrived
  /\ \A i, j \in DOMAIN m_tasks :
       First(i) /\ First(j) /\ i < j => TicketAt(i) < TicketAt(j)
  /\ \A k \in (firstPosts + 1)..arrived : \E i \in DOMAIN m_tasks :
       First(i) /\ TicketAt(i) = k
  /\ FirstAttemptsInOrder

\* A task that is not a retry has not been POSTed, a retry once.
AttemptInv ==
  /\ \A e \in Events : ticket[e] = 0 => posts[e] = 0
  /\ \A i \in DOMAIN m_tasks :
       posts[m_tasks[i].event] = IF m_tasks[i].isRetrying THEN 1 ELSE 0
  /\ wpc = "post" => posts[task.event] = IF task.isRetrying THEN 1 ELSE 0
  /\ wpc = "retry" => posts[task.event] = 1 /\ ~task.isRetrying

IndInv == TypeInv /\ ClientInv /\ TimeInv /\ PlaceInv /\ OrderInv /\ AttemptInv

LEMMA InitIndInv == Init => IndInv
<1> SUFFICES ASSUME Init PROVE IndInv
  OBVIOUS
<1>1. TypeInv
  BY InitTypeInv
<1>2. DOMAIN m_tasks = {}
  BY DEF Init
<1>3. ClientInv /\ TimeInv
  BY DEF Init, ClientInv, TimeInv
<1>4. PlaceInv
  BY <1>2, TransportAssumption DEF Init, PlaceInv, OnePlace, InQueue, InHand, NoTask
<1>5. OrderInv
  BY <1>2 DEF Init, OrderInv, FirstAttemptsInOrder
<1>6. AttemptInv
  BY <1>2 DEF Init, AttemptInv
<1>7. QED
  BY <1>1, <1>3, <1>4, <1>5, <1>6 DEF IndInv

-----------------------------------------------------------------------------
LEMMA NextClientInv == TypeInv /\ ClientInv /\ [Next]_vars => ClientInv'
<1> SUFFICES ASSUME TypeInv, ClientInv, [Next]_vars PROVE ClientInv'
  OBVIOUS
<1> USE TransportAssumption DEF TypeInv, TypeOK, SlotsOK, PopFindsTask, ClientInv
<1>1. CASE Start
  BY <1>1 DEF Start, threadVars
<1>2. CASE SetupClient
  BY <1>2 DEF SetupClient, workerVars
<1>3. ASSUME NEW t \in Threads, NEW e \in Events, SendEvent(t, e)
      PROVE  ClientInv'
  BY <1>3 DEF SendEvent, workerVars
<1>4. ASSUME NEW t \in Threads, NEW w \in BOOLEAN, Push(t) \/ Stop(t, w) \/ Join(t)
      PROVE  ClientInv'
  BY <1>4 DEF Push, Stop, Join, workerVars
<1>5. CASE RunLoop \/ DrainLoop
  BY <1>5 DEF RunLoop, DrainLoop, threadVars
<1>6. CASE PerformNoConnection \/ PerformSendEvents \/ PerformDropEvents
  BY <1>6 DEF PerformNoConnection, PerformSendEvents, PerformDropEvents, threadVars
<1>7. CASE Pop
  BY <1>7 DEF Pop, threadVars
<1>8. CASE PostOk \/ PostTooManyRequests \/ PostBadRetryAfter \/ PostError
  BY <1>8 DEF PostOk, PostTooManyRequests, PostBadRetryAfter, PostError, Settle, threadVars
<1>9. CASE PostRejected
  BY <1>9 DEF PostRejected, threadVars
<1>10. CASE PushRetry
  <2>1. task # NoTask
    BY <1>10 DEF PushRetry, Task, NoTask
  <2>2. QED
    BY <1>10, <2>1 DEF PushRetry, threadVars
<1>11. CASE Tick
  BY <1>11 DEF Tick, threadVars
<1>12. CASE UNCHANGED vars
  BY <1>12 DEF vars, workerVars, threadVars
<1>13. QED
  BY <1>1, <1>2, <1>3, <1>4, <1>5, <1>6, <1>7, <1>8, <1>9, <1>10, <1>11, <1>12
  DEF Next, Worker, Ended

LEMMA NextTimeInv == TypeInv /\ TimeInv /\ [Next]_vars => TimeInv'
<1> SUFFICES ASSUME TypeInv, TimeInv, [Next]_vars PROVE TimeInv'
  OBVIOUS
<1> USE TransportAssumption DEF TypeInv, TypeOK, TimeInv
<1>1. CASE Start \/ SetupClient
  BY <1>1 DEF Start, SetupClient, workerVars, history
<1>2. ASSUME NEW t \in Threads, NEW e \in Events, SendEvent(t, e)
      PROVE  TimeInv'
  BY <1>2 DEF SendEvent, workerVars
<1>3. ASSUME NEW t \in Threads, NEW w \in BOOLEAN, Push(t) \/ Stop(t, w) \/ Join(t)
      PROVE  TimeInv'
  BY <1>3 DEF Push, Stop, Join, workerVars, history
<1>4. CASE RunLoop \/ DrainLoop
  BY <1>4 DEF RunLoop, DrainLoop, history
<1>5. CASE PerformNoConnection \/ PerformSendEvents \/ PerformDropEvents
  BY <1>5 DEF PerformNoConnection, PerformSendEvents, PerformDropEvents,
              reconnectTimeoutReached, history
<1>6. CASE Pop
  BY <1>6 DEF Pop
<1>7. CASE PostOk \/ PostTooManyRequests \/ PostBadRetryAfter \/ PostError
  BY <1>7 DEF PostOk, PostTooManyRequests, PostBadRetryAfter, PostError, Settle
<1>8. CASE PostRejected \/ PushRetry
  BY <1>8 DEF PostRejected, PushRetry, history
<1>9. CASE Tick
  BY <1>9 DEF Tick
<1>10. CASE UNCHANGED vars
  BY <1>10 DEF vars, workerVars, history
<1>11. QED
  BY <1>1, <1>2, <1>3, <1>4, <1>5, <1>6, <1>7, <1>8, <1>9, <1>10
  DEF Next, Worker, Ended

-----------------------------------------------------------------------------
\* Which events are queued after a push.
LEMMA InQueueAppend ==
  ASSUME TypeOK, NEW x \in Task, m_tasks' = Append(m_tasks, x)
  PROVE  \A e \in Events : InQueue(e)' <=> InQueue(e) \/ e = x.event
<1> DEFINE n == Len(m_tasks)
<1>1. /\ n \in Nat
      /\ DOMAIN m_tasks = 1..n
      /\ DOMAIN m_tasks' = 1..(n + 1)
      /\ \A i \in 1..n : m_tasks'[i] = m_tasks[i]
      /\ m_tasks'[n + 1] = x
  BY AppendTask DEF TypeOK
<1> HIDE DEF n
<1>2. TAKE e \in Events
<1>3. ASSUME NEW i \in 1..(n + 1), m_tasks'[i].event = e
      PROVE  InQueue(e) \/ e = x.event
  <2>1. CASE i = n + 1
    BY <1>1, <1>3, <2>1
  <2>2. CASE i \in 1..n
    BY <1>1, <1>3, <2>2 DEF InQueue
  <2>3. QED
    BY <1>1, <2>1, <2>2
<1>4. ASSUME NEW i \in 1..n, m_tasks[i].event = e
      PROVE  i \in DOMAIN m_tasks' /\ m_tasks'[i].event = e
  BY <1>1, <1>4
<1>5. n + 1 \in DOMAIN m_tasks' /\ m_tasks'[n + 1].event = x.event
  BY <1>1
<1>6. QED
  BY <1>1, <1>3, <1>4, <1>5 DEF InQueue

\* Which events are queued after a pop.
LEMMA InQueuePop ==
  ASSUME TypeOK, m_tasks # <<>>, m_tasks' = Tail(m_tasks)
  PROVE  \A e \in Events : InQueue(e) <=> InQueue(e)' \/ e = Head(m_tasks).event
<1> DEFINE n == Len(m_tasks)
<1>1. /\ n \in Nat \ {0}
      /\ DOMAIN m_tasks = 1..n
      /\ DOMAIN m_tasks' = 1..(n - 1)
      /\ Head(m_tasks) = m_tasks[1]
      /\ \A i \in 1..(n - 1) : m_tasks'[i] = m_tasks[i + 1]
  BY PopTask DEF TypeOK
<1> HIDE DEF n
<1>2. TAKE e \in Events
<1>3. ASSUME NEW i \in 1..n, m_tasks[i].event = e
      PROVE  InQueue(e)' \/ e = Head(m_tasks).event
  <2>1. CASE i = 1
    BY <1>1, <1>3, <2>1
  <2>2. CASE i # 1
    <3>1. i - 1 \in DOMAIN m_tasks' /\ m_tasks'[i - 1] = m_tasks[(i - 1) + 1]
      BY <1>1, <2>2
    <3>2. m_tasks'[i - 1].event = e
      BY <1>1, <1>3, <3>1
    <3>3. QED
      BY <3>1, <3>2 DEF InQueue
  <2>3. QED
    BY <2>1, <2>2
<1>4. ASSUME NEW i \in 1..(n - 1), m_tasks'[i].event = e
      PROVE  i + 1 \in DOMAIN m_tasks /\ m_tasks[i + 1].event = e
  BY <1>1, <1>4
<1>5. 1 \in DOMAIN m_tasks
  BY <1>1
<1>6. QED
  BY <1>1, <1>3, <1>4, <1>5 DEF InQueue

\* A step that moves no task, no argument and no outcome.
Quiet == UNCHANGED <<m_tasks, task, arg, outcome, ticket>>

LEMMA QuietPlaceInv ==
  ASSUME TypeOK, TypeOK', PlaceInv, Quiet,
         \A t \in Threads : apc'[t] = "push" => apc[t] = "push"
  PROVE  PlaceInv'
  BY DEF PlaceInv, OnePlace, InQueue, InHand, Quiet

LEMMA NextPlaceInv == TypeInv /\ TypeInv' /\ PlaceInv /\ [Next]_vars => PlaceInv'
<1> SUFFICES ASSUME TypeInv, TypeInv', PlaceInv, [Next]_vars PROVE PlaceInv'
  OBVIOUS
<1>a. TypeOK /\ SlotsOK /\ PopFindsTask /\ TypeOK'
  BY DEF TypeInv
<1>1. CASE Start \/ SetupClient
  BY <1>1, <1>a, QuietPlaceInv DEF Start, SetupClient, workerVars, threadVars, history, Quiet
<1>2. ASSUME NEW t \in Threads, NEW e \in Events, SendEvent(t, e)
      PROVE  PlaceInv'
  <2>1. /\ outcome[e] = "none" /\ ticket[e] = 0
        /\ \A u \in Threads : arg[u] # e
        /\ UNCHANGED <<m_tasks, task, ticket>>
    BY <1>2 DEF SendEvent, Fresh, workerVars
  <2>2. ~InQueue(e) /\ ~InHand(e)
    BY <2>1 DEF PlaceInv, OnePlace
  <2>3. CASE m_shouldStop
    <3>1. /\ UNCHANGED <<apc, arg>>
          /\ outcome' = [outcome EXCEPT ![e] = "refused"]
      BY <1>2, <2>3 DEF SendEvent
    <3>2. \A f \in Events : (InQueue(f)' <=> InQueue(f)) /\ (InHand(f)' <=> InHand(f))
      BY <2>1 DEF InQueue, InHand
    <3>3. \A f \in Events : f # e => outcome'[f] = outcome[f]
      BY <1>a, <3>1 DEF TypeOK
    <3>4. OnePlace'
      BY <2>1, <2>2, <3>2, <3>3 DEF PlaceInv, OnePlace
    <3>5. QED
      BY <1>a, <2>1, <3>1, <3>3, <3>4 DEF PlaceInv, SlotsOK
  <2>4. CASE ~m_shouldStop
    <3>1. /\ UNCHANGED outcome
          /\ apc' = [apc EXCEPT ![t] = "push"]
          /\ arg' = [arg EXCEPT ![t] = e]
      BY <1>2, <2>4 DEF SendEvent
    <3>2. OnePlace'
      BY <2>1, <3>1 DEF PlaceInv, OnePlace, InQueue, InHand
    <3>3. \A u \in Threads : u # t => apc'[u] = apc[u] /\ arg'[u] = arg[u]
      BY <1>a, <3>1 DEF TypeOK
    <3>4. arg'[t] = e
      BY <1>a, <3>1 DEF TypeOK
    <3>5. QED
      BY <1>a, <2>1, <3>1, <3>2, <3>3, <3>4 DEF PlaceInv
  <2>5. QED
    BY <2>3, <2>4
<1>3. ASSUME NEW t \in Threads, Push(t)
      PROVE  PlaceInv'
  <2> DEFINE e0 == arg[t]
             x == [event |-> e0, isRetrying |-> FALSE]
  <2>1. e0 \in Events /\ outcome[e0] = "none" /\ ticket[e0] = 0
    BY <1>3, <1>a DEF Push, SlotsOK, PlaceInv
  <2>2. x \in Task /\ x.event = e0
    BY <2>1 DEF Task
  <2>3. /\ m_tasks' = Append(m_tasks, x)
        /\ ticket' = [ticket EXCEPT ![e0] = arrived + 1]
        /\ UNCHANGED <<task, outcome>>
    BY <1>3 DEF Push, workerVars
  <2>4. ~InQueue(e0) /\ ~InHand(e0)
    BY <2>1 DEF PlaceInv, OnePlace
  <2> HIDE DEF x
  <2>5. \A e \in Events : InQueue(e)' <=> InQueue(e) \/ e = e0
    BY <1>a, <2>2, <2>3, InQueueAppend
  <2>6. \A e \in Events : ticket'[e] > 0 <=> ticket[e] > 0 \/ e = e0
    <3>1. ticket \in [Events -> Nat] /\ arrived \in Nat
      BY <1>a DEF TypeOK
    <3>2. ticket'[e0] = arrived + 1 /\ \A e \in Events : e # e0 => ticket'[e] = ticket[e]
      BY <2>1, <2>3, <3>1
    <3>3. QED
      BY <2>1, <3>1, <3>2
  <2>7. \A i, j \in DOMAIN m_tasks' : m_tasks'[i].event = m_tasks'[j].event => i = j
    <3>1. /\ Len(m_tasks) \in Nat
          /\ DOMAIN m_tasks = 1..Len(m_tasks)
          /\ DOMAIN m_tasks' = 1..(Len(m_tasks) + 1)
          /\ \A i \in 1..Len(m_tasks) : m_tasks'[i] = m_tasks[i]
          /\ m_tasks'[Len(m_tasks) + 1] = x
      BY <1>a, <2>2, <2>3, AppendTask DEF TypeOK
    <3>2. \A i \in 1..Len(m_tasks) : m_tasks[i].event # e0
      BY <2>4, <3>1 DEF InQueue
    <3>3. QED
      BY <2>2, <3>1, <3>2 DEF PlaceInv, OnePlace
  <2>8. OnePlace'
    BY <2>3, <2>1, <2>4, <2>5, <2>6, <2>7 DEF PlaceInv, OnePlace, InHand
  <2>9. \A u \in Threads : apc'[u] = "push" =>
          apc[u] = "push" /\ u # t /\ arg'[u] = arg[u]
    BY <1>3, <1>a DEF Push, TypeOK
  <2>10. \A u \in Threads : apc'[u] = "push" => arg[u] # e0 /\ arg[u] \in Events
    BY <1>3, <1>a, <2>9 DEF Push, PlaceInv, SlotsOK
  <2>11. QED
    BY <1>a, <2>3, <2>8, <2>9, <2>10 DEF PlaceInv, TypeOK
<1>4. ASSUME NEW t \in Threads, NEW w \in BOOLEAN, Stop(t, w) \/ Join(t)
      PROVE  PlaceInv'
  <2>1. Quiet
    BY <1>4 DEF Stop, Join, Quiet, workerVars, history
  <2>2. \A u \in Threads : apc'[u] = "push" => apc[u] = "push"
    BY <1>4, <1>a DEF Stop, Join, TypeOK
  <2>3. QED
    BY <1>a, <2>1, <2>2, QuietPlaceInv
<1>5. CASE RunLoop \/ DrainLoop
  BY <1>5, <1>a, QuietPlaceInv DEF RunLoop, DrainLoop, threadVars, history, Quiet
<1>6. CASE PerformNoConnection \/ PerformSendEvents \/ PerformDropEvents
  BY <1>6, <1>a, QuietPlaceInv
  DEF PerformNoConnection, PerformSendEvents, PerformDropEvents, threadVars, history, Quiet
<1>7. CASE Pop
  <2>1. /\ m_tasks # <<>> /\ task = NoTask
        /\ task' = Head(m_tasks) /\ m_tasks' = Tail(m_tasks)
        /\ UNCHANGED <<apc, arg, outcome, ticket>>
    BY <1>7, <1>a DEF Pop, PopFindsTask, SlotsOK, threadVars
  <2>2. \A e \in Events : InQueue(e) <=> InQueue(e)' \/ InHand(e)'
    BY <1>a, <2>1, InQueuePop DEF InHand
  <2>3. \A e \in Events : ~InHand(e)
    BY <2>1, TransportAssumption DEF InHand, NoTask
  <2>4. /\ Len(m_tasks) \in Nat \ {0}
        /\ DOMAIN m_tasks = 1..Len(m_tasks)
        /\ DOMAIN m_tasks' = 1..(Len(m_tasks) - 1)
        /\ task' = m_tasks[1]
        /\ \A i \in 1..(Len(m_tasks) - 1) : m_tasks'[i] = m_tasks[i + 1]
    BY <1>a, <2>1, PopTask DEF TypeOK
  <2>5. \A i, j \in DOMAIN m_tasks' : m_tasks'[i].event = m_tasks'[j].event => i = j
    <3>1. TAKE i, j \in DOMAIN m_tasks'
    <3>2. HAVE m_tasks'[i].event = m_tasks'[j].event
    <3>3. /\ i + 1 \in DOMAIN m_tasks /\ j + 1 \in DOMAIN m_tasks
          /\ m_tasks[i + 1].event = m_tasks[j + 1].event
      BY <2>4, <3>2
    <3>4. i + 1 = j + 1
      BY <3>3 DEF PlaceInv, OnePlace
    <3>5. QED
      BY <2>4, <3>4
  <2>6. \A e \in Events : ~(InQueue(e)' /\ InHand(e)')
    <3>1. \A i \in 2..Len(m_tasks) : m_tasks[i].event # m_tasks[1].event
      BY <2>4 DEF PlaceInv, OnePlace
    <3>2. \A i \in DOMAIN m_tasks' : m_tasks'[i].event # task'.event
      BY <2>4, <3>1
    <3>3. QED
      BY <3>2 DEF InQueue, InHand
  <2>7. OnePlace'
    BY <2>1, <2>2, <2>3, <2>5, <2>6 DEF PlaceInv, OnePlace
  <2>8. QED
    BY <2>1, <2>7 DEF PlaceInv
<1>8. ASSUME NEW response, NEW result, result # "none",
             Settle(response, result), UNCHANGED <<m_tasks, ticket, apc, arg>>
      PROVE  PlaceInv'
  <2>1. /\ task.event \in Events /\ task' = NoTask
        /\ outcome' = [outcome EXCEPT ![task.event] = result]
    BY <1>8, <1>a DEF Settle, SlotsOK, Task
  <2>2. \A e \in Events : ~InHand(e)' /\ (InQueue(e)' <=> InQueue(e))
    BY <1>8, <2>1, TransportAssumption DEF InHand, InQueue, NoTask
  <2>3. \A e \in Events : outcome'[e] = "none" <=> outcome[e] = "none" /\ ~InHand(e)
    BY <1>8, <1>a, <2>1 DEF InHand, PlaceInv, OnePlace, TypeOK
  <2>4. OnePlace'
    BY <1>8, <2>2, <2>3 DEF PlaceInv, OnePlace
  <2>5. QED
    BY <1>8, <1>a, <2>1, <2>3, <2>4 DEF PlaceInv, OnePlace, InHand, SlotsOK, TypeOK
<1>9. CASE PostOk \/ PostTooManyRequests \/ PostBadRetryAfter \/ PostError
  BY <1>8, <1>9 DEF PostOk, PostTooManyRequests, PostBadRetryAfter, PostError, threadVars
<1>10. CASE PostRejected
  <2>1. CASE ~task.isRetrying /\ ~m_shouldStop
    BY <1>10, <1>a, <2>1, QuietPlaceInv DEF PostRejected, Quiet, threadVars
  <2>2. CASE ~(~task.isRetrying /\ ~m_shouldStop)
    BY <1>10, <2>2, <1>8 DEF PostRejected, Settle, threadVars
  <2>3. QED
    BY <2>1, <2>2
<1>11. CASE PushRetry
  <2> DEFINE x == [event |-> task.event, isRetrying |-> TRUE]
  <2>1. /\ task.event \in Events /\ x \in Task /\ x.event = task.event
        /\ m_tasks' = Append(m_tasks, x) /\ task' = NoTask
        /\ UNCHANGED <<apc, arg, outcome, ticket>>
    BY <1>11, <1>a DEF PushRetry, SlotsOK, Task, threadVars, history
  <2> HIDE DEF x
  <2>2. \A e \in Events : InQueue(e)' <=> InQueue(e) \/ InHand(e)
    BY <1>a, <2>1, InQueueAppend DEF InHand
  <2>3. \A e \in Events : ~InHand(e)'
    BY <2>1, TransportAssumption DEF InHand, NoTask
  <2>4. \A i, j \in DOMAIN m_tasks' : m_tasks'[i].event = m_tasks'[j].event => i = j
    <3>1. /\ Len(m_tasks) \in Nat
          /\ DOMAIN m_tasks = 1..Len(m_tasks)
          /\ DOMAIN m_tasks' = 1..(Len(m_tasks) + 1)
          /\ \A i \in 1..Len(m_tasks) : m_tasks'[i] = m_tasks[i]
          /\ m_tasks'[Len(m_tasks) + 1] = x
      BY <1>a, <2>1, AppendTask DEF TypeOK
    <3>2. \A i \in 1..Len(m_tasks) : m_tasks[i].event # task.event
      BY <2>1, <3>1 DEF PlaceInv, OnePlace, InQueue, InHand
    <3>3. QED
      BY <2>1, <3>1, <3>2 DEF PlaceInv, OnePlace
  <2>5. OnePlace'
    BY <2>1, <2>2, <2>3, <2>4 DEF PlaceInv, OnePlace
  <2>6. QED
    BY <2>1, <2>5 DEF PlaceInv
<1>12. CASE Tick
  BY <1>12, <1>a, QuietPlaceInv DEF Tick, Quiet, threadVars
<1>13. CASE UNCHANGED vars
  BY <1>13, <1>a, QuietPlaceInv DEF vars, workerVars, threadVars, history, Quiet
<1>14. QED
  BY <1>1, <1>2, <1>3, <1>4, <1>5, <1>6, <1>7, <1>9, <1>10, <1>11, <1>12, <1>13
  DEF Next, Worker, Ended
-----------------------------------------------------------------------------
\* A step that leaves the queue and the numbering alone and starts no request.
QuietOrder ==
  /\ UNCHANGED <<m_tasks, ticket, firstPosts, arrived>>
  /\ wpc' = "post" => wpc = "post" /\ task' = task

LEMMA QuietOrderInv ==
  ASSUME OrderInv, QuietOrder PROVE OrderInv'
  BY DEF OrderInv, QuietOrder, First, TicketAt, FirstAttemptsInOrder

LEMMA NextOrderInv ==
  TypeInv /\ TypeInv' /\ PlaceInv /\ OrderInv /\ [Next]_vars => OrderInv'
<1> SUFFICES ASSUME TypeInv, TypeInv', PlaceInv, OrderInv, [Next]_vars
             PROVE  OrderInv'
  OBVIOUS
<1>a. TypeOK /\ SlotsOK /\ PopFindsTask /\ TypeOK'
  BY DEF TypeInv
<1>b. PICK n : n = Len(m_tasks)
  OBVIOUS
<1>1. CASE Start \/ SetupClient
  BY <1>1, QuietOrderInv DEF Start, SetupClient, workerVars, history, QuietOrder
<1>2. ASSUME NEW t \in Threads, NEW e \in Events, SendEvent(t, e)
      PROVE  OrderInv'
  BY <1>2, QuietOrderInv DEF SendEvent, workerVars, QuietOrder
<1>3. ASSUME NEW t \in Threads, Push(t)
      PROVE  OrderInv'
  <2> DEFINE e0 == arg[t]
             x == [event |-> e0, isRetrying |-> FALSE]
  <2>1. e0 \in Events /\ ticket[e0] = 0
    BY <1>3, <1>a DEF Push, SlotsOK, PlaceInv
  <2>2. x \in Task /\ x.event = e0 /\ x.isRetrying = FALSE
    BY <2>1 DEF Task
  <2>3. /\ m_tasks' = Append(m_tasks, x)
        /\ ticket' = [ticket EXCEPT ![e0] = arrived + 1]
        /\ arrived' = arrived + 1
        /\ UNCHANGED <<task, wpc, firstPosts>>
    BY <1>3 DEF Push, workerVars
  <2>4. ~InQueue(e0) /\ ~InHand(e0)
    BY <2>1 DEF PlaceInv, OnePlace
  <2> HIDE DEF x
  <2>5. /\ n \in Nat /\ arrived \in Nat /\ firstPosts \in Nat
        /\ DOMAIN m_tasks = 1..n
        /\ DOMAIN m_tasks' = 1..(n + 1)
        /\ \A i \in 1..n : m_tasks'[i] = m_tasks[i] /\ m_tasks[i] \in Task
        /\ m_tasks'[n + 1] = x
    <3>1. n \in Nat /\ \A i \in 1..n : m_tasks[i] \in Task
      BY <1>a, <1>b, ElementOfSeq, LenProperties DEF TypeOK
    <3>2. QED
      BY <1>a, <1>b, <2>2, <2>3, <3>1, AppendTask DEF TypeOK
  <2>6. \A i \in 1..n : First(i)' = First(i) /\ TicketAt(i)' = TicketAt(i)
    <3>1. TAKE i \in 1..n
    <3>2. m_tasks'[i] = m_tasks[i] /\ m_tasks[i].event \in Events
      BY <2>5 DEF Task
    <3>3. m_tasks[i].event # e0
      BY <2>4, <2>5 DEF InQueue
    <3>4. ticket'[m_tasks[i].event] = ticket[m_tasks[i].event]
      BY <1>a, <2>3, <3>2, <3>3 DEF TypeOK
    <3>5. QED
      BY <3>2, <3>4 DEF First, TicketAt
  <2>7. First(n + 1)' /\ TicketAt(n + 1)' = arrived + 1
    BY <1>a, <2>1, <2>2, <2>3, <2>5 DEF First, TicketAt, TypeOK
  <2>8. \A i \in 1..n : TicketAt(i) \in Nat
    BY <1>a, <2>5 DEF TicketAt, TypeOK, Task
  <2>9. FirstAttemptsInOrder'
    BY <1>a, <2>1, <2>3, <2>4
    DEF OrderInv, FirstAttemptsInOrder, InHand, TypeOK, SlotsOK, Task
  <2>10. \A i \in DOMAIN m_tasks' :
           First(i)' => firstPosts' < TicketAt(i)' /\ TicketAt(i)' <= arrived'
    BY <2>3, <2>5, <2>6, <2>7, <2>8 DEF OrderInv
  <2>11. \A i, j \in DOMAIN m_tasks' :
           First(i)' /\ First(j)' /\ i < j => TicketAt(i)' < TicketAt(j)'
    BY <2>3, <2>5, <2>6, <2>7, <2>8 DEF OrderInv
  <2>12. \A k \in (firstPosts' + 1)..arrived' : \E i \in DOMAIN m_tasks' :
           First(i)' /\ TicketAt(i)' = k
    <3>1. TAKE k \in (firstPosts' + 1)..arrived'
    <3>2. CASE k = arrived + 1
      BY <2>5, <2>7, <3>2
    <3>3. CASE k \in (firstPosts + 1)..arrived
      <4>1. PICK i \in 1..n : First(i) /\ TicketAt(i) = k
        BY <2>5, <3>3 DEF OrderInv
      <4>2. i \in DOMAIN m_tasks' /\ First(i)' /\ TicketAt(i)' = k
        BY <2>5, <2>6, <4>1
      <4>3. QED
        BY <4>2
    <3>4. QED
      BY <2>3, <2>5, <3>2, <3>3
  <2>13. firstPosts' <= arrived'
    BY <2>3, <2>5 DEF OrderInv
  <2>14. QED
    BY <2>9, <2>10, <2>11, <2>12, <2>13 DEF OrderInv
<1>4. ASSUME NEW t \in Threads, NEW w \in BOOLEAN, Stop(t, w) \/ Join(t)
      PROVE  OrderInv'
  BY <1>4, QuietOrderInv DEF Stop, Join, workerVars, history, QuietOrder
<1>5. CASE RunLoop \/ DrainLoop
  BY <1>5, QuietOrderInv DEF RunLoop, DrainLoop, history, QuietOrder
<1>6. CASE PerformNoConnection \/ PerformSendEvents \/ PerformDropEvents
  BY <1>a, <1>6, QuietOrderInv
  DEF PerformNoConnection, PerformSendEvents, PerformDropEvents, history, QuietOrder, TypeOK
<1>7. CASE Pop
  <2>1. /\ m_tasks # <<>>
        /\ task' = Head(m_tasks) /\ m_tasks' = Tail(m_tasks)
        /\ firstPosts' = IF task'.isRetrying THEN firstPosts ELSE firstPosts + 1
        /\ UNCHANGED <<ticket, arrived>>
    BY <1>7, <1>a DEF Pop, PopFindsTask
  <2>2. /\ n \in Nat \ {0} /\ arrived \in Nat /\ firstPosts \in Nat
        /\ DOMAIN m_tasks = 1..n
        /\ DOMAIN m_tasks' = 1..(n - 1)
        /\ task' = m_tasks[1]
        /\ \A i \in 1..(n - 1) : m_tasks'[i] = m_tasks[i + 1]
        /\ \A i \in 1..n : m_tasks[i] \in Task
    BY <1>a, <1>b, <2>1, PopTask, ElementOfSeq DEF TypeOK
  <2>3. \A i \in 1..n : TicketAt(i) \in Nat
    BY <1>a, <2>2 DEF TicketAt, TypeOK, Task
  <2>4. \A i \in 1..(n - 1) : First(i)' = First(i + 1) /\ TicketAt(i)' = TicketAt(i + 1)
    BY <2>1, <2>2 DEF First, TicketAt
  <2>5. \A k \in (firstPosts + 1)..arrived :
          (\E i \in 1..(n - 1) : First(i)' /\ TicketAt(i)' = k)
            \/ (First(1) /\ TicketAt(1) = k)
    <3>1. TAKE k \in (firstPosts + 1)..arrived
    <3>2. PICK i \in 1..n : First(i) /\ TicketAt(i) = k
      BY <2>2 DEF OrderInv
    <3>3. CASE i = 1
      BY <3>2, <3>3
    <3>4. CASE i # 1
      <4>1. i - 1 \in 1..(n - 1) /\ (i - 1) + 1 = i
        BY <2>2, <3>4
      <4>2. First(i - 1)' /\ TicketAt(i - 1)' = k
        BY <2>4, <3>2, <4>1
      <4>3. QED
        BY <4>1, <4>2
    <3>5. QED
      BY <3>3, <3>4
  <2>6. \A i, j \in DOMAIN m_tasks' :
          First(i)' /\ First(j)' /\ i < j => TicketAt(i)' < TicketAt(j)'
    <3>1. TAKE i, j \in DOMAIN m_tasks'
    <3>2. HAVE First(i)' /\ First(j)' /\ i < j
    <3>3. i + 1 \in 1..n /\ j + 1 \in 1..n /\ i + 1 < j + 1
      BY <2>2, <3>2
    <3>4. First(i + 1) /\ First(j + 1)
      BY <2>2, <2>4, <3>2
    <3>5. TicketAt(i + 1) < TicketAt(j + 1)
      BY <2>2, <3>3, <3>4 DEF OrderInv
    <3>6. QED
      BY <2>2, <2>4, <3>5
  <2>7. CASE ~First(1)
    <3>1. firstPosts' = firstPosts /\ task'.isRetrying
      BY <2>1, <2>2, <2>7 DEF First
    <3>2. FirstAttemptsInOrder'
      BY <3>1 DEF FirstAttemptsInOrder
    <3>3. \A i \in DOMAIN m_tasks' :
            First(i)' => firstPosts' < TicketAt(i)' /\ TicketAt(i)' <= arrived'
      <4>1. TAKE i \in DOMAIN m_tasks'
      <4>2. HAVE First(i)'
      <4>3. i + 1 \in DOMAIN m_tasks /\ First(i + 1) /\ TicketAt(i)' = TicketAt(i + 1)
        BY <2>2, <2>4, <4>2
      <4>4. QED
        BY <2>1, <3>1, <4>3 DEF OrderInv
    <3>4. QED
      BY <2>1, <2>2, <2>5, <2>6, <2>7, <3>1, <3>2, <3>3 DEF OrderInv
  <2>8. CASE First(1)
    <3>1. firstPosts' = firstPosts + 1
      BY <2>1, <2>2, <2>8 DEF First
    <3>2. firstPosts < TicketAt(1) /\ TicketAt(1) <= arrived
      BY <2>2, <2>8 DEF OrderInv
    <3>3. TicketAt(1) = firstPosts + 1
      <4>1. PICK i \in 1..n : First(i) /\ TicketAt(i) = firstPosts + 1
        BY <2>2, <2>3, <3>2 DEF OrderInv
      <4>2. ASSUME i # 1 PROVE TicketAt(1) < TicketAt(i)
        <5>1. 1 \in DOMAIN m_tasks /\ i \in DOMAIN m_tasks /\ 1 < i
          BY <2>2, <4>2
        <5>2. QED
          BY <2>8, <4>1, <5>1 DEF OrderInv
      <4>3. QED
        BY <2>2, <2>3, <3>2, <4>1, <4>2
    <3>4. FirstAttemptsInOrder'
      BY <2>1, <2>2, <3>1, <3>3 DEF FirstAttemptsInOrder, TicketAt
    <3>5. \A i \in 2..n : First(i) => TicketAt(1) < TicketAt(i) /\ TicketAt(i) <= arrived
      BY <2>2, <2>8 DEF OrderInv
    <3>6. \A i \in DOMAIN m_tasks' :
            First(i)' => firstPosts' < TicketAt(i)' /\ TicketAt(i)' <= arrived'
      <4>1. TAKE i \in DOMAIN m_tasks'
      <4>2. HAVE First(i)'
      <4>3. i + 1 \in 2..n /\ First(i + 1) /\ TicketAt(i)' = TicketAt(i + 1)
        BY <2>2, <2>4, <4>2
      <4>4. QED
        BY <2>1, <3>1, <3>3, <3>5, <4>3
    <3>7. firstPosts' <= arrived'
      BY <2>1, <2>2, <2>3, <3>1, <3>2, <3>3
    <3>8. \A k \in (firstPosts' + 1)..arrived' : \E i \in DOMAIN m_tasks' :
            First(i)' /\ TicketAt(i)' = k
      BY <2>1, <2>2, <2>5, <3>1, <3>3
    <3>9. QED
      BY <2>6, <3>4, <3>6, <3>7, <3>8 DEF OrderInv
  <2>9. QED
    BY <2>7, <2>8
<1>8. CASE PostOk \/ PostTooManyRequests \/ PostBadRetryAfter \/ PostError
  BY <1>a, <1>8, QuietOrderInv
  DEF PostOk, PostTooManyRequests, PostBadRetryAfter, PostError, Settle, QuietOrder, TypeOK
<1>9. CASE PostRejected
  BY <1>a, <1>9, QuietOrderInv DEF PostRejected, QuietOrder, TypeOK
<1>10. CASE PushRetry
  <2> DEFINE x == [event |-> task.event, isRetrying |-> TRUE]
  <2>1. /\ x \in Task /\ x.isRetrying = TRUE
        /\ m_tasks' = Append(m_tasks, x) /\ wpc' # "post"
        /\ UNCHANGED <<ticket, arrived, firstPosts>>
    BY <1>10, <1>a DEF PushRetry, SlotsOK, Task, history, TypeOK
  <2> HIDE DEF x
  <2>2. /\ n \in Nat
        /\ DOMAIN m_tasks = 1..n
        /\ DOMAIN m_tasks' = 1..(n + 1)
        /\ \A i \in 1..n : m_tasks'[i] = m_tasks[i]
        /\ m_tasks'[n + 1] = x
    BY <1>a, <1>b, <2>1, AppendTask DEF TypeOK
  <2>3. \A i \in 1..n : First(i)' = First(i) /\ TicketAt(i)' = TicketAt(i)
    BY <2>1, <2>2 DEF First, TicketAt
  <2>4. ~First(n + 1)'
    BY <2>1, <2>2 DEF First
  <2>5. \A k \in (firstPosts' + 1)..arrived' : \E i \in DOMAIN m_tasks' :
          First(i)' /\ TicketAt(i)' = k
    <3>1. TAKE k \in (firstPosts' + 1)..arrived'
    <3>2. PICK i \in 1..n : First(i) /\ TicketAt(i) = k
      BY <2>1, <2>2 DEF OrderInv
    <3>3. i \in DOMAIN m_tasks' /\ First(i)' /\ TicketAt(i)' = k
      BY <2>2, <2>3, <3>2
    <3>4. QED
      BY <3>3
  <2>6. FirstAttemptsInOrder'
    BY <2>1 DEF FirstAttemptsInOrder
  <2>7. \A i \in DOMAIN m_tasks' : First(i)' => i \in 1..n
    BY <2>2, <2>4
  <2>8. QED
    BY <2>1, <2>2, <2>3, <2>5, <2>6, <2>7 DEF OrderInv
<1>11. CASE Tick
  BY <1>11, QuietOrderInv DEF Tick, QuietOrder
<1>12. CASE UNCHANGED vars
  BY <1>12, QuietOrderInv DEF vars, workerVars, history, QuietOrder
<1>13. QED
  BY <1>1, <1>2, <1>3, <1>4, <1>5, <1>6, <1>7, <1>8, <1>9, <1>10, <1>11, <1>12
  DEF Next, Worker, Ended
-----------------------------------------------------------------------------
\* A step that makes no request and moves no task.
QuietAttempt ==
  /\ UNCHANGED <<m_tasks, ticket, posts>>
  /\ wpc' \in {"post", "retry"} => wpc' = wpc /\ task' = task

LEMMA QuietAttemptInv ==
  ASSUME AttemptInv, QuietAttempt PROVE AttemptInv'
  BY DEF AttemptInv, QuietAttempt

LEMMA NextAttemptInv ==
  TypeInv /\ TypeInv' /\ PlaceInv /\ AttemptInv /\ [Next]_vars => AttemptInv'
<1> SUFFICES ASSUME TypeInv, TypeInv', PlaceInv, AttemptInv, [Next]_vars
             PROVE  AttemptInv'
  OBVIOUS
<1>a. TypeOK /\ SlotsOK /\ PopFindsTask /\ TypeOK'
  BY DEF TypeInv
<1>b. PICK n : n = Len(m_tasks)
  OBVIOUS
<1>c. /\ n \in Nat /\ DOMAIN m_tasks = 1..n
      /\ \A i \in 1..n : m_tasks[i] \in Task /\ m_tasks[i].event \in Events
  <2>1. n \in Nat /\ DOMAIN m_tasks = 1..n /\ \A i \in 1..n : m_tasks[i] \in Task
    BY <1>a, <1>b, ElementOfSeq, LenProperties DEF TypeOK
  <2>2. QED
    BY <2>1 DEF Task
<1>1. CASE Start \/ SetupClient
  BY <1>1, QuietAttemptInv DEF Start, SetupClient, workerVars, history, QuietAttempt
<1>2. ASSUME NEW t \in Threads, NEW e \in Events, SendEvent(t, e)
      PROVE  AttemptInv'
  BY <1>2, QuietAttemptInv DEF SendEvent, workerVars, QuietAttempt
<1>3. ASSUME NEW t \in Threads, Push(t)
      PROVE  AttemptInv'
  <2> DEFINE e0 == arg[t]
             x == [event |-> e0, isRetrying |-> FALSE]
  <2>1. e0 \in Events /\ ticket[e0] = 0
    BY <1>3, <1>a DEF Push, SlotsOK, PlaceInv
  <2>2. x \in Task /\ x.event = e0 /\ x.isRetrying = FALSE
    BY <2>1 DEF Task
  <2>3. /\ m_tasks' = Append(m_tasks, x)
        /\ ticket' = [ticket EXCEPT ![e0] = arrived + 1]
        /\ UNCHANGED <<task, wpc, posts>>
    BY <1>3 DEF Push, workerVars
  <2> HIDE DEF x
  <2>4. /\ DOMAIN m_tasks' = 1..(n + 1)
        /\ \A i \in 1..n : m_tasks'[i] = m_tasks[i]
        /\ m_tasks'[n + 1] = x
    BY <1>a, <1>b, <2>2, <2>3, AppendTask DEF TypeOK
  <2>5. \A e \in Events : ticket'[e] = 0 => ticket[e] = 0
    BY <1>a, <2>1, <2>3 DEF TypeOK
  <2>6. posts[e0] = 0
    BY <2>1 DEF AttemptInv
  <2>7. \A i \in DOMAIN m_tasks' :
          posts'[m_tasks'[i].event] = IF m_tasks'[i].isRetrying THEN 1 ELSE 0
    <3>1. TAKE i \in DOMAIN m_tasks'
    <3>2. CASE i = n + 1
      BY <2>2, <2>3, <2>4, <2>6, <3>2
    <3>3. CASE i \in 1..n
      BY <1>c, <2>3, <2>4, <3>3 DEF AttemptInv
    <3>4. QED
      BY <1>c, <2>4, <3>2, <3>3
  <2>8. QED
    BY <2>3, <2>5, <2>7 DEF AttemptInv
<1>4. ASSUME NEW t \in Threads, NEW w \in BOOLEAN, Stop(t, w) \/ Join(t)
      PROVE  AttemptInv'
  BY <1>4, QuietAttemptInv DEF Stop, Join, workerVars, history, QuietAttempt
<1>5. CASE RunLoop \/ DrainLoop
  BY <1>5, QuietAttemptInv DEF RunLoop, DrainLoop, history, QuietAttempt
<1>6. CASE PerformNoConnection \/ PerformSendEvents \/ PerformDropEvents
  BY <1>a, <1>6, QuietAttemptInv
  DEF PerformNoConnection, PerformSendEvents, PerformDropEvents, history,
      QuietAttempt, TypeOK
<1>7. CASE Pop
  <2>1. /\ m_tasks # <<>> /\ wpc' = "post"
        /\ task' = Head(m_tasks) /\ m_tasks' = Tail(m_tasks)
        /\ UNCHANGED <<ticket, posts>>
    BY <1>7, <1>a DEF Pop, PopFindsTask
  <2>2. /\ n \in Nat \ {0}
        /\ DOMAIN m_tasks' = 1..(n - 1)
        /\ task' = m_tasks[1]
        /\ \A i \in 1..(n - 1) : m_tasks'[i] = m_tasks[i + 1]
    BY <1>a, <1>b, <2>1, PopTask DEF TypeOK
  <2>3. \A i \in DOMAIN m_tasks' : i + 1 \in DOMAIN m_tasks
    BY <1>c, <2>2
  <2>4. QED
    BY <1>c, <2>1, <2>2, <2>3 DEF AttemptInv
<1>8. ASSUME wpc = "post", posts' = [posts EXCEPT ![task.event] = @ + 1],
             UNCHANGED <<m_tasks, ticket>>
      PROVE  /\ \A e \in Events : ticket'[e] = 0 => posts'[e] = 0
             /\ \A i \in DOMAIN m_tasks' :
                  posts'[m_tasks'[i].event] = IF m_tasks'[i].isRetrying THEN 1 ELSE 0
             /\ posts'[task.event] = posts[task.event] + 1
  <2>1. task.event \in Events /\ ticket[task.event] > 0 /\ ~InQueue(task.event)
    BY <1>a, <1>8 DEF SlotsOK, Task, PlaceInv, OnePlace, InHand
  <2>2. \A e \in Events : e # task.event => posts'[e] = posts[e]
    BY <1>a, <1>8 DEF TypeOK
  <2>3. \A i \in 1..n : m_tasks[i].event # task.event
    BY <1>c, <2>1 DEF InQueue
  <2>4. \A e \in Events : ticket'[e] = 0 => posts'[e] = 0
    BY <1>a, <1>8, <2>1, <2>2 DEF AttemptInv, TypeOK
  <2>5. \A i \in DOMAIN m_tasks' :
          posts'[m_tasks'[i].event] = IF m_tasks'[i].isRetrying THEN 1 ELSE 0
    BY <1>c, <1>8, <2>2, <2>3 DEF AttemptInv
  <2>6. posts'[task.event] = posts[task.event] + 1
    BY <1>a, <1>8, <2>1 DEF TypeOK
  <2>7. QED
    BY <2>4, <2>5, <2>6
<1>9. CASE PostOk \/ PostTooManyRequests \/ PostBadRetryAfter \/ PostError
  <2>1. /\ wpc = "post" /\ posts' = [posts EXCEPT ![task.event] = @ + 1]
        /\ UNCHANGED <<m_tasks, ticket>>
        /\ wpc' \notin {"post", "retry"}
    BY <1>9, <1>a
    DEF PostOk, PostTooManyRequests, PostBadRetryAfter, PostError, Settle, TypeOK
  <2>2. QED
    BY <1>8, <2>1 DEF AttemptInv
<1>10. CASE PostRejected
  <2>1. /\ wpc = "post" /\ posts' = [posts EXCEPT ![task.event] = @ + 1]
        /\ UNCHANGED <<m_tasks, ticket>>
        /\ wpc' # "post"
        /\ wpc' = "retry" => ~task.isRetrying /\ task' = task
    BY <1>10, <1>a DEF PostRejected, TypeOK
  <2>2. wpc' = "retry" => posts'[task'.event] = 1
    BY <1>8, <2>1 DEF AttemptInv
  <2>3. QED
    BY <1>8, <2>1, <2>2 DEF AttemptInv
<1>11. CASE PushRetry
  <2> DEFINE x == [event |-> task.event, isRetrying |-> TRUE]
  <2>1. /\ x \in Task /\ x.isRetrying = TRUE /\ x.event = task.event
        /\ wpc = "retry"
        /\ m_tasks' = Append(m_tasks, x) /\ wpc' \notin {"post", "retry"}
        /\ UNCHANGED <<ticket, posts>>
    BY <1>11, <1>a DEF PushRetry, SlotsOK, Task, history, TypeOK
  <2> HIDE DEF x
  <2>2. /\ DOMAIN m_tasks' = 1..(n + 1)
        /\ \A i \in 1..n : m_tasks'[i] = m_tasks[i]
        /\ m_tasks'[n + 1] = x
    BY <1>a, <1>b, <2>1, AppendTask DEF TypeOK
  <2>3. posts[x.event] = 1
    BY <2>1 DEF AttemptInv
  <2>4. \A i \in DOMAIN m_tasks' :
          posts'[m_tasks'[i].event] = IF m_tasks'[i].isRetrying THEN 1 ELSE 0
    <3>1. TAKE i \in DOMAIN m_tasks'
    <3>2. CASE i = n + 1
      BY <2>1, <2>2, <2>3, <3>2
    <3>3. CASE i \in 1..n
      BY <1>c, <2>1, <2>2, <3>3 DEF AttemptInv
    <3>4. QED
      BY <1>c, <2>2, <3>2, <3>3
  <2>5. QED
    BY <2>1, <2>4 DEF AttemptInv
<1>12. CASE Tick
  BY <1>12, QuietAttemptInv DEF Tick, QuietAttempt
<1>13. CASE UNCHANGED vars
  BY <1>13, QuietAttemptInv DEF vars, workerVars, history, QuietAttempt
<1>14. QED
  BY <1>1, <1>2, <1>3, <1>4, <1>5, <1>6, <1>7, <1>9, <1>10, <1>11, <1>12, <1>13
  DEF Next, Worker, Ended

-----------------------------------------------------------------------------
\* The invariant is inductive.
LEMMA NextIndInv == IndInv /\ [Next]_vars => IndInv'
  BY NextTypeInv, NextClientInv, NextTimeInv, NextPlaceInv, NextOrderInv, NextAttemptInv
  DEF IndInv

\* The inductive invariant holds in every behaviour of Transport.
THEOREM Invariance == Spec => []IndInv
  BY InitIndInv, NextIndInv, PTL DEF Spec

\* No task reaches sendPost while m_pHttpClient is null.
THEOREM ClientIsThere == Spec => []PostHasClient
<1>1. IndInv => PostHasClient
  BY TransportAssumption
  DEF IndInv, TypeInv, TypeOK, SlotsOK, ClientInv, PostHasClient, Task, NoTask
<1>2. QED
  BY <1>1, Invariance, PTL

\* No interleaving of sendEvent, the worker and stop loses or duplicates a
\* task.
THEOREM EveryEventInOnePlace == Spec => []OnePlace
<1>1. IndInv => OnePlace
  BY DEF IndInv, PlaceInv
<1>2. QED
  BY <1>1, Invariance, PTL

\* First attempts are made in the order of arrival.
THEOREM FirstInFirstPosted == Spec => []FirstAttemptsInOrder
<1>1. IndInv => FirstAttemptsInOrder
  BY DEF IndInv, OrderInv
<1>2. QED
  BY <1>1, Invariance, PTL

\* The state machine of perform() holds requests back after a 429 and until
\* the reconnection timeout is over.
THEOREM SilenceIsKept == Spec => []SendsOnlyWhenAllowed
<1>1. IndInv => SendsOnlyWhenAllowed
  BY DEF IndInv, TimeInv, SendsOnlyWhenAllowed
<1>2. QED
  BY <1>1, Invariance, PTL
=============================================================================
