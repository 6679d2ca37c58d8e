----------------------------- MODULE Transport -----------------------------
(***************************************************************************)
(* The transport of SentryCpp (src/transport.h, src/transport.cpp): a      *)
(* worker thread takes POST tasks from a queue that application threads    *)
(* fill through sendEvent, and a three-state machine decides whether it    *)
(* may send.  stop() asks the worker to drain the queue and joins it.      *)
(*                                                                         *)
(* Granularity.  A step is a critical section of m_tasksQueueMutex or one  *)
(* access to state that threads share: m_shouldStop (atomic) and the       *)
(* unlocked m_tasks.empty(), which compares two pointers of the deque of   *)
(* which the producers move one, in a single store.  m_state, m_lastConne- *)
(* ctionRequestTime and the task in hand belong to the worker alone.       *)
(***************************************************************************)
EXTENDS Integers, Sequences, FiniteSets

CONSTANTS
  Events,            \* event payloads; each is handed to sendEvent once
  Threads,           \* application threads
  NoEvent,           \* "no event": an idle slot
  ReconnectTimeout,  \* RECONNECTION_TIMEOUT_MILLISECONDS, in clock ticks
  Responses          \* what the server may answer in this model

AllResponses == {"ok", "too_many", "bad_retry_after", "rejected", "error"}

ASSUME TransportAssumption ==
  /\ NoEvent \notin Events
  /\ IsFiniteSet(Threads)
  /\ ReconnectTimeout \in Nat \ {0}
  /\ Responses \subseteq AllResponses

VARIABLES
  m_state,       \* NO_CONNECTION, SEND_EVENTS or DROP_EVENTS
  m_tasks,       \* queue of closures: which event, first attempt or retry
  m_shouldStop,
  m_running,
  client,        \* setupClient has created m_pHttpClient
  elapsed,       \* now - m_lastConnectionRequestTime, up to the timeout
  wpc,           \* where the worker thread is
  loop,          \* which while loop of run() perform() returns to
  task,          \* funcToExecute, the task in the worker's hand
  apc,           \* where each application thread is
  arg,           \* the event of a sendEvent in progress
  joiner         \* the thread whose m_thread.join() came first

\* History variables, for the properties.  No guard of the code depends on
\* them; only Fresh reads them, to hand every event over once.
VARIABLES
  outcome,       \* what became of each event
  posts,         \* POSTs made for each event
  ticket,        \* position of each event in the order of arrival
  arrived,       \* events queued so far
  firstPosts,    \* first attempts made so far
  sinceError     \* ticks since the last connection error, up to the timeout

workerVars == <<m_state, elapsed, wpc, loop, task, m_running>>
threadVars == <<apc, arg, joiner, m_shouldStop, client>>
history == <<outcome, posts, ticket, arrived, firstPosts, sinceError>>
vars == <<workerVars, threadVars, history, m_tasks>>

-----------------------------------------------------------------------------
State == {"NO_CONNECTION", "SEND_EVENTS", "DROP_EVENTS"}
Task == [event : Events, isRetrying : BOOLEAN]
NoTask == [event |-> NoEvent, isRetrying |-> FALSE]
Outcome == {"none", "refused", "delivered", "limited", "rejected", "lost"}

TypeOK ==
  /\ m_state \in State
  /\ m_tasks \in Seq(Task)
  /\ m_shouldStop \in BOOLEAN
  /\ m_running \in BOOLEAN
  /\ client \in BOOLEAN
  /\ elapsed \in 0..ReconnectTimeout
  /\ wpc \in {"unborn", "run", "drain", "perform", "pop", "post", "retry",
              "exited", "terminated"}
  /\ loop \in {"run", "drain"}
  /\ task \in Task \cup {NoTask}
  /\ apc \in [Threads -> {"idle", "push", "join", "stopped", "threw"}]
  /\ arg \in [Threads -> Events \cup {NoEvent}]
  /\ joiner \subseteq Threads
  /\ outcome \in [Events -> Outcome]
  /\ posts \in [Events -> Nat]
  /\ ticket \in [Events -> Nat]
  /\ arrived \in Nat
  /\ firstPosts \in Nat
  /\ sinceError \in 0..ReconnectTimeout

\* The constructor.  m_lastConnectionRequestTime is the epoch, so that the
\* first reconnectTimeoutReached() holds at once.
Init ==
  /\ m_state = "NO_CONNECTION"
  /\ m_tasks = <<>>
  /\ m_shouldStop = FALSE
  /\ m_running = FALSE
  /\ client = FALSE
  /\ elapsed = ReconnectTimeout
  /\ wpc = "unborn"
  /\ loop = "run"
  /\ task = NoTask
  /\ apc = [t \in Threads |-> "idle"]
  /\ arg = [t \in Threads |-> NoEvent]
  /\ joiner = {}
  /\ outcome = [e \in Events |-> "none"]
  /\ posts = [e \in Events |-> 0]
  /\ ticket = [e \in Events |-> 0]
  /\ arrived = 0
  /\ firstPosts = 0
  /\ sinceError = ReconnectTimeout

-----------------------------------------------------------------------------
(***************************************************************************)
(* The owner: Hub::init starts the worker, then sets the client up.        *)
(***************************************************************************)
Start ==
  /\ wpc = "unborn"
  /\ wpc' = "run"
  /\ m_running' = TRUE
  /\ UNCHANGED <<m_state, elapsed, loop, task, threadVars, history, m_tasks>>

SetupClient ==
  /\ wpc # "unborn" /\ ~client
  /\ client' = TRUE
  /\ UNCHANGED <<workerVars, apc, arg, joiner, m_shouldStop, history, m_tasks>>

-----------------------------------------------------------------------------
(***************************************************************************)
(* Application threads.                                                    *)
(***************************************************************************)
\* The event has not been handed to sendEvent yet.
Fresh(e) ==
  /\ outcome[e] = "none" /\ ticket[e] = 0
  /\ \A t \in Threads : arg[t] # e

\* Mutant of Initialised: m_initialised is set before setupClient.
InitialisedEarly == wpc # "unborn"

\* Hub::m_initialised guards every call: it is set after setupClient.
Initialised == client

\* Mutant of Accepting: addActionToQueue does not test m_shouldStop.
AcceptingAlways == TRUE

Accepting == ~m_shouldStop

\* sendEvent -> addActionToQueue, up to its unlocked test of m_shouldStop.
SendEvent(t, e) ==
  /\ Initialised
  /\ apc[t] = "idle"
  /\ Fresh(e)
  /\ IF Accepting
     THEN /\ apc' = [apc EXCEPT ![t] = "push"]
          /\ arg' = [arg EXCEPT ![t] = e]
          /\ UNCHANGED outcome
     ELSE /\ outcome' = [outcome EXCEPT ![e] = "refused"]
          /\ UNCHANGED <<apc, arg>>
  /\ UNCHANGED <<workerVars, joiner, m_shouldStop, client, m_tasks,
                 posts, ticket, arrived, firstPosts, sinceError>>

\* Mutants of Enqueue: the closure captures contents by reference, and they
\* are gone when it runs; the newest task goes first.
EnqueueByReference(e, retry) == Append(m_tasks, NoTask)
EnqueueInFront(e, retry) == <<[event |-> e, isRetrying |-> retry]>> \o m_tasks

\* m_tasks.push.
Enqueue(e, retry) == Append(m_tasks, [event |-> e, isRetrying |-> retry])

\* The critical section of addActionToQueue.
Push(t) ==
  /\ apc[t] = "push"
  /\ m_tasks' = Enqueue(arg[t], FALSE)
  /\ arrived' = arrived + 1
  /\ ticket' = [ticket EXCEPT ![arg[t]] = arrived + 1]
  /\ apc' = [apc EXCEPT ![t] = "idle"]
  /\ arg' = [arg EXCEPT ![t] = NoEvent]
  /\ UNCHANGED <<workerVars, joiner, m_shouldStop, client,
                 outcome, posts, firstPosts, sinceError>>

\* stop(), from ~Hub, the termination handler or the signal handler of some
\* thread: raise the flag, then join.  A second join of the same std::thread
\* throws std::system_error, and so does a join from the worker itself, on
\* which a handler may run.
Stop(t, onWorker) ==
  /\ Initialised
  /\ apc[t] = "idle"
  /\ m_shouldStop' = TRUE
  /\ IF joiner = {} /\ ~onWorker
     THEN /\ joiner' = {t}
          /\ apc' = [apc EXCEPT ![t] = "join"]
     ELSE /\ apc' = [apc EXCEPT ![t] = "threw"]
          /\ UNCHANGED joiner
  /\ UNCHANGED <<workerVars, arg, client, history, m_tasks>>

Join(t) ==
  /\ apc[t] = "join"
  /\ wpc = "exited"
  /\ apc' = [apc EXCEPT ![t] = "stopped"]
  /\ UNCHANGED <<workerVars, arg, joiner, m_shouldStop, client, history, m_tasks>>

-----------------------------------------------------------------------------
(***************************************************************************)
(* The worker: the two loops of run().                                     *)
(***************************************************************************)
RunLoop ==
  /\ wpc = "run"
  /\ IF m_shouldStop
     THEN wpc' = "drain" /\ loop' = "drain"
     ELSE wpc' = "perform" /\ UNCHANGED loop
  /\ UNCHANGED <<m_state, elapsed, task, m_running, threadVars, history, m_tasks>>

\* Mutant of Drained: the second loop of run() left out.
DrainedAtOnce == TRUE

Drained == m_tasks = <<>>

DrainLoop ==
  /\ wpc = "drain"
  /\ IF Drained
     THEN wpc' = "exited" /\ m_running' = FALSE
     ELSE wpc' = "perform" /\ UNCHANGED m_running
  /\ UNCHANGED <<m_state, elapsed, loop, task, threadVars, history, m_tasks>>

(***************************************************************************)
(* perform(), one action per state.                                        *)
(***************************************************************************)
reconnectTimeoutReached == elapsed >= ReconnectTimeout

PerformNoConnection ==
  /\ wpc = "perform" /\ m_state = "NO_CONNECTION"
  /\ m_state' = IF reconnectTimeoutReached THEN "SEND_EVENTS" ELSE m_state
  /\ wpc' = loop
  /\ UNCHANGED <<elapsed, loop, task, m_running, threadVars, history, m_tasks>>

\* Mutant of NothingToSend: the test of m_tasks.empty() left out.
NotTested == FALSE

NothingToSend == m_tasks = <<>>

\* performSendEvents up to its unlocked test of m_tasks.empty().
PerformSendEvents ==
  /\ wpc = "perform" /\ m_state = "SEND_EVENTS"
  /\ wpc' = IF NothingToSend THEN loop ELSE "pop"
  /\ UNCHANGED <<m_state, elapsed, loop, task, m_running, threadVars, history, m_tasks>>

\* case State::DROP_EVENTS: break;  performDropEvents is never called.
PerformDropEvents ==
  /\ wpc = "perform" /\ m_state = "DROP_EVENTS"
  /\ wpc' = loop
  /\ UNCHANGED <<m_state, elapsed, loop, task, m_running, threadVars, history, m_tasks>>

\* Mutant of Dequeue: front() without pop().
DequeueNothing == m_tasks

Dequeue == Tail(m_tasks)

\* The critical section of performSendEvents.
Pop ==
  /\ wpc = "pop"
  /\ task' = Head(m_tasks)
  /\ m_tasks' = Dequeue
  /\ firstPosts' = IF task'.isRetrying THEN firstPosts ELSE firstPosts + 1
  /\ wpc' = "post"
  /\ UNCHANGED <<m_state, elapsed, loop, m_running, threadVars,
                 outcome, posts, ticket, arrived, sinceError>>

(***************************************************************************)
(* sendPost: the blocking request, then what its result makes of the       *)
(* event.  m_pHttpClient is never null here: see PostHasClient.            *)
(***************************************************************************)
Settle(response, result) ==
  /\ wpc = "post" /\ response \in Responses
  /\ posts' = [posts EXCEPT ![task.event] = @ + 1]
  /\ outcome' = [outcome EXCEPT ![task.event] = result]
  /\ task' = NoTask

PostOk ==
  /\ Settle("ok", "delivered")
  /\ wpc' = loop
  /\ UNCHANGED <<m_state, elapsed, loop, m_running, threadVars, m_tasks,
                 ticket, arrived, firstPosts, sinceError>>

\* 429: the event counts as handled, and the transport drops from now on.
PostTooManyRequests ==
  /\ Settle("too_many", "limited")
  /\ m_state' = "DROP_EVENTS"
  /\ wpc' = loop
  /\ UNCHANGED <<elapsed, loop, m_running, threadVars, m_tasks,
                 ticket, arrived, firstPosts, sinceError>>

\* 429 whose Retry-After is not a number (an HTTP-date): std::stoul throws
\* std::invalid_argument, which leaves the thread function: std::terminate.
\* The other threads go on while the termination handler runs on this one
\* (see CrashHandlers).
PostBadRetryAfter ==
  /\ Settle("bad_retry_after", "lost")
  /\ wpc' = "terminated"
  /\ UNCHANGED <<m_state, elapsed, loop, m_running, threadVars, m_tasks,
                 ticket, arrived, firstPosts, sinceError>>

\* Mutants of MayRetry: isRetrying is not looked at; m_shouldStop is not.
RetryForever == ~m_shouldStop
RetryAfterStop == ~task.isRetrying

MayRetry == ~task.isRetrying /\ ~m_shouldStop

\* Any other status.  sendEventRetry -> addActionToQueue, up to its unlocked
\* test of m_shouldStop: a first attempt is to be queued again.
PostRejected ==
  /\ wpc = "post" /\ "rejected" \in Responses
  /\ posts' = [posts EXCEPT ![task.event] = @ + 1]
  /\ IF MayRetry
     THEN /\ wpc' = "retry"
          /\ UNCHANGED <<task, outcome>>
     ELSE /\ outcome' = [outcome EXCEPT ![task.event] = "rejected"]
          /\ task' = NoTask
          /\ wpc' = loop
  /\ UNCHANGED <<m_state, elapsed, loop, m_running, threadVars, m_tasks,
                 ticket, arrived, firstPosts, sinceError>>

\* The critical section of that addActionToQueue: the retry goes to the back.
PushRetry ==
  /\ wpc = "retry"
  /\ m_tasks' = Enqueue(task.event, TRUE)
  /\ task' = NoTask
  /\ wpc' = loop
  /\ UNCHANGED <<m_state, elapsed, loop, m_running, threadVars, history>>

\* Mutants of the catch clause: m_lastConnectionRequestTime is not set; the
\* wrong state is entered.
TimeKept == elapsed
DropAfterError == "DROP_EVENTS"

TimeAfterError == 0
StateAfterError == "NO_CONNECTION"

\* The catch clause: the request threw SimpleWeb::system_error.
PostError ==
  /\ Settle("error", "lost")
  /\ m_state' = StateAfterError
  /\ elapsed' = TimeAfterError
  /\ sinceError' = 0
  /\ wpc' = loop
  /\ UNCHANGED <<loop, m_running, threadVars, m_tasks, ticket, arrived, firstPosts>>

Worker ==
  \/ RunLoop \/ DrainLoop
  \/ PerformNoConnection \/ PerformSendEvents \/ PerformDropEvents
  \/ Pop
  \/ PostOk \/ PostTooManyRequests \/ PostBadRetryAfter \/ PostError
  \/ PostRejected \/ PushRetry

-----------------------------------------------------------------------------
\* Time passes.  Both clocks stop at the timeout, the only value they are
\* compared with.
Tick ==
  /\ elapsed < ReconnectTimeout \/ sinceError < ReconnectTimeout
  /\ elapsed' = IF elapsed < ReconnectTimeout THEN elapsed + 1 ELSE elapsed
  /\ sinceError' = IF sinceError < ReconnectTimeout THEN sinceError + 1 ELSE sinceError
  /\ UNCHANGED <<m_state, wpc, loop, task, m_running, threadVars, m_tasks,
                 outcome, posts, ticket, arrived, firstPosts>>

\* The worker is gone, or every thread has left stop() for good.
Ended ==
  /\ \/ wpc = "terminated"
     \/ wpc = "exited" /\ \A t \in Threads : apc[t] \in {"stopped", "threw"}
  /\ UNCHANGED vars

Next ==
  \/ Start \/ SetupClient
  \/ \E t \in Threads : \/ \E e \in Events : SendEvent(t, e)
                        \/ \E onWorker \in BOOLEAN : Stop(t, onWorker)
                        \/ Push(t) \/ Join(t)
  \/ Worker
  \/ Tick
  \/ Ended

Spec == Init /\ [][Next]_vars

\* The scheduler runs every thread that can run, time passes, and a request
\* returns or throws (HttpClient shows when it does not: a server that sends
\* chunks without end).  Nothing forces the application to capture or to stop.
Fairness ==
  /\ WF_vars(Start) /\ WF_vars(SetupClient)
  /\ WF_vars(Worker)
  /\ WF_vars(Tick)
  /\ \A t \in Threads : WF_vars(Push(t)) /\ WF_vars(Join(t))

FairSpec == Spec /\ Fairness

-----------------------------------------------------------------------------
(***************************************************************************)
(* Properties.                                                             *)
(***************************************************************************)
InQueue(e) == \E i \in DOMAIN m_tasks : m_tasks[i].event = e
InHand(e) == task.event = e

\* performSendEvents tests m_tasks.empty() without the lock and asserts,
\* under the lock, that a task is there: no other thread takes one between.
PopFindsTask == wpc = "pop" => m_tasks # <<>>

\* Hub::init starts the worker before setupClient: no task reaches sendPost
\* while m_pHttpClient is still null.
PostHasClient == wpc = "post" => client

\* An event that was queued and is not settled is in exactly one place, a
\* single queue slot or the worker's hand, and a settled one is in none:
\* no interleaving of push, pop and retry loses or duplicates a task.
OnePlace ==
  /\ \A e \in Events :
       /\ (ticket[e] > 0 /\ outcome[e] = "none") <=> (InQueue(e) \/ InHand(e))
       /\ ~(InQueue(e) /\ InHand(e))
  /\ \A i, j \in DOMAIN m_tasks : m_tasks[i].event = m_tasks[j].event => i = j

\* The n-th first attempt is made for the n-th event that was queued:
\* retries, which go to the back of the queue, never let a younger event
\* overtake an older one's first POST.
FirstAttemptsInOrder ==
  wpc = "post" /\ ~task.isRetrying => ticket[task.event] = firstPosts

\* No request is under way, or about to be, while the server has asked for
\* silence (429) or before RECONNECTION_TIMEOUT has passed since the last
\* connection error.
SendsOnlyWhenAllowed ==
  wpc \in {"pop", "post"} => /\ m_state = "SEND_EVENTS"
                             /\ sinceError = ReconnectTimeout

\* The tasks that are in the queue or past their test of m_shouldStop on the
\* way to it.
Backlog ==
  Len(m_tasks) + Cardinality({t \in Threads : apc[t] = "push"})
    + (IF wpc = "retry" THEN 1 ELSE 0)

\* Once stop() has raised m_shouldStop the backlog never grows, not by a
\* retry either, and every request that is made shrinks it: this bounds the
\* draining loop of run().
NoNewWorkAfterStop ==
  [][m_shouldStop => /\ Backlog' <= Backlog
                     /\ wpc' = "post" /\ wpc # "post" => Backlog' < Backlog]_vars

\* run(): "perform until the list of events to send is empty".
DrainedOnExit == wpc = "exited" => m_tasks = <<>>

\* A thread that called stop() gets out of join().
StopReturns == \A t \in Threads : apc[t] = "join" ~> apc[t] = "stopped"

\* Nothing leaves the queue any more: a 429 came and there are tasks, or a
\* Retry-After that is no number ended the worker.
Silenced ==
  \/ m_tasks # <<>> /\ \E e \in Events : outcome[e] = "limited"
  \/ wpc = "terminated"

\* A thread that called stop() gets out of join(), whatever errors, rejections and
\* late pushes there are, unless the worker is silenced: nothing else hangs it.
StopReturnsUnlessSilenced ==
  \A t \in Threads : apc[t] = "join" ~> apc[t] = "stopped" \/ Silenced

\* An event that is in the queue while nobody has called stop() is POSTed in the
\* end and then done with, stop() or not: the error of another event's request may
\* delay it, but does not take it along.  (Its own does: see KeptUntilAnswered.)
QueuedIsPosted ==
  \A e \in Events :
    InQueue(e) /\ ~m_shouldStop ~> (posts[e] > 0 /\ outcome[e] # "none") \/ Silenced

\* "Failed to establish connection. Event will be stored and retried later.": an
\* event that was queued is kept until the server has answered its request.
KeptUntilAnswered ==
  \A e \in Events :
    ticket[e] > 0 => \/ InQueue(e) \/ InHand(e)
                     \/ outcome[e] \in {"delivered", "limited", "rejected"}

-----------------------------------------------------------------------------
(***************************************************************************)
(* The transport implements EventDelivery.  What is owed to an event is    *)
(* read off the queue and the worker's hand.                               *)
(***************************************************************************)
deliveryStatus ==
  [e \in Events |->
     IF outcome[e] = "none" /\ (InQueue(e) \/ InHand(e)) THEN "pending"
     ELSE IF outcome[e] = "none" THEN "fresh"
     ELSE IF outcome[e] \in {"refused", "delivered"} THEN outcome[e]
     ELSE "discarded"]

Delivery == INSTANCE EventDelivery
              WITH status <- deliveryStatus, attempts <- posts, MaxAttempts <- 2

\* Every event is refused, or queued and then POSTed at most twice, and
\* stays settled once it is.
ImplementsDelivery == Delivery!Spec
=============================================================================
