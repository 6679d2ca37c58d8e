--------------------------- MODULE CrashHandlers ---------------------------
(***************************************************************************)
(* The termination handler and the signal handler that Hub::installHandler *)
(* installs (src/hub.cpp), on top of Transport.  Both report the crash     *)
(* through the ordinary queue, stop the transport and let the process die. *)
(*                                                                         *)
(* A handler runs on the stack of the thread it strikes, above the code it *)
(* interrupts and above the handlers that are there already, and that code *)
(* stands still with the locks it holds.  Every handler is a thread of     *)
(* Transport, with an event of its own for its report.                     *)
(***************************************************************************)
EXTENDS Transport

CONSTANTS
  App,               \* application threads
  Main,              \* the one that runs main() and the destructor of mainHub
  WorkerThread,      \* the thread that runs Transport::run
  Signals,           \* signals that have a handler; each handler runs once
  SIGABRT, SIGSEGV,  \* two of them
  terminate,         \* the termination handler of each thread
  Report,            \* the event each handler captures
  Nobody,            \* holds a free mutex
  Traces,            \* what getStacktraceJSON may do in this model
  SignalsAnywhere,   \* signals may strike inside a critical section
  MaxCauses          \* bound on what strikes: signals, exceptions, exits

Bases == App \cup {WorkerThread}
Terminators == {terminate[b] : b \in Bases}
Handlers == Signals \cup Terminators
Contexts == Threads \cup {WorkerThread}
AppEvents == Events \ {Report[h] : h \in Handlers}

\* The stack trace is built; FrameInfo's std::stoul throws (an address found
\* in no section); location[0] is read through the null pointer processFile
\* returns (a file without symbols).
AllTraces == {"built", "throws", "faults"}

ASSUME CrashAssumption ==
  /\ Threads = App \cup Handlers
  /\ WorkerThread \notin Threads /\ Nobody \notin Contexts
  /\ Main \in App /\ {SIGABRT, SIGSEGV} \subseteq Signals
  /\ App \cap Handlers = {} /\ Signals \cap Terminators = {}
  /\ Report \in [Handlers -> Events]
  /\ \A g, h \in Handlers : Report[g] = Report[h] => g = h
  /\ \A b, c \in Bases : terminate[b] = terminate[c] => b = c
  /\ Traces \subseteq AllTraces
  /\ SignalsAnywhere \in BOOLEAN
  /\ MaxCauses \in Nat

VARIABLES
  stack,         \* the handlers on each thread's stack, the running one last
  hpc,           \* where each handler is
  queueMutex,    \* who holds m_tasksQueueMutex
  scopeMutex,    \* who holds m_scopeMutex
  dead,          \* the process is gone
  causes         \* history: the threads that something struck, in order

handlerVars == <<stack, hpc, queueMutex, scopeMutex, dead, causes>>
crashVars == <<vars, handlerVars>>

\* m_tasksQueueMutex belongs to one that is about to push or to pop.
CrashTypeOK ==
  /\ stack \in [Bases -> Seq(Handlers)]
  /\ hpc \in [Handlers -> {"off", "trace", "capture", "crumb", "close", "abort"}]
  /\ queueMutex \in {c \in Threads : apc[c] = "push"} \cup {Nobody}
                     \cup {c \in {WorkerThread} : wpc \in {"pop", "retry"}}
  /\ scopeMutex \in Threads \cup {Nobody}
  /\ dead \in BOOLEAN
  /\ causes \in Seq(Bases)

CrashInit ==
  /\ Init
  /\ stack = [b \in Bases |-> <<>>]
  /\ hpc = [h \in Handlers |-> "off"]
  /\ queueMutex = Nobody /\ scopeMutex = Nobody
  /\ dead = FALSE
  /\ causes = <<>>

-----------------------------------------------------------------------------
(***************************************************************************)
(* Who runs.                                                               *)
(***************************************************************************)
Top(b) == IF stack[b] = <<>> THEN b ELSE stack[b][Len(stack[b])]

\* Context c runs: it is on top of thread b.
Runs(b, c) == ~dead /\ Top(b) = c

Holds(c) == c \in {queueMutex, scopeMutex}

\* A handler begins on thread b.  A signal whose handler ran before has its
\* default action again (signal(sig, SIG_DFL)), which ends the process.
Begin(b, h) ==
  IF hpc[h] = "off"
  THEN /\ stack' = [stack EXCEPT ![b] = Append(@, h)]
       /\ hpc' = [hpc EXCEPT ![h] = "trace"]
       /\ UNCHANGED dead
  ELSE /\ dead' = TRUE
       /\ UNCHANGED <<stack, hpc>>

\* std::abort, which std::terminate calls when the termination handler
\* returns or throws.
Abort(b) ==
  IF hpc[SIGABRT] = "off"
  THEN /\ stack' = [stack EXCEPT ![b] = Append(@, SIGABRT)]
       /\ hpc' = [hpc EXCEPT ![SIGABRT] = "trace", ![terminate[b]] = "abort"]
       /\ UNCHANGED dead
  ELSE /\ dead' = TRUE
       /\ UNCHANGED <<stack, hpc>>

\* An exception leaves the handler on top of thread b.  No code of the
\* thread catches it, so std::terminate runs the termination handler, without
\* unwinding.  If that handler is on the stack, std::terminate catches what
\* leaves it and aborts; what leaves the SIGABRT handler over std::abort,
\* which is noexcept, terminates again (a handler that has reported before
\* has nothing more to report, and its second stop() throws).
Escape(b) ==
  LET t == terminate[b] IN
  IF hpc[t] = "off"
  THEN Begin(b, t)
  ELSE IF Top(b) = SIGABRT /\ hpc[t] = "abort" /\ Fresh(Report[t])
  THEN /\ stack' = [stack EXCEPT ![b] = <<t>>]
       /\ hpc' = [hpc EXCEPT ![t] = "trace"]
       /\ UNCHANGED dead
  ELSE Abort(b)

-----------------------------------------------------------------------------
(***************************************************************************)
(* What strikes.                                                           *)
(***************************************************************************)
Strikes(b) ==
  /\ ~dead /\ Initialised
  /\ Len(causes) < MaxCauses
  /\ causes' = Append(causes, b)

\* A signal is delivered to thread b, on which it is not blocked.
Signal(s, b) ==
  /\ Strikes(b)
  /\ b = WorkerThread => wpc \notin {"unborn", "exited"}
  /\ SignalsAnywhere \/ ~Holds(Top(b))
  /\ \A i \in DOMAIN stack[b] : stack[b][i] # s
  /\ Begin(b, s)
  /\ UNCHANGED <<vars, queueMutex, scopeMutex>>

\* The application lets an exception escape on thread t.  terminationHandler
\* catches what it rethrows only if it is a std::exception.
Exception(t, isStd) ==
  /\ Strikes(t)
  /\ Top(t) = t /\ apc[t] = "idle" /\ ~Holds(t)
  /\ IF isStd THEN Begin(t, terminate[t]) ELSE Abort(t)
  /\ UNCHANGED <<vars, queueMutex, scopeMutex>>

\* main() returns, and ~Hub closes the connection.
Exit ==
  /\ Strikes(Main)
  /\ Top(Main) = Main /\ ~Holds(Main)
  /\ Stop(Main, FALSE)
  /\ UNCHANGED <<stack, hpc, queueMutex, scopeMutex, dead>>

\* After ~Hub the process ends; an exception in it is fatal.
Exited ==
  /\ Runs(Main, Main)
  /\ \/ Join(Main) /\ UNCHANGED <<stack, hpc, dead>>
     \/ apc[Main] = "stopped" /\ dead' = TRUE /\ UNCHANGED <<vars, stack, hpc>>
     \/ apc[Main] = "threw" /\ Escape(Main) /\ UNCHANGED vars
  /\ UNCHANGED <<queueMutex, scopeMutex, causes>>

-----------------------------------------------------------------------------
(***************************************************************************)
(* Critical sections, of application threads and handlers.                 *)
(***************************************************************************)
LockQueue(b, c) ==
  /\ Runs(b, c) /\ queueMutex = Nobody
  /\ IF c = WorkerThread THEN wpc \in {"pop", "retry"} ELSE apc[c] = "push"
  /\ queueMutex' = c
  /\ UNCHANGED <<vars, stack, hpc, scopeMutex, dead, causes>>

\* Mutant of Unlocked: lock_guard's destructor does not run.
StillLocked == queueMutex

Unlocked == Nobody

PushLocked(b, c) ==
  /\ Runs(b, c) /\ queueMutex = c
  /\ Push(c)
  /\ queueMutex' = Unlocked
  /\ UNCHANGED <<stack, hpc, scopeMutex, dead, causes>>

\* setTag, setExtra and addBreadcrumb: an application thread calls them at
\* any time, a handler at the end of captureEvent.
LockScope(b, c) ==
  /\ Runs(b, c) /\ scopeMutex = Nobody
  /\ Initialised /\ apc[c] = "idle" /\ (c \in Handlers => hpc[c] = "crumb")
  /\ scopeMutex' = c
  /\ UNCHANGED <<vars, stack, hpc, queueMutex, dead, causes>>

UnlockScope(b, c) ==
  /\ Runs(b, c) /\ scopeMutex = c
  /\ scopeMutex' = Nobody
  /\ hpc' = IF c \in Handlers THEN [hpc EXCEPT ![c] = "close"] ELSE hpc
  /\ UNCHANGED <<vars, stack, queueMutex, dead, causes>>

CaptureEvent(t, e) ==
  /\ Runs(t, t) /\ ~Holds(t)
  /\ SendEvent(t, e)
  /\ UNCHANGED handlerVars

-----------------------------------------------------------------------------
(***************************************************************************)
(* The worker, while no handler stands on it.                              *)
(***************************************************************************)
WorkerStep ==
  /\ Runs(WorkerThread, WorkerThread)
  /\ Worker /\ wpc' # "terminated"
  /\ IF wpc \in {"pop", "retry"}
     THEN queueMutex = WorkerThread /\ queueMutex' = Unlocked
     ELSE UNCHANGED queueMutex
  /\ UNCHANGED <<stack, hpc, scopeMutex, dead, causes>>

\* std::stoul throws out of the thread function.
WorkerThrows ==
  /\ Strikes(WorkerThread)
  /\ Runs(WorkerThread, WorkerThread)
  /\ PostBadRetryAfter
  /\ Begin(WorkerThread, terminate[WorkerThread])
  /\ UNCHANGED <<queueMutex, scopeMutex>>

-----------------------------------------------------------------------------
(***************************************************************************)
(* The handlers: terminationHandler with captureException, signalsHandler. *)
(***************************************************************************)
GetStacktrace(b, h) ==
  /\ Runs(b, h) /\ hpc[h] = "trace"
  /\ \/ /\ "built" \in Traces
        /\ hpc' = [hpc EXCEPT ![h] = "capture"]
        /\ UNCHANGED <<stack, dead>>
     \/ "throws" \in Traces /\ Escape(b)
     \/ "faults" \in Traces /\ Begin(b, SIGSEGV)
  /\ UNCHANGED <<vars, queueMutex, scopeMutex, causes>>

\* captureEvent up to the queue.  A report has no "message", so that it is
\* not subject to the limit on identical events; m_sampleRate is 100.
HandlerCapture(b, h) ==
  /\ Runs(b, h) /\ hpc[h] = "capture"
  /\ SendEvent(h, Report[h])
  /\ hpc' = [hpc EXCEPT ![h] = "crumb"]
  /\ UNCHANGED <<stack, queueMutex, scopeMutex, dead, causes>>

\* closeHttpConnection, and the handler waits in join().
HandlerClose(b, h) ==
  /\ Runs(b, h) /\ hpc[h] = "close"
  /\ Stop(h, b = WorkerThread) \/ Join(h)
  /\ UNCHANGED handlerVars

\* join() threw std::system_error.
HandlerThrows(b, h) ==
  /\ Runs(b, h) /\ hpc[h] = "close" /\ apc[h] = "threw"
  /\ Escape(b)
  /\ UNCHANGED <<vars, queueMutex, scopeMutex, causes>>

\* On the worker, a signal handler's std::system_error may reach sendPost's
\* catch clause instead, which takes it for a connection error.
HandlerSwallowed(h) ==
  /\ Runs(WorkerThread, h) /\ hpc[h] = "close" /\ apc[h] = "threw"
  /\ stack[WorkerThread] = <<h>> /\ h \in Signals
  /\ PostError
  /\ stack' = [stack EXCEPT ![WorkerThread] = <<>>]
  /\ UNCHANGED <<hpc, queueMutex, scopeMutex, dead, causes>>

\* Mutant of Closed: stop() does not wait for the worker.
ClosedUnjoined(h) == apc[h] \in {"join", "stopped"}

\* closeHttpConnection has returned.
Closed(h) == apc[h] = "stopped"

\* Mutant of Raised: the handler returns without raise(sig).
NotRaised == FALSE

\* raise(sig), now with the default action, ends the process.
Raised == TRUE

\* The end of signalsHandler, or of terminationHandler: the default one, which
\* aborts.
HandlerEnds(b, h) ==
  /\ Runs(b, h) /\ hpc[h] = "close" /\ Closed(h)
  /\ IF h \in Signals THEN dead' = Raised /\ UNCHANGED <<stack, hpc>>
                      ELSE Abort(b)
  /\ UNCHANGED <<vars, queueMutex, scopeMutex, causes>>

-----------------------------------------------------------------------------
Setup == ~dead /\ (Start \/ SetupClient) /\ UNCHANGED handlerVars
TimePasses == ~dead /\ Tick /\ UNCHANGED handlerVars
Over == dead /\ UNCHANGED crashVars

Handle(b, h) ==
  \/ GetStacktrace(b, h) \/ HandlerCapture(b, h) \/ HandlerClose(b, h)
  \/ HandlerThrows(b, h) \/ HandlerEnds(b, h)

\* What the thread b does once it has begun it.
Proceeds(b) ==
  \/ \E c \in Contexts : LockQueue(b, c)
  \/ \E c \in Threads : PushLocked(b, c) \/ UnlockScope(b, c)
  \/ \E h \in Handlers : Handle(b, h)
  \/ b = WorkerThread /\ WorkerStep
  \/ b = Main /\ Exited

CrashNext ==
  \/ Setup \/ TimePasses \/ Over
  \/ \E b \in Bases : \/ Proceeds(b)
                      \/ \E s \in Signals : Signal(s, b)
                      \/ \E c \in Threads : LockScope(b, c)
  \/ \E t \in App : \/ \E isStd \in BOOLEAN : Exception(t, isStd)
                    \/ \E e \in AppEvents : CaptureEvent(t, e)
  \/ Exit \/ WorkerThrows
  \/ \E h \in Signals : HandlerSwallowed(h)

CrashSpec == CrashInit /\ [][CrashNext]_crashVars

\* The scheduler runs every thread that can run; on a thread, the context on
\* top.  Nothing forces an application thread to begin a call.  A thread that
\* waits for m_scopeMutex while others take and release it gets it in the end.
CrashFairness ==
  /\ WF_crashVars(Setup) /\ WF_crashVars(TimePasses)
  /\ \A b \in Bases : /\ WF_crashVars(Proceeds(b))
                      /\ SF_crashVars(\E h \in Handlers : LockScope(b, h))

FairCrashSpec == CrashSpec /\ CrashFairness

-----------------------------------------------------------------------------
(***************************************************************************)
(* Properties.                                                             *)
(***************************************************************************)
Queued(h) == ticket[Report[h]] > 0

\* When one thing struck an application thread and the process is gone, the
\* report and every event that was queued before it are settled: no path
\* through the handlers dies before the worker has drained the queue.
ReportSettled ==
  dead /\ Len(causes) = 1 /\ causes[1] \in App =>
    \A h \in Handlers, e \in Events :
      Queued(h) /\ 0 < ticket[e] /\ ticket[e] <= ticket[Report[h]]
        => outcome[e] # "none"

\* One crash is reported once, although a handler's own end raises SIGABRT,
\* and what it throws terminates again.
ReportedOnce ==
  Len(causes) <= 1 => \A g, h \in Handlers : Queued(g) /\ Queued(h) => g = h

\* A handler that began on an application thread, and a crash of the worker,
\* end the process: the handlers never wait for one another, nor for a worker
\* that is not going to exit.
CrashEnds ==
  (\E t \in App : stack[t] # <<>>) \/ wpc = "terminated" ~> dead

\* "All unhandled exceptions and terminating signals will be automatically
\* reported": what struck a thread, and so runs the handler at the bottom of its
\* stack, gets a report into the queue.
StruckIsReported ==
  \A b \in Bases, h \in Handlers :
    stack[b] # <<>> /\ stack[b][1] = h ~> Queued(h)

\* The same sentence, of the server: when the process is gone after one crash, on
\* whichever thread, the report that was queued has been dealt with.
ReportLeaves ==
  dead /\ Len(causes) = 1 =>
    \A h \in Handlers : Queued(h) => outcome[Report[h]] # "none"
=============================================================================
