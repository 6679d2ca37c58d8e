# SentryCpp: a TLA+ model

SentryCpp is a Sentry client for C++: about 2000 lines in `src/src` and
`src/include`, on top of vendored asio, Simple-Web-Server and nlohmann/json. This
directory models its own logic and the HTTP client it drives, checks the models with
TLC on small instances and proves the central properties with TLAPS for every
instance.

## The system

| Part | State | Operations | Interacts with |
|---|---|---|---|
| Public interface (`sentry.cpp`) | one static `Hub` | `init`, `captureEvent`, `addBreadcrumb`, `setTag`, `setExtra`, `lastEventId`, `log` | calls Hub; every call but `init` returns at once unless `m_initialised` |
| Hub (`hub.cpp`) | `m_initialised`, `m_sampleRate`, `m_lastEventId`, the `Scope`, the `Transport` | `init`, `captureEvent`, `addBreadcrumb`, `setTag`, `setExtra` | owns Scope (`m_scopeMutex`) and Transport |
| Limit on identical events (`hub.cpp`) | multimap message → timestamp (`m_lastEventsListMutex`) | `removeOldEventsFromList`, `checkIfEventTooOften` | called by `captureEvent` |
| Scope (`scope.cpp`) | breadcrumbs and their limit, tags, extras, release, level | setters, `addBreadcrumb`, `applyToEvent` | called by Hub, mostly under `m_scopeMutex` |
| Transport (`transport.cpp`) | queue of closures (`m_tasksQueueMutex`), `m_state`, `m_shouldStop`, last connection error, worker thread | `start`, `setupClient`, `sendEvent`, `stop`; in the worker `run`, `perform`, `sendPost` | application threads push, the worker pops and makes blocking requests |
| Crash handlers (`hub.cpp`) | previous terminate handler, the hub that installed it | `terminationHandler`, `signalsHandler`, `captureException`, `~Hub` | capture an event and `stop()` the Transport on the very thread that crashed |
| HTTP client (`client_http.hpp`, vendored) | pool of connections, timers, an `io_service` | `request` and its chain of handlers | called by `sendPost`, on the worker only |
| DSN (`transport.cpp`) | none | `parseDSN` | `Hub::init` |
| Backtrace (`backtracehandler.cpp`) | none that lasts | `getStacktraceJSON` | crash handlers; libbfd, addr2line |

What is hard here: one worker and many producers share the queue, partly without
the lock; `stop()` must drain it and return; the transport must be silent after
errors and 429 and speak again; `captureEvent` reads the scope unlocked while
others change it; the rate limit is computed from strings, local time and an
erasing loop; initialisation publishes `m_initialised` before it has finished; a
crash handler runs ordinary code above whatever it interrupted, and its own end
raises the next signal; the HTTP client sends again on its own, and its timers cancel
whatever is under way when they fire. `PROJECT.json` lists these places under
`hazards`, each at its line.

What makes each part correct:

- Transport: no task lost, duplicated or reordered; silence kept; `stop()` returns,
  and what was queued before it is POSTed.
- Rate limit: at most so many identical events per interval, and none dropped
  without that reason.
- Hub and Scope: the breadcrumbs are the latest ones within the setting; an event
  carries those of its own time, and the configuration once `init` has returned.
- Crash handlers: one crash is reported once, the report is settled before the
  process dies, and the process does die.
- HTTP client: `request` returns as long as the answer ends, with its own answer or
  an error, after a bounded number of sends, and leaves nothing behind for the next
  one.

## Modules

| Module | Models |
|---|---|
| `EventDelivery` | the promise about one event: refused, or attempted a bounded number of times and then settled for good |
| `Transport` | `transport.cpp`: worker, queue, state machine, `stop()` |
| `TransportProofs`, `TransportRefinement` | the theorems about Transport |
| `CrashHandlers` | the handlers and `~Hub` of `hub.cpp`; extends `Transport` and uses its actions |
| `CrashProofs` | the theorems about CrashHandlers |
| `HttpClient` | the client below `sendPost`, and what it needs of asio |
| `HttpClientProofs` | its theorems |
| `RateLimiter` | the limit on identical events, with its clock |
| `RateLimiterProofs` | its theorems |
| `Scope` | operators of `scope.cpp` |
| `Hub` | `hub.cpp` and `sentry.cpp`: init, capture, breadcrumbs, tags, log, called by several threads; extends `Scope` |
| `HubProofs` | the theorems about Hub and Scope |
| `MC*` | constants, symmetries and restricted specifications for TLC |

How they fit together. Hub ends where `sendEvent` is called; Transport begins there.
Transport makes a request one atomic choice of outcome; HttpClient opens that box and
shows that a request that returns has an outcome (`ReturnsWithResult`), and that it
returns unless the server feeds it chunks for ever (`ReturnsUnlessFed`). That no server
does so is what Transport's and CrashHandlers' fairness assumes; one that does keeps
the worker, and with it `stop()`, for ever. CrashHandlers is a composition: its
state is Transport's plus the stacks, the mutexes and the handlers, its steps conjoin
Transport's actions with who may run, and `CrashIsTransport` proves that it takes no
liberty with them.

Definitions named "Mutant of X" are plausible bugs of X's code. No specification uses
them; each shows, put in X's place, that a property can fail (`mutants`).

### Transport

`m_state`, `m_tasks`, `m_shouldStop` and `m_running` are the fields of the same name.
`elapsed` is `now - m_lastConnectionRequestTime`, capped at the timeout, the only
value it is compared with. `wpc` is where the worker is, `loop` the loop of `run()`
it returns to, `task` the closure in its hand; `apc` and `arg` are where each
application thread is in `sendEvent` or `stop`, `joiner` who called `stop()`. A step
is a critical section of `m_tasksQueueMutex` or one access to shared state, so the
unlocked tests of `m_shouldStop` (line 118) and of `m_tasks.empty()` (lines 108 and
170) are steps of their own. `sendPost` is one action per outcome of the request: 200,
429, 429 with a `Retry-After` that `std::stoul` refuses, any other status, an
exception. A `stop()` that joins the worker a second time, or from the worker itself,
throws. The clock is external and only moves forward. `NO_CONNECTION` and
`DROP_EVENTS` are as in the code: the first is left after the timeout, the second
never (`performDropEvents` has no caller).

`stop()` may hang in one way only, which `Silenced` names: a 429 came and tasks are
queued, or `std::stoul` ended the worker. `StopReturnsUnlessSilenced` and
`QueuedIsPosted` except it, and `transport_stop_hangs` shows it.

`outcome`, `posts`, `ticket`, `arrived`, `firstPosts` and `sinceError` are history
variables. Only `Fresh` reads them, so that every event is handed over once.

### CrashHandlers

Each thread has a `stack` of handlers, and only its top runs; what lies below stands
still with the locks it holds. A handler is a thread of Transport with an event of its
own (`Report`), so that its capture, its push and its `stop()` are Transport's. `hpc`
is where it is: building the stack trace, capturing, adding the breadcrumb (under
`m_scopeMutex`), closing. Critical sections are here two steps, lock and unlock,
because a signal may strike between them (`queueMutex`, `scopeMutex`).

What strikes is a signal on any thread that does not block it, an exception that
escapes an application thread (of `std::exception` or not), the end of `main` with
`~Hub`, and `std::stoul` on the worker. The library's part is modelled from the C++
rules: `std::terminate` runs the handler without unwinding, calls `abort` when it
returns or throws, and `abort` raises SIGABRT, which has a handler of its own. A
signal whose handler has begun has its default action again. The stack trace is
built, or throws out of `FrameInfo`, or reads through a null pointer. On the worker
itself a thrown `std::system_error` may also end in `sendPost`'s catch clause.

### HttpClient

A step is one handler run by the `io_service`, or the completion of one operation, or
a timer, or the server. The queue of completed handlers is modelled because the
order in it is what matters: `cancel_timeout` does not remove a timer's handler that
is already queued, and that one then cancels the next operation. A connection carries
both ends of its socket: the bytes on the wire, as items tagged with the request they
answer, and the server's inbox. Six framings of an answer (a length, chunks, a bad chunk,
until the connection closes, none, a length that is no number) lead through the
different reads. The server may answer late, only partly, or close at any time. The
chunks of an answer are sent one at a time and there is no bound on their number
(`sending`, action `Chunk`), as the client has none: it sets its timer anew for each
(line 556). `MaxUnread` bounds only what is on the wire at once.

### RateLimiter

Times are integers (the code's strings have seconds). `list` is the multimap. A step
is a critical section of `m_lastEventsListMutex`; erasing and counting are two. The
uninitialised `tm_isdst` is a choice of `Skews`. Erasing inside the range-for is a
choice of which old messages are found, at least one if there is any; crashing is
not modelled as a state, since every property here is about what happens before.
`lastErased` records, for `DropIsJustified`, what a traversal erased.

### Hub and Scope

A breadcrumb or an event is a message and a level, `""` standing for an absent field.
Event ids are numbers (`generateUuid` never repeats one), 0 is `""`. Time is left out:
`checkIfEventTooOften` may find any messages old. The default tags are set as in the
constructor of Scope, and `setValueMap` never overwrites, as `json::emplace` does not.

`applyToEvent` runs without `m_scopeMutex`. `getBreadcrumbs` assigns the `std::list` to
a json value, which `json.h:1351` does with the range constructor of a vector: it takes
the first node, counts from it to the end, allocates, and copies from it to the end.
These are three steps here, and `walk` is the nodes from that first one on. A breadcrumb
that is added while a thread counts is counted and copied with the rest. One that is
added after the count is written past the buffer, and a `pop_front` frees the node at
which the reader begins: both set `undefined`, as may a write of the tags, the extras or
the release while a thread copies them. No step leaves such a state, since nothing can
be said of the process afterwards; a behaviour that gets there is not claimed to be
harmless, it is where the claims end.

## Runs

| Run | Expect | Shows |
|---|---|---|
| `transport` | pass | 2 threads, 3 events, all responses: `TypeOK`, `PopFindsTask`, `PostHasClient`, `OnePlace`, `FirstAttemptsInOrder`, `SendsOnlyWhenAllowed`, `NoNewWorkAfterStop`, `ImplementsDelivery` (refinement of EventDelivery), `StopReturnsUnlessSilenced`, `QueuedIsPosted` |
| `transport_lost` | violation | `KeptUntilAnswered`: an event whose request throws is neither stored nor retried |
| `transport_late_push` | violation | `DrainedOnExit`: a push that passed the test of `m_shouldStop` arrives after `run()` has left |
| `transport_stop_hangs` | violation | `StopReturns`: a 429 with a non-empty queue makes `stop()` hang |
| `crash_report` | pass | 2 application threads and the worker, one crash of any kind, all responses, all outcomes of the trace: `CrashTypeOK`, `ReportedOnce`, and for a crash of an application thread `ReportSettled` |
| `crash_ends` | pass | 1 application thread and the worker, two crashes, all responses but 429: `CrashEnds` |
| `crash_on_worker` | violation | `ReportLeaves`: the report of a crash of the worker stays in the queue that only the worker empties |
| `crash_deadlock` | violation | `StruckIsReported`: a signal inside the critical section of `addActionToQueue` waits for the mutex of its own thread |
| `http_client` | pass | 2 requests, 2 endpoints, six framings: `TypeOK`, `AnswerIsOwn`, `AtMostTwice`, `ReturnsWithResult`, `PoolIsClean`, `ReturnsUnlessFed` |
| `rate_limit` | pass | 1 thread, 2 messages: `TypeOK`, `TwiceMaxPerInterval`, `DropIsJustified`, `ListIsRecent` |
| `rate_limit_per_hour` | violation | `MaxPerInterval`: an old entry takes younger ones with it |
| `hub_capture` | pass | 2 threads during and after `init`, a wrapped limit, one that is lowered while breadcrumbs exist, sampling, tags: `TypeOK`, `SnapshotWithinCall`, `SendHasClient`, `EmittedIsRemembered`, `ConfiguredAfterInit`, `LatestBreadcrumbs` |

The violations are quoted against the line that says otherwise under `findings`. Other
divergences were met and have no run, since one look at the code shows them: the
timeout on requests (`client_http.hpp:89`) is one on each chunk; a lowered limit of
breadcrumbs is not reached, since each addition removes one (`sentry.cpp:91`);
`lastEventId` may name an event that was dropped (`sentry.cpp:120`); a log of level
ERROR that the rate limit drops leaves no breadcrumb (`README.md:108`); setting a tag
that exists, also `server_name` and `user_login`, has no effect.

Bounds. Three events and two threads give every order of a push, a retry and a stop
around each other, and a queue in which a retry stands behind a younger event. A
timeout of two ticks separates "just failed", "not yet" and "reached". In
CrashHandlers one cause (`MaxCauses`) already puts up to four handlers onto one
another, since a handler's trace may throw or fault and its end aborts; two causes put
handlers onto two threads at once, which is what could make them wait for each other.
Signals strike outside critical sections there (`SignalsAnywhere = FALSE`), because
inside them the code hangs, as `crash_deadlock` shows. `StruckIsReported` is about the
handler at the bottom of a stack, which is the one of what struck: the SIGABRT that
`abort` raises above a handler that has reported is not to be reported again
(`ReportedOnce`). With `SignalsAnywhere = FALSE` and every response TLC finds no
violation of it, so that the deadlock is all it fails for. In HttpClient the second request
is the one that can meet what the first left behind; a third would meet no more, as
the pool holds at most one connection; two connections suffice for a replacement; and
`MaxUnread` of 3 lets a chunk arrive while the one before it is unread.
Interval 3 and limit 2 with times up to 7 let a list fill, be erased and fill again,
in one thread and without skew, where `TwiceMaxPerInterval` and `DropIsJustified` can
hold; that `ListIsRecent` holds for more threads and any skew is proved;
`MaxAccepted` bounds the history. In Hub `MaxEvents` and `MaxCrumbs` exceed the limit
of breadcrumbs (65538, wrapped to 2, and 1 by the failing `init`), so that breadcrumbs
are dropped and two are there when the limit is lowered. The runs
of RateLimiter, Hub and HttpClient end at their bounds, hence `CHECK_DEADLOCK FALSE`;
in `crash_deadlock` the deadlock is the point. Transport and CrashHandlers are
otherwise checked for deadlock.

Fairness. In Transport, weak fairness of the worker (it is a running thread and its
requests end: see `ReturnsUnlessFed`), of a push that has begun (the lock is held
briefly), of a join that is possible, of `start` and `setupClient` inside `Hub::init`, and of time. In
CrashHandlers, weak fairness of every thread once it has begun something, on its top
context only, and strong fairness of taking `m_scopeMutex` by a handler: application
threads take and release it again and again, and the mutex starves nobody for ever. In
HttpClient, weak fairness of the thread that runs the handlers, of a timer whose
operation is still under way (one that completes first cancels it), of the
resolver and of the kernel's attempts to connect, which the client's timer does not
cut short beyond the current endpoint. The server owes nothing: that it stops
sending chunks is a premise of `ReturnsUnlessFed`; without it the property, then
`RequestReturns`, is violated. Nothing forces the application to capture, to crash or to stop.

## Proofs

For arbitrary constants that satisfy the ASSUMEs; a theorem with a further
hypothesis is named with it below. Transport's events may be infinitely many; its
threads are finite, since `Backlog` counts them. Every safety property that a passing
run checks, invariant or action property, is proved. Each inductive invariant was
checked with TLC on the instance of its run before it was proved.

- `TransportProofs`: `TypeCorrect`, `AssertionHolds`, `ClientIsThere`,
  `EveryEventInOnePlace`, `FirstInFirstPosted`, `SilenceIsKept`, from one inductive
  invariant `IndInv`. It adds to the types: a client exists before any event is on
  its way (`ClientInv`); the state and the two clocks agree (`TimeInv`); a queued
  event is unsettled, has a ticket and occurs once, in the queue, in the hand or in
  one thread's argument (`PlaceInv`); the first attempts in the queue carry the
  consecutive tickets after `firstPosts` (`OrderInv`); an event's POSTs match whether
  it was retried (`AttemptInv`). None of the six properties is inductive alone: that
  the head of the queue is the next ticket, for one, needs the order of the whole
  queue.
- `TransportRefinement`: `StopBoundsWork`, and `Refinement`, that Transport
  implements `EventDelivery` under the mapping `deliveryStatus`. Every step maps to
  `Refuse`, `Accept`, `Attempt` or a stutter; `AttemptInv` gives the bound of two.
- `CrashProofs`: `CrashIsTransport`, that every behaviour with crashes is one of
  Transport, so that all of the above holds while handlers run; and
  `CrashIsReported`, that `ReportSettled` holds for any threads, signals and events,
  and wherever signals strike, critical sections included. Its invariant `CrashInv`
  beside `IndInv`: a report is fresh until its handler captures it, nobody else pushes
  it, and the worker leaves only after `stop()` (`ReportInv`); before anything struck
  no handler runs and nobody stops (`PeaceInv`); after one thing struck the thread `t`,
  all handlers are on `t`, and one that has its report queued, or is inside `stop()`,
  is on top of `t` unless the worker has drained the queue and left (`SingleInv`). The
  last part is the argument: what a process dies of is on top of a stack, so a handler
  that is still waiting for its report cannot be passed over.
  `CrashTypeCorrect` adds `MutexInv`: whoever holds `m_tasksQueueMutex`, when a signal
  strikes too, stands before the push or pop it took the mutex for.
  `CrashIsReportedOnce`, that `ReportedOnce` holds, has `OnceInv`: after one thing
  struck a thread, the worker included, all handlers are on it, only the top one
  reports, and one below it has called `stop()` before, so that `addActionToQueue`
  refuses the next report.
- `RateLimiterProofs`: `TypeCorrect`; `ListStaysRecent`, for any number of threads and
  any skews; `DropsAreJustified` and `PaceIsBounded` for one thread without skew
  (`Sequential`, the case in which the code could keep its promise at all: two threads
  may count the same list, and `rate_limit_per_hour` shows that the promised limit
  fails even without them). `PaceIsBounded` is the bound that does hold, twice the
  limit. Its invariant `PaceInv` cuts what was let through into batches, a batch being
  what the list held when it was erased: the timestamps are in order (`OrderInv`), the
  batch before the listed one began before the interval (`BatchInv`), and so the first
  and the last of 2n + 1 events are farther apart than the interval (`GapInv`). That
  such positions are at most 2n is a lemma on finite sets of numbers (`CloseTogether`).
- `HubProofs`, for any threads, events, keys, options and limits. `TypeCorrect`.
  `ClientIsThere` from `InitialisedInv`: the client is created before `m_initialised`
  is set, and no call goes on before that. `BreadcrumbsAreLatest`: from lemmas on
  `addBreadcrumb` (it adds one, removes at most one, and a suffix of the history stays
  one), with every limit that was set and not only the last. `SnapshotIsWithinCall`
  from `CopyInv`: while nothing was undefined, what a reader that counts will copy is
  the list itself, and what one copies, or has copied, is the list of a moment of its
  call, within the limits set by then. It says what a copy is that came to its end, and
  not that every copy does.
  `EmittedAreRemembered` from `EmitInv`: what was sent is in the history or with a
  thread that is about to add it, with the level it was sent with.
  `EventsAreConfigured` under `Configured`, that every `init` gives a release and an
  environment and that the application clears neither, without which the property is
  not meant to hold; its `ConfigInv` says that both are set whenever no `init` is under
  way.
- `HttpClientProofs`, for any number of connections, requests and addresses and any of
  the framings. `RunInv`, the base of the rest: the operation under way and the
  handlers in the queue that are not a timer's are together at most one thing, which
  `Current` names, and it is there exactly until the callback had its result; a timer
  runs only that long. This gives `TypeCorrect` and `RequestHasResult`, although timers
  that fired late still queue handlers. `PoolInv` (the pool is the request's connection
  or empty, every other is as new, and the socket is open as the stage says) and
  `SentInv` (what was sent before a write is at most what `attempt_reconnect` allows)
  give `PoolStaysClean` and `SentAtMostTwice`. `WireInv` gives `AnswersAreOwn`: on the
  wire are bodies left from unframed answers, then the answer to the current request in
  order, then the end (`InOrder`); the server is asked at most once for it; and each
  stage promises what may be left: nothing of this request before it was written, only
  the rest behind a header, only the end when an answer is complete; and the chunks that the server has still to
  send are of the current request and go behind all that is on the wire (`ChunkInv`).
  A kept-alive
  connection is handed on in such a state, and any other is dropped by the callback.

Only model-checked, because the provers here handle neither fairness nor ENABLED: the
liveness properties `StopReturnsUnlessSilenced`, `QueuedIsPosted`, `CrashEnds` and
`ReturnsUnlessFed`. What the provers cannot do was kept out of the models rather than
assumed: nothing is defined by recursion on data. They do not know that a string
literal is in `STRING`, so `HubProofs` has its own set of words.

## Not modelled

- Third-party code. asio, json and the HTTP server are about 155,000 of the 157,500
  lines of C++ in the repository. Of these the HTTP client is modelled, and of asio what
  that client relies on: the handler queue, `run` and `reset`, the composed connect,
  cancellation. The rest is templates, platform layers and parsers that SentryCpp either
  never calls or calls as plain functions; modelling them would say nothing about this
  program. The share of the lines that the map covers is small for this reason; of the
  library's own files it covers the logic.
- In the handlers: the allocator's lock and everything else that is not safe in a
  signal handler; `m_sampleRate` below 100, which may drop a report; a second `Hub`.
- The regular expression of `parseDSN` (init is told whether the DSN parses), headers,
  payload text, debug output.
- The lookup of the backtrace handler, which is calls into libbfd, `dl_iterate_phdr`
  and the demangler; only its three outcomes are modelled.
- Of the HTTP client: a proxy, `stop()`, the limit on the size of an answer, the
  asynchronous interface, none of which SentryCpp uses; TLS.
- What follows an unlocked read with undefined behaviour (Hub stops there), a torn `m_lastEventId`, clocks that are set
  back, and the memory an unlimited queue takes.
- The example application, which keeps no state of its own.

## Plan

1. Done: `Transport` with its abstract specification, refinement and proofs;
   `RateLimiter`, `Scope`, `Hub`, `CrashHandlers` composed with Transport, `HttpClient`;
   proofs of every safety property that a run checks.
2. An abstract specification of one request (sent at most twice, then one result), with
   HttpClient shown to implement it: it would name what Transport's `sendPost` takes a
   request to be.
3. Action properties of Hub and HttpClient: a result is never taken back, an event id
   is never used twice.
