-------------------------------- MODULE Hub --------------------------------
(***************************************************************************)
(* The hub of SentryCpp (src/hub.cpp) behind the functions of sentry.cpp:  *)
(* configuration, the scope, captureEvent, addBreadcrumb, setTag, setExtra *)
(* and log, called by several application threads.                         *)
(*                                                                         *)
(* Granularity.  A step is a critical section of m_scopeMutex or of        *)
(* m_lastEventsListMutex, or one access to state that is read or written   *)
(* without a lock: m_lastEventId, and the scope in applyToEvent.  A write  *)
(* of the scope that overlaps such a read in a way that reads freed memory *)
(* or overruns a buffer sets `undefined', and the behaviour ends there:    *)
(* what the process does next, nothing promises.                           *)
(*                                                                         *)
(* Hub::init is one step: before m_initialised, its last assignment,       *)
(* nobody reads what it sets; afterwards it changes m_maxBreadcrumbs and   *)
(* m_sampleRate, which no step reads together, or terminates the process.  *)
(*                                                                         *)
(* The rate limit is modelled with its clock in RateLimiter; here time is  *)
(* left out, so that any message may have grown old.  The transport is     *)
(* modelled in Transport; here it is the sequence of payloads given to it. *)
(***************************************************************************)
EXTENDS Scope, FiniteSets

CONSTANTS
  Threads,
  Events,                 \* [message, level]: what captureEvent and log get
  Keys, Values,           \* of tags and extras; Values may contain ""
  Releases,               \* values the application may set the release to
  Options,                \* SentryOptions given to init, and whether its DSN parses
  MaxEventsPerInterval,   \* m_maxEventsPerInterval
  DefaultMaxBreadcrumbs,  \* of the constructor of Scope
  MaxEvents, MaxCrumbs    \* bounds: events captured, breadcrumbs added

Messages == {e.message : e \in Events} \ {""}

ASSUME HubAssumption ==
  /\ MaxEventsPerInterval \in Nat \ {0}
  /\ DefaultMaxBreadcrumbs \in uint16_t
  /\ Options \subseteq [goodDsn : BOOLEAN, maxBreadcrumbs : Int,
                        sampleRate : Int, release : STRING, environment : STRING]
  /\ "environment" \in Keys
  /\ Events \subseteq [message : STRING, level : STRING]

VARIABLES
  m_initialised,
  m_pHttpClient,     \* a Transport has been started
  terminated,        \* std::terminate was called
  undefined,         \* a data race had undefined behaviour
  m_sampleRate,
  m_maxBreadcrumbs, m_breadcrumbs, m_tags, m_extras, m_release,   \* m_scope
  m_lastEventId,     \* number of the event id, 0 for ""
  listed,            \* entries of each message in the list of last events
  pc,                \* where each thread is
  frame,             \* the locals of its call
  walk               \* the nodes of the list from a thread's first one on

\* History variables: no action reads them, but for the bounds.
VARIABLES
  ids,               \* event ids generated
  crumbLog,          \* every breadcrumb ever added
  emitted,           \* payloads given to the transport
  limits             \* values of m_maxBreadcrumbs since initialisation

scopeVars == <<m_maxBreadcrumbs, m_breadcrumbs, m_tags, m_extras, m_release>>
hubVars == <<m_initialised, m_pHttpClient, terminated, m_sampleRate>>
history == <<ids, crumbLog, emitted, limits>>
vars == <<hubVars, undefined, scopeVars, m_lastEventId, listed, pc, frame, walk, history>>

-----------------------------------------------------------------------------
NoEvent == [message |-> "", level |-> ""]
NoTags == [k \in Keys |-> ""]
setDefaultTags ==
  [k \in Keys |-> IF k \in {"user_login", "server_name"} THEN "system" ELSE ""]
NoOptions == [goodDsn |-> FALSE, maxBreadcrumbs |-> -1, sampleRate |-> 0,
              release |-> "", environment |-> ""]
NoPayload == [event_id |-> 0, message |-> "", level |-> "", breadcrumbs |-> <<>>,
              tags |-> NoTags, extra |-> NoTags, release |-> ""]

\* The locals of a call: the options of init, the event and the payload; and,
\* for the properties, how many breadcrumbs there had been when it began and
\* whether init was still under way.
NoFrame == [options |-> NoOptions, event |-> NoEvent,
            payload |-> NoPayload, began |-> 0, early |-> FALSE]

Init ==
  /\ m_initialised = FALSE
  /\ m_pHttpClient = FALSE
  /\ terminated = FALSE
  /\ undefined = FALSE
  /\ m_sampleRate = 100
  /\ m_maxBreadcrumbs = DefaultMaxBreadcrumbs
  /\ m_breadcrumbs = <<>>
  /\ m_tags = setDefaultTags
  /\ m_extras = NoTags
  /\ m_release = ""
  /\ m_lastEventId = 0
  /\ listed = [m \in Messages |-> 0]
  /\ pc = [t \in Threads |-> "idle"]
  /\ frame = [t \in Threads |-> NoFrame]
  /\ walk = [t \in Threads |-> <<>>]
  /\ ids = 0
  /\ crumbLog = <<>>
  /\ emitted = <<>>
  /\ limits = {}

\* The process runs, and thread t is at the given place.
At(t, place) == ~terminated /\ ~undefined /\ pc[t] = place

\* The thread begins a call of the public interface.
Idle(t) == At(t, "idle")

\* Every function but init returns at once while the hub is not initialised.
Ready(t) == Idle(t) /\ m_initialised

Return(t) ==
  /\ pc' = [pc EXCEPT ![t] = "idle"]
  /\ frame' = [frame EXCEPT ![t] = NoFrame]

-----------------------------------------------------------------------------
(***************************************************************************)
(* init.  The settings are taken over before the DSN is parsed.  A second  *)
(* Transport replaces the first one, whose destructor finds its thread     *)
(* joinable: std::terminate.  An absent DSN changes nothing.               *)
(***************************************************************************)
\* Mutant of Started: m_initialised is set before the DSN is parsed.
StartedAnyway(o) == TRUE

\* Hub::init gets to m_initialised = true.
Started(o) == o.goodDsn

init(t, o) ==
  /\ Idle(t)
  /\ m_maxBreadcrumbs' = IF o.maxBreadcrumbs # -1 THEN uint16(o.maxBreadcrumbs)
                                                  ELSE m_maxBreadcrumbs
  /\ m_sampleRate' = o.sampleRate
  /\ m_pHttpClient' = (m_pHttpClient \/ o.goodDsn)
  /\ m_initialised' = (m_initialised \/ Started(o))
  /\ terminated' = (o.goodDsn /\ m_pHttpClient)
  /\ limits' = IF m_initialised' THEN limits \cup {m_maxBreadcrumbs'} ELSE limits
  /\ IF o.goodDsn
     THEN /\ pc' = [pc EXCEPT ![t] = "release"]
          /\ frame' = [frame EXCEPT ![t].options = o]
     ELSE UNCHANGED <<pc, frame>>
  /\ UNCHANGED <<undefined, walk, m_breadcrumbs, m_tags, m_extras, m_release, m_lastEventId,
                 listed, ids, crumbLog, emitted>>

\* Mutant of Given: the value is taken over only if one was there before.
GivenAgain(old, value) == IF old # "" THEN value ELSE old

\* if (initParameters.release != "") ...
Given(old, value) == IF value # "" THEN value ELSE old

\* A write of the tags, the extras or the release while a thread reads them in
\* applyToEvent, which may have begun or not: the copy of a tree or of a string
\* that changes under it is undefined.
Overwritten(changed) ==
  undefined' \in IF changed /\ \E u \in Threads : pc[u] = "apply" THEN BOOLEAN ELSE {FALSE}

\* The rest of init, after m_initialised is set: setTag("release", ...) and
\* setTag("environment", ...), each if there is a value.
initRelease(t) ==
  /\ At(t, "release")
  /\ m_release' = Given(m_release, frame[t].options.release)
  /\ Overwritten(m_release' # m_release)
  /\ pc' = [pc EXCEPT ![t] = "environment"]
  /\ UNCHANGED <<walk, hubVars, m_maxBreadcrumbs, m_breadcrumbs, m_tags, m_extras,
                 m_lastEventId, listed, frame, history>>

initEnvironment(t) ==
  /\ At(t, "environment")
  /\ m_tags' = IF frame[t].options.environment # ""
               THEN setValueMap(m_tags, "environment", frame[t].options.environment)
               ELSE m_tags
  /\ Overwritten(m_tags' # m_tags)
  /\ Return(t)
  /\ UNCHANGED <<walk, hubVars, m_maxBreadcrumbs, m_breadcrumbs, m_extras, m_release,
                 m_lastEventId, listed, ids, crumbLog, emitted, limits>>

-----------------------------------------------------------------------------
(***************************************************************************)
(* The scope: setTag, setExtra and addBreadcrumb hold m_scopeMutex.        *)
(***************************************************************************)
setTag(t, key, value) ==
  /\ Ready(t)
  /\ m_tags' = setValueMap(m_tags, key, value)
  /\ Overwritten(m_tags' # m_tags)
  /\ UNCHANGED <<walk, hubVars, m_maxBreadcrumbs, m_breadcrumbs, m_extras, m_release,
                 m_lastEventId, listed, pc, frame, ids, crumbLog, emitted, limits>>

setRelease(t, value) ==
  /\ Ready(t)
  /\ m_release' = value
  /\ Overwritten(m_release' # m_release)
  /\ UNCHANGED <<walk, hubVars, m_maxBreadcrumbs, m_breadcrumbs, m_tags, m_extras,
                 m_lastEventId, listed, pc, frame, history>>

setExtra(t, key, value) ==
  /\ Ready(t)
  /\ m_extras' = setValueMap(m_extras, key, value)
  /\ Overwritten(m_extras' # m_extras)
  /\ UNCHANGED <<walk, hubVars, m_maxBreadcrumbs, m_breadcrumbs, m_tags, m_release,
                 m_lastEventId, listed, pc, frame, history>>

\* Mutant of Met: the new node is linked in front of the node a reader stands on.
MetFirst(crumb) ==
  [t \in Threads |-> IF pc[t] = "count" THEN <<crumb>> \o walk[t] ELSE walk[t]]

\* The new node is linked behind the last one: who is still counting meets it.
Met(crumb) ==
  [t \in Threads |-> IF pc[t] = "count" THEN Append(walk[t], crumb) ELSE walk[t]]

\* push_back while a thread copies what it has counted: the copy goes on to the end
\* of the list and writes past its buffer.  pop_front frees the node at which the
\* copy of a thread that counts, or copies, begins.
Corrupts(popped) ==
  \E t \in Threads : pc[t] = "copy" \/ (pc[t] = "count" /\ popped)

\* Mutant of Completed: no default level.
AsGiven(attributes) == attributes

\* The level of a breadcrumb is "info" unless the attributes have one.
Completed(attributes) == [attributes EXCEPT !.level = IF @ = "" THEN "info" ELSE @]

\* Hub::addBreadcrumb.
AddCrumb(attributes) ==
  LET crumb == Completed(attributes)
  IN  /\ Len(crumbLog) < MaxCrumbs
      /\ m_breadcrumbs' = PushBreadcrumb(m_breadcrumbs, crumb, m_maxBreadcrumbs)
      /\ crumbLog' = Append(crumbLog, crumb)
      /\ walk' = Met(crumb)
      /\ undefined' = Corrupts(Len(m_breadcrumbs') <= Len(m_breadcrumbs))

addBreadcrumb(t, attributes) ==
  /\ Ready(t)
  /\ AddCrumb(attributes)
  /\ UNCHANGED <<hubVars, m_maxBreadcrumbs, m_tags, m_extras, m_release,
                 m_lastEventId, listed, pc, frame, ids, emitted, limits>>

-----------------------------------------------------------------------------
(***************************************************************************)
(* captureEvent.                                                           *)
(***************************************************************************)
\* The event id is generated, and is the last one from now on.
captureEvent(t, e) ==
  /\ Ready(t)
  /\ ids < MaxEvents
  /\ ids' = ids + 1
  /\ m_lastEventId' = ids + 1
  /\ pc' = [pc EXCEPT ![t] = IF e.message # "" THEN "limit" ELSE "breadcrumbs"]
  /\ frame' = [frame EXCEPT ![t] =
       [NoFrame EXCEPT !.event = e, !.payload.event_id = ids + 1,
                       !.began = Len(crumbLog),
                       !.early = \E u \in Threads : pc[u] \in {"release", "environment"}]]
  /\ UNCHANGED <<walk, hubVars, undefined, scopeVars, listed, crumbLog, emitted, limits>>

\* log: LEVEL_ERROR and above are captured, the rest are breadcrumbs.
Level == {"debug", "info", "warning", "error", "fatal"}

logEvent(t, e) ==
  /\ e.level \in {"error", "fatal"}
  /\ captureEvent(t, e)

logBreadcrumb(t, e) ==
  /\ Ready(t)
  /\ e.level \in Level \ {"error", "fatal"}
  /\ AddCrumb(e)
  /\ UNCHANGED <<hubVars, m_maxBreadcrumbs, m_tags, m_extras, m_release,
                 m_lastEventId, listed, pc, frame, ids, emitted, limits>>

log(t, e) == logEvent(t, e) \/ logBreadcrumb(t, e)

\* checkIfEventTooOften: some messages have grown old and are erased.  A
\* dropped event returns "".
checkIfEventTooOften(t) ==
  /\ At(t, "limit")
  /\ \E old \in SUBSET Messages :
       LET m == frame[t].event.message
           left == [n \in Messages |-> IF n \in old THEN 0 ELSE listed[n]]
       IN  IF left[m] >= MaxEventsPerInterval
           THEN /\ listed' = left
                /\ Return(t)
           ELSE /\ listed' = [left EXCEPT ![m] = @ + 1]
                /\ pc' = [pc EXCEPT ![t] = "breadcrumbs"]
                /\ UNCHANGED frame
  /\ UNCHANGED <<walk, hubVars, undefined, scopeVars, m_lastEventId, ids, crumbLog, emitted, limits>>

\* applyToEvent reads the scope without m_scopeMutex: the breadcrumbs first,
\* then the tags, the extras, the release and the level.  getBreadcrumbs makes a
\* vector of a linked list: it takes the first node, counts the nodes from there to
\* the end, allocates, and copies from the first node to the end.
beginBreadcrumbs(t) ==
  /\ At(t, "breadcrumbs")
  /\ walk' = [walk EXCEPT ![t] = m_breadcrumbs]
  /\ pc' = [pc EXCEPT ![t] = IF m_breadcrumbs = <<>> THEN "apply" ELSE "count"]
  /\ UNCHANGED <<hubVars, undefined, scopeVars, m_lastEventId, listed, frame, history>>

countBreadcrumbs(t) ==
  /\ At(t, "count")
  /\ pc' = [pc EXCEPT ![t] = "copy"]
  /\ UNCHANGED <<hubVars, undefined, scopeVars, m_lastEventId, listed, frame, walk, history>>

applyBreadcrumbs(t) ==
  /\ At(t, "copy")
  /\ frame' = [frame EXCEPT ![t].payload.breadcrumbs = walk[t]]
  /\ walk' = [walk EXCEPT ![t] = <<>>]
  /\ pc' = [pc EXCEPT ![t] = "apply"]
  /\ UNCHANGED <<hubVars, undefined, scopeVars, m_lastEventId, listed, history>>

applyToEvent(t) ==
  /\ At(t, "apply")
  /\ frame' = [frame EXCEPT ![t].payload =
       [@ EXCEPT !.message = frame[t].event.message,
                 !.level = InsertField(frame[t].event.level, getLevelStr),
                 !.tags = m_tags, !.extra = m_extras, !.release = m_release]]
  /\ pc' = [pc EXCEPT ![t] = "send"]
  /\ UNCHANGED <<walk, hubVars, undefined, scopeVars, m_lastEventId, listed, history>>

\* std::rand() % 100 < m_sampleRate, for some and not for some remainder.
Sampled == 0 < m_sampleRate
NotSampled == m_sampleRate <= 99

sendEvent(t) ==
  /\ At(t, "send")
  /\ \/ Sampled /\ emitted' = Append(emitted, frame[t].payload)
     \/ NotSampled /\ UNCHANGED emitted
  /\ pc' = [pc EXCEPT ![t] = "crumb"]
  /\ UNCHANGED <<walk, hubVars, undefined, scopeVars, m_lastEventId, listed, frame,
                 ids, crumbLog, limits>>

\* addBreadcrumb(event); return eventId.
finishCapture(t) ==
  /\ At(t, "crumb")
  /\ AddCrumb(frame[t].event)
  /\ Return(t)
  /\ UNCHANGED <<hubVars, m_maxBreadcrumbs, m_tags, m_extras, m_release,
                 m_lastEventId, listed, ids, emitted, limits>>

Next ==
  \E t \in Threads :
    \/ \E o \in Options : init(t, o)
    \/ initRelease(t) \/ initEnvironment(t)
    \/ \E k \in Keys, v \in Values : setTag(t, k, v) \/ setExtra(t, k, v)
    \/ \E v \in Releases : setRelease(t, v)
    \/ \E e \in Events : addBreadcrumb(t, e) \/ captureEvent(t, e) \/ log(t, e)
    \/ checkIfEventTooOften(t)
    \/ beginBreadcrumbs(t) \/ countBreadcrumbs(t) \/ applyBreadcrumbs(t)
    \/ applyToEvent(t)
    \/ sendEvent(t) \/ finishCapture(t)

Spec == Init /\ [][Next]_vars

-----------------------------------------------------------------------------
(***************************************************************************)
(* Properties.                                                             *)
(***************************************************************************)
TypeOK ==
  /\ {m_initialised, m_pHttpClient, terminated, undefined} \subseteq BOOLEAN
  /\ m_maxBreadcrumbs \in uint16_t
  /\ m_breadcrumbs \in Seq({Completed(e) : e \in Events})
  /\ \A i \in DOMAIN m_breadcrumbs : m_breadcrumbs[i].level # ""
  /\ DOMAIN m_tags = Keys /\ DOMAIN m_extras = Keys
  /\ m_lastEventId \in 0..ids
  /\ listed \in [Messages -> 0..MaxEventsPerInterval]
  /\ pc \in [Threads -> {"idle", "release", "environment", "limit", "breadcrumbs", "count",
                         "copy", "apply", "send", "crumb"}]

IsSuffix(s, t) == Len(s) <= Len(t) /\ s = SubSeq(t, Len(t) - Len(s) + 1, Len(t))

\* The list has the latest of the breadcrumbs added so far, in order, and none is
\* dropped before the smallest limit that was ever set is reached or kept beyond the
\* largest.
Latest(list, added) ==
  /\ IsSuffix(list, added)
  /\ \A n \in 0..Len(added) : (\A l \in limits : n <= l) => n <= Len(list)
  /\ list # <<>> => \E l \in limits : Len(list) <= l

\* The breadcrumbs are the latest ones, as many as the limits allow.
LatestBreadcrumbs == Latest(m_breadcrumbs, crumbLog)

\* A copy of the breadcrumbs that came to its end without undefined behaviour is the
\* list of one moment of the capture, whole: a breadcrumb that another thread added
\* meanwhile is in it with all before it, or is not.
SnapshotWithinCall ==
  \A t \in Threads : pc[t] \in {"apply", "send", "crumb"} =>
    \E n \in frame[t].began..Len(crumbLog) :
      Latest(frame[t].payload.breadcrumbs, SubSeq(crumbLog, 1, n))

\* captureEvent uses m_pHttpClient without looking: it is never null.
SendHasClient == \A t \in Threads : pc[t] = "send" => m_pHttpClient

\* Once the capture of an event that was sent has returned, a breadcrumb with its
\* message and the level it was sent with has been added.
EmittedIsRemembered ==
  \A i \in DOMAIN emitted :
    \/ \E t \in Threads : frame[t].payload.event_id = emitted[i].event_id
    \/ \E j \in DOMAIN crumbLog : /\ crumbLog[j].message = emitted[i].message
                                  /\ crumbLog[j].level = emitted[i].level

\* An event without release or environment was captured before init, which
\* sets both after m_initialised, had returned.  (Here every Options has both
\* and the application never clears them.)
ConfiguredAfterInit ==
  \A t \in Threads :
    /\ pc[t] = "send"
    /\ frame[t].payload.release = "" \/ frame[t].payload.tags["environment"] = ""
    => frame[t].early
=============================================================================
