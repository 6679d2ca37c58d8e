----------------------------- MODULE HubProofs -----------------------------
(***************************************************************************)
(* Proofs about Hub, for any threads, events, options, limits and bounds.  *)
(***************************************************************************)
EXTENDS Hub, SequenceTheorems, TLAPS

USE DEF At

\* The sets the values come from.  (The provers do not know that a string
\* literal is in STRING.)
Word == STRING \cup {"", "info", "system"}
Text == [message : Word, level : Word]
Crumb == {c \in {Completed(e) : e \in Events} : c \in Text /\ c.level # ""}
Value == Values \cup Word
Release == Releases \cup Word
Option == [goodDsn : BOOLEAN, maxBreadcrumbs : Int, sampleRate : Int,
           release : Word, environment : Word]
Payload == [event_id : Nat, message : Word, level : Word, breadcrumbs : Seq(Crumb),
            tags : [Keys -> Value], extra : [Keys -> Value], release : Release]
Frame == [options : Option, event : Text, payload : Payload, began : Nat, early : BOOLEAN]
PC == {"idle", "release", "environment", "limit", "breadcrumbs", "count", "copy", "apply",
       "send", "crumb"}

\* A thread is in captureEvent.
Capturing(t) ==
  pc[t] \in {"limit", "breadcrumbs", "count", "copy", "apply", "send", "crumb"}

FlagTypes ==
  /\ m_initialised \in BOOLEAN /\ m_pHttpClient \in BOOLEAN
  /\ terminated \in BOOLEAN /\ undefined \in BOOLEAN

ScopeTypes ==
  /\ m_maxBreadcrumbs \in uint16_t /\ limits \subseteq uint16_t
  /\ m_tags \in [Keys -> Value] /\ m_extras \in [Keys -> Value] /\ m_release \in Release

CrumbTypes ==
  /\ m_breadcrumbs \in Seq(Crumb) /\ crumbLog \in Seq(Crumb)
  /\ walk \in [Threads -> Seq(Crumb)]

CallTypes ==
  /\ pc \in [Threads -> PC]
  /\ frame \in [Threads -> Frame]
  /\ emitted \in Seq(Payload)

LimitTypes ==
  /\ ids \in Nat /\ m_lastEventId \in 0..ids
  /\ listed \in [Messages -> 0..MaxEventsPerInterval]

\* What a call captures is one of the events, and has a message if it is about
\* to be looked up.
EventTypes ==
  \A t \in Threads : /\ Capturing(t) => frame[t].event \in Events
                     /\ pc[t] = "limit" => frame[t].event.message \in Messages

\* TypeOK with the types of the frames and of the histories.
Types == FlagTypes /\ ScopeTypes /\ CrumbTypes /\ CallTypes /\ LimitTypes /\ EventTypes

\* The events and options of the assumption have the types used here.
LEMMA EventIsText == Events \subseteq Text
  BY HubAssumption DEF Text, Word
LEMMA OptionsAreOption == Options \subseteq Option
  BY HubAssumption DEF Option, Word

\* Types is stronger than the TypeOK that the run checks.
LEMMA TypesSuffice == Types => TypeOK
<1> SUFFICES ASSUME Types PROVE TypeOK
  OBVIOUS
<1>1. {m_initialised, m_pHttpClient, terminated, undefined} \subseteq BOOLEAN
  BY Zenon DEF Types, FlagTypes
<1>2. m_breadcrumbs \in Seq(Crumb)
  BY DEF Types, CrumbTypes
<1>3. DOMAIN m_tags = Keys /\ DOMAIN m_extras = Keys /\ m_maxBreadcrumbs \in uint16_t
  BY DEF Types, ScopeTypes
<1>4. /\ m_lastEventId \in 0..ids /\ listed \in [Messages -> 0..MaxEventsPerInterval]
      /\ pc \in [Threads -> PC]
  BY DEF Types, LimitTypes, CallTypes
<1>5. \A i \in DOMAIN m_breadcrumbs : m_breadcrumbs[i] \in Crumb
  BY <1>2
<1>6. \A i \in DOMAIN m_breadcrumbs : m_breadcrumbs[i].level # ""
  BY <1>5 DEF Crumb
<1>7. Crumb \subseteq {Completed(e) : e \in Events}
  BY DEF Crumb
<1>8. Seq(Crumb) \subseteq Seq({Completed(e) : e \in Events})
  BY <1>7
<1> QED BY <1>1, <1>2, <1>3, <1>4, <1>6, <1>8 DEF TypeOK, PC

\* The frame of a thread that is in no call.
LEMMA NoFrameType ==
  /\ NoFrame \in Frame /\ NoFrame.began = 0 /\ NoFrame.payload.breadcrumbs = <<>>
  /\ NoFrame.early = FALSE
<1>1. NoTags \in [Keys -> Value]
  BY DEF NoTags, Value, Word
<1>2. NoPayload \in Payload
  BY <1>1 DEF NoPayload, Payload, Release, Word
<1>3. NoOptions \in Option /\ NoEvent \in Text
  BY DEF NoOptions, Option, NoEvent, Text, Word
<1> QED BY <1>2, <1>3 DEF NoFrame, Frame, NoPayload

\* Completed keeps the message and gives a level.
LEMMA CompletedType ==
  ASSUME NEW e \in Events
  PROVE  /\ Completed(e) \in Crumb /\ Completed(e).message = e.message
         /\ Completed(e).level = IF e.level = "" THEN "info" ELSE e.level
<1>1. e \in Text
  BY EventIsText
<1>2. Completed(e) \in Text /\ Completed(e).level # ""
  BY <1>1 DEF Completed, Text, Word
<1>3. /\ Completed(e).message = e.message
      /\ Completed(e).level = IF e.level = "" THEN "info" ELSE e.level
  BY <1>1 DEF Completed, Text
<1> QED BY <1>2, <1>3 DEF Crumb

\* Operators of Scope keep the types.
LEMMA setValueMapType ==
  ASSUME NEW map \in [Keys -> Value], NEW key \in Keys, NEW value \in Value
  PROVE  setValueMap(map, key, value) \in [Keys -> Value]
  BY DEF setValueMap

\* ... addBreadcrumb does, whatever its limit.
LEMMA PushType ==
  ASSUME NEW crumbs \in Seq(Crumb), NEW crumb \in Crumb, NEW max
  PROVE  PushBreadcrumb(crumbs, crumb, max) \in Seq(Crumb)
<1>1. Append(crumbs, crumb) \in Seq(Crumb) /\ Append(crumbs, crumb) # <<>>
  BY AppendProperties
<1>2. Tail(Append(crumbs, crumb)) \in Seq(Crumb)
  BY <1>1, HeadTailProperties
<1> QED BY <1>1, <1>2 DEF PushBreadcrumb

-----------------------------------------------------------------------------
(***************************************************************************)
(* The types hold.                                                         *)
(***************************************************************************)
LEMMA InitTypes == Init => Types
<1> SUFFICES ASSUME Init PROVE Types
  OBVIOUS
<1>1. FlagTypes
  BY DEF Init, FlagTypes
<1>2. ScopeTypes
  <2>1. setDefaultTags \in [Keys -> Value] /\ NoTags \in [Keys -> Value]
    BY DEF setDefaultTags, NoTags, Value, Word
  <2> QED BY <2>1, HubAssumption DEF Init, ScopeTypes, Release, Word
<1>3. CrumbTypes
  <2>1. <<>> \in Seq(Crumb)
    OBVIOUS
  <2> QED BY <2>1 DEF Init, CrumbTypes
<1>4. CallTypes
  <2>1. <<>> \in Seq(Payload)
    OBVIOUS
  <2>2. "idle" \in PC /\ NoFrame \in Frame
    BY NoFrameType DEF PC
  <2> QED BY <2>1, <2>2 DEF Init, CallTypes
<1>5. LimitTypes
  <2>1. 0 \in 0..MaxEventsPerInterval
    BY HubAssumption
  <2>2. ids = 0 /\ m_lastEventId = 0
    BY DEF Init
  <2>3. listed = [m \in Messages |-> 0]
    BY DEF Init
  <2> QED BY <2>1, <2>2, <2>3 DEF LimitTypes
<1>6. EventTypes
  BY DEF Init, EventTypes, Capturing
<1> QED BY <1>1, <1>2, <1>3, <1>4, <1>5, <1>6 DEF Types

\* A breadcrumb is added.
LEMMA AddCrumbTypes ==
  ASSUME Types, NEW e \in Events, AddCrumb(e)
  PROVE  CrumbTypes' /\ undefined' \in BOOLEAN
<1>1. Completed(e) \in Crumb
  BY CompletedType
<1>2. m_breadcrumbs' \in Seq(Crumb) /\ crumbLog' \in Seq(Crumb)
  BY <1>1, PushType, AppendProperties DEF AddCrumb, Types, CrumbTypes, ScopeTypes
<1>3. \A t \in Threads : walk[t] \in Seq(Crumb) /\ Append(walk[t], Completed(e)) \in Seq(Crumb)
  BY <1>1, AppendProperties DEF Types, CrumbTypes
<1>4. walk' \in [Threads -> Seq(Crumb)]
  BY <1>3 DEF AddCrumb, Met
<1>5. undefined' \in BOOLEAN
  BY DEF AddCrumb, Corrupts
<1> QED BY <1>2, <1>4, <1>5 DEF CrumbTypes

\* A call returns.
LEMMA ReturnTypes ==
  ASSUME Types, NEW t \in Threads, Return(t)
  PROVE  /\ pc' \in [Threads -> PC] /\ frame' \in [Threads -> Frame] /\ EventTypes'
  BY NoFrameType DEF Return, Types, CallTypes, EventTypes, Capturing, PC

\* The steps keep the types, one lemma for each kind.
LEMMA InitCallTypes ==
  ASSUME Types, NEW t \in Threads, NEW o \in Options, init(t, o)
  PROVE  Types'
<1>1. o \in Option
  BY OptionsAreOption
<1>2. FlagTypes'
  BY <1>1 DEF init, Types, FlagTypes, Started, Option
<1>3. ScopeTypes'
  <2>1. uint16(o.maxBreadcrumbs) \in uint16_t
    BY <1>1 DEF uint16, uint16_t, Option
  <2>2. m_maxBreadcrumbs' \in uint16_t
    BY <2>1 DEF init, Types, ScopeTypes
  <2> QED BY <2>2 DEF init, Types, ScopeTypes
<1>4. CrumbTypes' /\ LimitTypes'
  BY DEF init, Types, CrumbTypes, LimitTypes
<1>5. CallTypes'
  <2>1. pc \in [Threads -> PC] /\ frame \in [Threads -> Frame] /\ emitted' \in Seq(Payload)
    BY DEF init, Types, CallTypes
  <2>2. pc' \in [Threads -> PC]
    BY <2>1 DEF init, PC
  <2>3. frame' \in [Threads -> Frame]
    <3>1. [frame[t] EXCEPT !.options = o] \in Frame
      BY <1>1, <2>1 DEF Frame
    <3>2. frame' = frame \/ frame' = [frame EXCEPT ![t] = [frame[t] EXCEPT !.options = o]]
      BY <2>1 DEF init
    <3> QED BY <2>1, <3>1, <3>2
  <2> QED BY <2>1, <2>2, <2>3 DEF CallTypes
<1>6. EventTypes'
  <2>1. CASE o.goodDsn
    BY <2>1 DEF init, Types, EventTypes, Capturing, CallTypes, Idle, Frame
  <2>2. CASE ~o.goodDsn
    BY <2>2 DEF init, Types, EventTypes, Capturing
  <2> QED BY <2>1, <2>2
<1> QED BY <1>2, <1>3, <1>4, <1>5, <1>6 DEF Types

\* The release that init sets.
LEMMA InitReleaseTypes ==
  ASSUME Types, NEW t \in Threads, initRelease(t)
  PROVE  Types'
<1>1. frame[t].options.release \in Word
  BY DEF Types, CallTypes, Frame, Option
<1>2. ScopeTypes'
  BY <1>1 DEF initRelease, history, Types, ScopeTypes, Given, Release
<1>3. FlagTypes' /\ CrumbTypes' /\ LimitTypes'
  BY DEF initRelease, hubVars, history, Overwritten, Types, FlagTypes, CrumbTypes, LimitTypes
<1>4. CallTypes'
  BY DEF initRelease, history, Types, CallTypes, PC
<1>5. EventTypes'
  BY DEF initRelease, Types, CallTypes, EventTypes, Capturing
<1> QED BY <1>2, <1>3, <1>4, <1>5 DEF Types

\* The environment that init sets.
LEMMA InitEnvironmentTypes ==
  ASSUME Types, NEW t \in Threads, initEnvironment(t)
  PROVE  Types'
<1>1. frame[t].options.environment \in Value
  BY DEF Types, CallTypes, Frame, Option, Value
<1>2. setValueMap(m_tags, "environment", frame[t].options.environment) \in [Keys -> Value]
  BY <1>1, setValueMapType, HubAssumption DEF Types, ScopeTypes
<1>3. m_tags' \in [Keys -> Value]
  BY <1>2 DEF initEnvironment, Types, ScopeTypes
<1>4. FlagTypes' /\ ScopeTypes' /\ CrumbTypes' /\ LimitTypes'
  BY <1>3 DEF initEnvironment, hubVars, Overwritten, Types, FlagTypes, ScopeTypes, CrumbTypes,
              LimitTypes
<1>5. CallTypes' /\ EventTypes'
  BY ReturnTypes DEF initEnvironment, Types, CallTypes
<1> QED BY <1>4, <1>5 DEF Types

\* setTag, setExtra and setRelease.
LEMMA SettingTypes ==
  ASSUME Types, NEW t \in Threads,
         \/ \E k \in Keys, v \in Values : setTag(t, k, v) \/ setExtra(t, k, v)
         \/ \E v \in Releases : setRelease(t, v)
  PROVE  Types'
<1>1. ScopeTypes'
  <2>1. CASE \E k \in Keys, v \in Values : setTag(t, k, v)
    <3>1. PICK k \in Keys, v \in Values : setTag(t, k, v)
      BY <2>1
    <3>2. setValueMap(m_tags, k, v) \in [Keys -> Value]
      BY setValueMapType DEF Types, ScopeTypes, Value
    <3> QED BY <3>1, <3>2 DEF setTag, Types, ScopeTypes
  <2>2. CASE \E k \in Keys, v \in Values : setExtra(t, k, v)
    <3>1. PICK k \in Keys, v \in Values : setExtra(t, k, v)
      BY <2>2
    <3>2. setValueMap(m_extras, k, v) \in [Keys -> Value]
      BY setValueMapType DEF Types, ScopeTypes, Value
    <3> QED BY <3>1, <3>2 DEF setExtra, history, Types, ScopeTypes
  <2>3. CASE \E v \in Releases : setRelease(t, v)
    BY <2>3 DEF setRelease, history, Types, ScopeTypes, Release
  <2> QED BY <2>1, <2>2, <2>3
<1>2. UNCHANGED <<hubVars, m_breadcrumbs, walk, m_lastEventId, listed, pc, frame, ids,
                  crumbLog, emitted>> /\ undefined' \in BOOLEAN
  BY DEF setTag, setExtra, setRelease, history, Overwritten
<1>3. FlagTypes' /\ CrumbTypes' /\ LimitTypes' /\ CallTypes'
  BY <1>2 DEF hubVars, Types, FlagTypes, CrumbTypes, LimitTypes, CallTypes
<1>4. EventTypes'
  BY <1>2 DEF Types, EventTypes, Capturing
<1> QED BY <1>1, <1>3, <1>4 DEF Types

\* addBreadcrumb, and log below LEVEL_ERROR.
LEMMA AddBreadcrumbTypes ==
  ASSUME Types, NEW t \in Threads, NEW e \in Events,
         addBreadcrumb(t, e) \/ logBreadcrumb(t, e)
  PROVE  Types'
<1>1. /\ AddCrumb(e)
      /\ UNCHANGED <<hubVars, m_maxBreadcrumbs, m_tags, m_extras, m_release,
                     m_lastEventId, listed, pc, frame, ids, emitted, limits>>
  BY DEF addBreadcrumb, logBreadcrumb
<1>2. CrumbTypes' /\ undefined' \in BOOLEAN
  BY <1>1, AddCrumbTypes
<1>3. FlagTypes' /\ ScopeTypes' /\ LimitTypes' /\ CallTypes'
  BY <1>1, <1>2 DEF hubVars, Types, FlagTypes, ScopeTypes, LimitTypes, CallTypes
<1>4. EventTypes'
  BY <1>1 DEF Types, EventTypes, Capturing
<1> QED BY <1>2, <1>3, <1>4 DEF Types

\* What captureEvent leaves in its frame.
LEMMA CaptureFrame ==
  ASSUME Types, NEW t \in Threads, NEW e \in Events, captureEvent(t, e)
  PROVE  /\ frame'[t] \in Frame /\ frame'[t].event = e
         /\ frame'[t].payload.breadcrumbs = <<>> /\ frame'[t].began = Len(crumbLog)
         /\ frame'[t].early = \E u \in Threads : pc[u] \in {"release", "environment"}
         /\ \A u \in Threads \ {t} : frame'[u] = frame[u]
         /\ pc'[t] = IF e.message # "" THEN "limit" ELSE "breadcrumbs"
         /\ \A u \in Threads \ {t} : pc'[u] = pc[u]
<1> DEFINE early == \E u \in Threads : pc[u] \in {"release", "environment"}
<1> DEFINE f == [NoFrame EXCEPT !.event = e, !.payload.event_id = ids + 1,
                                !.began = Len(crumbLog), !.early = early]
<1>1. frame \in [Threads -> Frame] /\ pc \in [Threads -> PC] /\ ids + 1 \in Nat
  BY DEF Types, CallTypes, LimitTypes
<1>2. frame' = [frame EXCEPT ![t] = f]
  BY DEF captureEvent
<1>3. Len(crumbLog) \in Nat
  BY LenProperties DEF Types, CrumbTypes
<1>4. e \in Text
  BY EventIsText
<1>5. early \in BOOLEAN
  OBVIOUS
<1>6. /\ f \in Frame /\ f.event = e /\ f.payload.breadcrumbs = <<>>
      /\ f.began = Len(crumbLog) /\ f.early = early
  <2> HIDE DEF early
  <2> QED BY <1>1, <1>3, <1>4, <1>5, NoFrameType DEF Frame, Payload
<1>7. frame'[t] = f /\ \A u \in Threads \ {t} : frame'[u] = frame[u]
  BY <1>1, <1>2
<1>8. /\ pc'[t] = IF e.message # "" THEN "limit" ELSE "breadcrumbs"
      /\ \A u \in Threads \ {t} : pc'[u] = pc[u]
  BY <1>1 DEF captureEvent
<1> QED BY <1>6, <1>7, <1>8

\* The beginning of captureEvent.
LEMMA CaptureEventTypes ==
  ASSUME Types, NEW t \in Threads, NEW e \in Events, captureEvent(t, e)
  PROVE  Types'
<1>1. FlagTypes' /\ ScopeTypes' /\ CrumbTypes'
  BY DEF captureEvent, hubVars, scopeVars, Types, FlagTypes, ScopeTypes, CrumbTypes
<1>2. LimitTypes'
  <2>1. ids \in Nat /\ ids' = ids + 1 /\ m_lastEventId' = ids + 1 /\ listed' = listed
    BY DEF captureEvent, Types, LimitTypes
  <2> QED BY <2>1 DEF Types, LimitTypes
<1>3. pc' \in [Threads -> PC] /\ emitted' \in Seq(Payload)
  BY DEF captureEvent, Types, CallTypes, PC
<1>4. frame' \in [Threads -> Frame]
  <2>1. frame'[t] \in Frame
    BY CaptureFrame
  <2>2. frame \in [Threads -> Frame] /\ frame' = [frame EXCEPT ![t] = frame'[t]]
    BY DEF captureEvent, Types, CallTypes
  <2> QED BY <2>1, <2>2
<1>5. EventTypes'
  <2>1. e.message # "" => e.message \in Messages
    BY DEF Messages
  <2>2. frame'[t].event = e /\ pc'[t] = IF e.message # "" THEN "limit" ELSE "breadcrumbs"
    BY CaptureFrame
  <2>3. \A u \in Threads \ {t} : frame'[u] = frame[u] /\ pc'[u] = pc[u]
    BY CaptureFrame
  <2>4. SUFFICES ASSUME NEW u \in Threads
        PROVE  /\ Capturing(u)' => frame'[u].event \in Events
               /\ pc'[u] = "limit" => frame'[u].event.message \in Messages
    BY DEF EventTypes
  <2>5. CASE u = t
    BY <2>1, <2>2, <2>5
  <2>6. CASE u # t
    BY <2>3, <2>6 DEF Types, EventTypes, Capturing
  <2> QED BY <2>5, <2>6
<1> QED BY <1>1, <1>2, <1>3, <1>4, <1>5 DEF Types, CallTypes

\* checkIfEventTooOften keeps the number listed within the limit.
LEMMA CheckTypes ==
  ASSUME Types, NEW t \in Threads, checkIfEventTooOften(t)
  PROVE  Types'
<1> DEFINE m == frame[t].event.message
<1>1. m \in Messages /\ Capturing(t) /\ frame[t].event \in Events
  BY DEF checkIfEventTooOften, Types, EventTypes, Capturing
<1>2. PICK old \in SUBSET Messages :
        LET left == [n \in Messages |-> IF n \in old THEN 0 ELSE listed[n]]
        IN  IF left[m] >= MaxEventsPerInterval
            THEN listed' = left /\ Return(t)
            ELSE /\ listed' = [left EXCEPT ![m] = @ + 1]
                 /\ pc' = [pc EXCEPT ![t] = "breadcrumbs"]
                 /\ UNCHANGED frame
  BY DEF checkIfEventTooOften
<1> DEFINE left == [n \in Messages |-> IF n \in old THEN 0 ELSE listed[n]]
<1>3. left \in [Messages -> 0..MaxEventsPerInterval]
  BY HubAssumption DEF Types, LimitTypes
<1>4. FlagTypes' /\ ScopeTypes' /\ CrumbTypes' /\ emitted' \in Seq(Payload)
  BY DEF checkIfEventTooOften, hubVars, scopeVars, Types, FlagTypes, ScopeTypes, CrumbTypes,
         CallTypes
<1>5. ids' \in Nat /\ m_lastEventId' \in 0..ids'
  BY DEF checkIfEventTooOften, Types, LimitTypes
<1>6. CASE left[m] >= MaxEventsPerInterval
  <2>1. listed' = left /\ Return(t)
    BY <1>2, <1>6
  <2>2. CallTypes' /\ EventTypes'
    BY <1>4, <2>1, ReturnTypes DEF CallTypes
  <2>3. LimitTypes'
    BY <1>3, <1>5, <2>1 DEF LimitTypes
  <2> QED BY <1>4, <2>2, <2>3 DEF Types
<1>7. CASE ~(left[m] >= MaxEventsPerInterval)
  <2> HIDE DEF left, m
  <2>1. /\ listed' = [left EXCEPT ![m] = @ + 1] /\ pc' = [pc EXCEPT ![t] = "breadcrumbs"]
        /\ frame' = frame
    BY <1>2, <1>7 DEF left, m
  <2>2. left[m] + 1 \in 0..MaxEventsPerInterval
    BY <1>1, <1>3, <1>7, HubAssumption
  <2>3. listed' \in [Messages -> 0..MaxEventsPerInterval]
    BY <1>1, <1>3, <2>1, <2>2
  <2>4. CallTypes'
    BY <1>4, <2>1 DEF Types, CallTypes, PC
  <2>5. EventTypes'
    BY <1>1, <2>1 DEF Types, EventTypes, CallTypes, Capturing
  <2> QED BY <1>4, <1>5, <2>3, <2>4, <2>5 DEF Types, LimitTypes
<1> QED BY <1>6, <1>7

\* checkIfEventTooOften drops the event or goes on with it.
LEMMA CheckSteps ==
  ASSUME Types, NEW t \in Threads, checkIfEventTooOften(t)
  PROVE  Return(t) \/ (pc'[t] = "breadcrumbs" /\ frame' = frame)
<1>1. PICK old \in SUBSET Messages :
        LET left == [n \in Messages |-> IF n \in old THEN 0 ELSE listed[n]]
        IN  IF left[frame[t].event.message] >= MaxEventsPerInterval
            THEN listed' = left /\ Return(t)
            ELSE /\ listed' = [left EXCEPT ![frame[t].event.message] = @ + 1]
                 /\ pc' = [pc EXCEPT ![t] = "breadcrumbs"]
                 /\ UNCHANGED frame
  BY DEF checkIfEventTooOften
<1> DEFINE left == [n \in Messages |-> IF n \in old THEN 0 ELSE listed[n]]
<1>2. Return(t) \/ (pc' = [pc EXCEPT ![t] = "breadcrumbs"] /\ UNCHANGED frame)
  <2>1. CASE left[frame[t].event.message] >= MaxEventsPerInterval
    BY <1>1, <2>1
  <2>2. CASE ~(left[frame[t].event.message] >= MaxEventsPerInterval)
    BY <1>1, <2>2
  <2> QED BY <2>1, <2>2
<1> QED BY <1>2 DEF Types, CallTypes

\* applyBreadcrumbs and applyToEvent write the payload of their frame only.
LEMMA PayloadFrame ==
  ASSUME frame \in [Threads -> Frame], NEW t \in Threads, NEW p \in Payload,
         frame' = [frame EXCEPT ![t].payload = p]
  PROVE  /\ frame' \in [Threads -> Frame]
         /\ frame'[t].payload = p
         /\ \A u \in Threads : /\ frame'[u].event = frame[u].event
                               /\ frame'[u].options = frame[u].options
                               /\ frame'[u].began = frame[u].began
                               /\ frame'[u].early = frame[u].early
         /\ \A u \in Threads \ {t} : frame'[u] = frame[u]
<1>1. [frame[t] EXCEPT !.payload = p] \in Frame
  BY DEF Frame
<1>2. frame' = [frame EXCEPT ![t] = [frame[t] EXCEPT !.payload = p]]
  OBVIOUS
<1>3. \A u \in Threads \ {t} : frame'[u] = frame[u]
  BY <1>2
<1>4. frame'[t] = [frame[t] EXCEPT !.payload = p]
  BY <1>2
<1>5. /\ frame'[t].payload = p /\ frame'[t].event = frame[t].event
      /\ frame'[t].options = frame[t].options /\ frame'[t].began = frame[t].began
      /\ frame'[t].early = frame[t].early
  BY <1>4 DEF Frame
<1> QED BY <1>1, <1>2, <1>3, <1>5

\* The payload that applyBreadcrumbs writes.
LEMMA CopiedPayload ==
  ASSUME Types, NEW t \in Threads, applyBreadcrumbs(t)
  PROVE  \E p \in Payload : /\ frame' = [frame EXCEPT ![t].payload = p]
                            /\ p = [frame[t].payload EXCEPT !.breadcrumbs = walk[t]]
                            /\ p.breadcrumbs = walk[t]
                            /\ p.event_id = frame[t].payload.event_id
<1>1. frame[t].payload \in Payload /\ walk[t] \in Seq(Crumb)
  BY DEF Types, CallTypes, CrumbTypes, Frame
<1> DEFINE p == [frame[t].payload EXCEPT !.breadcrumbs = walk[t]]
<1>2. p \in Payload /\ p.breadcrumbs = walk[t] /\ p.event_id = frame[t].payload.event_id
  BY <1>1 DEF Payload
<1>3. frame' = [frame EXCEPT ![t].payload = p]
  BY DEF applyBreadcrumbs
<1> QED BY <1>2, <1>3

\* The payload that applyToEvent writes.
LEMMA AppliedPayload ==
  ASSUME Types, NEW t \in Threads, applyToEvent(t)
  PROVE  \E p \in Payload :
           /\ frame' = [frame EXCEPT ![t].payload = p]
           /\ p.breadcrumbs = frame[t].payload.breadcrumbs
           /\ p.event_id = frame[t].payload.event_id
           /\ p.message = frame[t].event.message
           /\ p.level = IF frame[t].event.level = "" THEN "info" ELSE frame[t].event.level
           /\ p.tags = m_tags /\ p.release = m_release
<1>1. frame[t].payload \in Payload /\ frame[t].event \in Text
  BY DEF Types, CallTypes, Frame
<1> DEFINE e == frame[t].event
<1> DEFINE level == IF e.level = "" THEN "info" ELSE e.level
<1> DEFINE p == [frame[t].payload EXCEPT !.message = e.message, !.level = level,
                   !.tags = m_tags, !.extra = m_extras, !.release = m_release]
<1>2. level \in Word /\ e.message \in Word
  BY <1>1 DEF Text, Word
<1>3. m_tags \in [Keys -> Value] /\ m_extras \in [Keys -> Value] /\ m_release \in Release
  BY DEF Types, ScopeTypes
<1>4. frame' = [frame EXCEPT ![t].payload = p]
  BY DEF applyToEvent, InsertField, getLevelStr
<1>5. /\ p \in Payload /\ p.breadcrumbs = frame[t].payload.breadcrumbs
      /\ p.event_id = frame[t].payload.event_id
      /\ p.message = e.message /\ p.level = level /\ p.tags = m_tags /\ p.release = m_release
  <2> HIDE DEF level, e
  <2> QED BY <1>1, <1>2, <1>3 DEF Payload
<1> QED BY <1>4, <1>5

\* applyToEvent, with the copy of the breadcrumbs.
LEMMA ApplyTypes ==
  ASSUME Types, NEW t \in Threads,
         \/ beginBreadcrumbs(t) \/ countBreadcrumbs(t) \/ applyBreadcrumbs(t)
         \/ applyToEvent(t)
  PROVE  Types'
<1>1. UNCHANGED <<hubVars, undefined, scopeVars, m_lastEventId, listed, history>>
  BY DEF beginBreadcrumbs, countBreadcrumbs, applyBreadcrumbs, applyToEvent
<1>2. FlagTypes' /\ ScopeTypes' /\ LimitTypes'
  BY <1>1 DEF hubVars, scopeVars, history, Types, FlagTypes, ScopeTypes, LimitTypes
<1>3. CrumbTypes'
  <2>1. walk \in [Threads -> Seq(Crumb)] /\ m_breadcrumbs \in Seq(Crumb) /\ <<>> \in Seq(Crumb)
    BY DEF Types, CrumbTypes
  <2>2. walk' \in [Threads -> Seq(Crumb)]
    BY <2>1 DEF beginBreadcrumbs, countBreadcrumbs, applyBreadcrumbs, applyToEvent
  <2> QED BY <1>1, <2>2 DEF scopeVars, history, Types, CrumbTypes
<1>4. /\ frame' \in [Threads -> Frame]
      /\ \A u \in Threads : frame'[u].event = frame[u].event
  <2>1. frame \in [Threads -> Frame]
    BY DEF Types, CallTypes
  <2>2. CASE beginBreadcrumbs(t) \/ countBreadcrumbs(t)
    BY <2>1, <2>2 DEF beginBreadcrumbs, countBreadcrumbs
  <2>3. CASE applyBreadcrumbs(t)
    BY <2>1, <2>3, CopiedPayload, PayloadFrame
  <2>4. CASE applyToEvent(t)
    BY <2>1, <2>4, AppliedPayload, PayloadFrame
  <2> QED BY <2>2, <2>3, <2>4
<1>5. /\ pc \in [Threads -> PC] /\ pc' \in [Threads -> PC]
      /\ Capturing(t) /\ pc'[t] # "limit"
      /\ \A u \in Threads \ {t} : pc'[u] = pc[u]
  BY DEF beginBreadcrumbs, countBreadcrumbs, applyBreadcrumbs, applyToEvent, Types, CallTypes,
         PC, Capturing
<1>6. EventTypes'
  BY <1>4, <1>5 DEF Types, EventTypes, Capturing
<1> QED BY <1>1, <1>2, <1>3, <1>4, <1>5, <1>6 DEF Types, CallTypes, history

\* The call of Transport::sendEvent.
LEMMA SendTypes ==
  ASSUME Types, NEW t \in Threads, sendEvent(t)
  PROVE  Types'
<1>1. FlagTypes' /\ ScopeTypes' /\ CrumbTypes' /\ LimitTypes'
  BY DEF sendEvent, hubVars, scopeVars, Types, FlagTypes, ScopeTypes, CrumbTypes, LimitTypes
<1>2. pc' \in [Threads -> PC] /\ frame' \in [Threads -> Frame]
  BY DEF sendEvent, Types, CallTypes, PC
<1>3. emitted' \in Seq(Payload)
  <2>1. frame[t].payload \in Payload /\ emitted \in Seq(Payload)
    BY DEF Types, CallTypes, Frame
  <2>2. Append(emitted, frame[t].payload) \in Seq(Payload)
    BY <2>1, AppendProperties
  <2> QED BY <2>1, <2>2 DEF sendEvent
<1>4. EventTypes'
  BY DEF sendEvent, Types, EventTypes, CallTypes, Capturing
<1> QED BY <1>1, <1>2, <1>3, <1>4 DEF Types, CallTypes

\* The breadcrumb that ends captureEvent.
LEMMA FinishTypes ==
  ASSUME Types, NEW t \in Threads, finishCapture(t)
  PROVE  Types'
<1>1. frame[t].event \in Events
  BY DEF finishCapture, Types, EventTypes, Capturing
<1>2. CrumbTypes' /\ undefined' \in BOOLEAN
  BY <1>1, AddCrumbTypes DEF finishCapture
<1>3. FlagTypes' /\ ScopeTypes' /\ LimitTypes' /\ emitted' \in Seq(Payload)
  BY <1>2 DEF finishCapture, hubVars, Types, FlagTypes, ScopeTypes, LimitTypes, CallTypes
<1>4. CallTypes' /\ EventTypes'
  BY <1>3, ReturnTypes DEF finishCapture, CallTypes
<1> QED BY <1>2, <1>3, <1>4 DEF Types

\* Next, by the lemmas above.
Kinds(t) ==
  \/ \E o \in Options : init(t, o)
  \/ initRelease(t)
  \/ initEnvironment(t)
  \/ \/ \E k \in Keys, v \in Values : setTag(t, k, v) \/ setExtra(t, k, v)
     \/ \E v \in Releases : setRelease(t, v)
  \/ \E e \in Events : addBreadcrumb(t, e) \/ logBreadcrumb(t, e)
  \/ \E e \in Events : captureEvent(t, e)
  \/ checkIfEventTooOften(t)
  \/ beginBreadcrumbs(t) \/ countBreadcrumbs(t) \/ applyBreadcrumbs(t) \/ applyToEvent(t)
  \/ sendEvent(t)
  \/ finishCapture(t)

\* Every step is of one of the kinds.
LEMMA NextKinds == Next => \E t \in Threads : Kinds(t)
  BY Zenon DEF Next, Kinds, log, logEvent

\* Types is inductive.
LEMMA StepTypes == Types /\ [Next]_vars => Types'
<1> SUFFICES ASSUME Types, [Next]_vars PROVE Types'
  OBVIOUS
<1>1. CASE UNCHANGED vars
  <2>1. FlagTypes' /\ ScopeTypes' /\ CrumbTypes'
    BY <1>1 DEF vars, hubVars, scopeVars, history, Types, FlagTypes, ScopeTypes, CrumbTypes
  <2>2. CallTypes' /\ LimitTypes'
    BY <1>1 DEF vars, history, Types, CallTypes, LimitTypes
  <2>3. EventTypes'
    BY <1>1 DEF vars, Types, EventTypes, Capturing
  <2> QED BY <2>1, <2>2, <2>3 DEF Types
<1>2. CASE Next
  <2>1. PICK t \in Threads : Kinds(t)
    BY <1>2, NextKinds
  <2> QED BY <2>1, InitCallTypes, InitReleaseTypes, InitEnvironmentTypes, SettingTypes,
             AddBreadcrumbTypes, CaptureEventTypes, CheckTypes, ApplyTypes, SendTypes,
             FinishTypes DEF Kinds
<1> QED BY <1>1, <1>2

\* The variables of Hub and the frames of all calls keep their types.
THEOREM TypesHold == Spec => []Types
<1>1. Init => Types
  BY InitTypes
<1>2. Types /\ [Next]_vars => Types'
  BY StepTypes
<1> QED BY <1>1, <1>2, PTL DEF Spec

\* Every variable keeps its type, the count of a message in the list of last
\* events stays within the limit, and every breadcrumb is an event with a
\* level.
THEOREM TypeCorrect == Spec => []TypeOK
  BY TypesHold, TypesSuffice, PTL

-----------------------------------------------------------------------------
(***************************************************************************)
(* Suffixes.                                                               *)
(***************************************************************************)
\* The elements of a suffix.
LEMMA SuffixElements ==
  ASSUME NEW S, NEW s \in Seq(S), NEW full \in Seq(S)
  PROVE  IsSuffix(s, full) <=> /\ Len(s) <= Len(full)
                               /\ \A i \in 1..Len(s) : s[i] = full[Len(full) - Len(s) + i]
<1>1. CASE Len(s) <= Len(full)
  <2> DEFINE k == Len(full) - Len(s) + 1
  <2> DEFINE sub == SubSeq(full, k, Len(full))
  <2>1. k \in 1..Len(full)+1 /\ Len(full) \in k-1..Len(full)
    BY <1>1, LenProperties
  <2>2. /\ sub \in Seq(S) /\ Len(sub) = Len(s)
        /\ \A i \in 1..Len(s) : sub[i] = full[k + i - 1]
    BY <1>1, <2>1, LenProperties
  <2>3. \A i \in 1..Len(s) : k + i - 1 = Len(full) - Len(s) + i
    BY LenProperties
  <2>4. \A i \in 1..Len(s) : sub[i] = full[Len(full) - Len(s) + i]
    BY <2>2, <2>3
  <2>5. s = sub <=> \A i \in 1..Len(s) : s[i] = sub[i]
    <3> HIDE DEF sub
    <3> QED BY <2>2, SeqEqual
  <2> QED BY <1>1, <2>4, <2>5 DEF IsSuffix
<1>2. CASE ~(Len(s) <= Len(full))
  BY <1>2 DEF IsSuffix
<1> QED BY <1>1, <1>2

\* A suffix stays one when both grow by the same element.
LEMMA SuffixAppend ==
  ASSUME NEW S, NEW s \in Seq(S), NEW full \in Seq(S), NEW c \in S, IsSuffix(s, full)
  PROVE  IsSuffix(Append(s, c), Append(full, c))
<1>1. /\ Append(s, c) \in Seq(S) /\ Append(full, c) \in Seq(S)
      /\ Len(Append(s, c)) = Len(s) + 1 /\ Len(Append(full, c)) = Len(full) + 1
  BY AppendProperties
<1>2. Len(s) \in Nat /\ Len(full) \in Nat /\ Len(s) <= Len(full)
  BY LenProperties, SuffixElements
<1>3. \A i \in 1..Len(s) : s[i] = full[Len(full) - Len(s) + i]
  BY SuffixElements
<1>4. ASSUME NEW i \in 1..Len(s) + 1
      PROVE  Append(s, c)[i] = Append(full, c)[Len(full) + 1 - (Len(s) + 1) + i]
  <2>1. CASE i \in 1..Len(s)
    BY <1>2, <1>3, <2>1
  <2>2. CASE i = Len(s) + 1
    BY <1>2, <2>2
  <2> QED BY <1>2, <2>1, <2>2
<1> DEFINE more == Append(s, c)
<1> DEFINE longer == Append(full, c)
<1>5. /\ Len(more) <= Len(longer)
      /\ \A i \in 1..Len(more) : more[i] = longer[Len(longer) - Len(more) + i]
  BY <1>1, <1>2, <1>4
<1>6. more \in Seq(S) /\ longer \in Seq(S)
  BY <1>1
<1> HIDE DEF more, longer
<1>7. IsSuffix(more, longer)
  BY <1>5, <1>6, SuffixElements
<1> QED BY <1>7 DEF more, longer

\* A suffix without its first element is a suffix.
LEMMA SuffixTail ==
  ASSUME NEW S, NEW s \in Seq(S), NEW full \in Seq(S), s # <<>>, IsSuffix(s, full)
  PROVE  IsSuffix(Tail(s), full)
<1>1. Tail(s) \in Seq(S) /\ Len(Tail(s)) = Len(s) - 1
  BY HeadTailProperties
<1>2. Len(s) \in Nat /\ Len(full) \in Nat /\ Len(s) <= Len(full) /\ Len(s) # 0
  BY LenProperties, SuffixElements, EmptySeq
<1>3. \A i \in 1..Len(s) : s[i] = full[Len(full) - Len(s) + i]
  BY SuffixElements
<1>4. ASSUME NEW i \in 1..Len(s) - 1
      PROVE  Tail(s)[i] = full[Len(full) - (Len(s) - 1) + i]
  <2>1. Tail(s)[i] = s[i + 1] /\ i + 1 \in 1..Len(s)
    BY <1>2
  <2>2. Len(full) - (Len(s) - 1) + i = Len(full) - Len(s) + (i + 1)
    BY <1>2
  <2> QED BY <1>3, <2>1, <2>2
<1> DEFINE less == Tail(s)
<1>5. /\ Len(less) <= Len(full)
      /\ \A i \in 1..Len(less) : less[i] = full[Len(full) - Len(less) + i]
  BY <1>1, <1>2, <1>4
<1>6. less \in Seq(S)
  BY <1>1
<1> HIDE DEF less
<1>7. IsSuffix(less, full)
  BY <1>5, <1>6, SuffixElements
<1> QED BY <1>7 DEF less

\* addBreadcrumb adds one and removes at most one.
LEMMA PushLen ==
  ASSUME NEW S, NEW crumbs \in Seq(S), NEW c \in S, NEW max
  PROVE  /\ PushBreadcrumb(crumbs, c, max) \in Seq(S)
         /\ Len(PushBreadcrumb(crumbs, c, max)) =
              IF Len(crumbs) + 1 > max THEN Len(crumbs) ELSE Len(crumbs) + 1
<1>1. /\ Append(crumbs, c) \in Seq(S) /\ Append(crumbs, c) # <<>>
      /\ Len(Append(crumbs, c)) = Len(crumbs) + 1
  BY AppendProperties
<1>2. /\ Tail(Append(crumbs, c)) \in Seq(S)
      /\ Len(Tail(Append(crumbs, c))) = Len(Append(crumbs, c)) - 1
  BY <1>1, HeadTailProperties
<1>3. Len(crumbs) \in Nat /\ Len(crumbs) + 1 - 1 = Len(crumbs)
  BY LenProperties
<1> QED BY <1>1, <1>2, <1>3 DEF PushBreadcrumb

\* addBreadcrumb keeps the list a suffix of all that was added.
LEMMA PushSuffix ==
  ASSUME NEW S, NEW crumbs \in Seq(S), NEW full \in Seq(S), NEW c \in S, NEW max,
         IsSuffix(crumbs, full)
  PROVE  IsSuffix(PushBreadcrumb(crumbs, c, max), Append(full, c))
<1>1. /\ Append(crumbs, c) \in Seq(S) /\ Append(crumbs, c) # <<>>
      /\ Append(full, c) \in Seq(S)
  BY AppendProperties
<1>2. IsSuffix(Append(crumbs, c), Append(full, c))
  BY SuffixAppend
<1>3. IsSuffix(Tail(Append(crumbs, c)), Append(full, c))
  BY <1>1, <1>2, SuffixTail
<1> QED BY <1>2, <1>3 DEF PushBreadcrumb

\* The first elements of a sequence stay when one is appended.
LEMMA PrefixStays ==
  ASSUME NEW S, NEW full \in Seq(S), NEW c \in S, NEW n \in 0..Len(full)
  PROVE  SubSeq(Append(full, c), 1, n) = SubSeq(full, 1, n)
<1>1. /\ Append(full, c) \in Seq(S) /\ Len(Append(full, c)) = Len(full) + 1
      /\ \A i \in 1..Len(full) : Append(full, c)[i] = full[i]
  BY AppendProperties
<1>2. Len(full) \in Nat
  BY LenProperties
<1>3. /\ SubSeq(full, 1, n) \in Seq(S) /\ Len(SubSeq(full, 1, n)) = n
      /\ \A i \in 1..n : SubSeq(full, 1, n)[i] = full[i]
  BY <1>2
<1>4. /\ SubSeq(Append(full, c), 1, n) \in Seq(S) /\ Len(SubSeq(Append(full, c), 1, n)) = n
      /\ \A i \in 1..n : SubSeq(Append(full, c), 1, n)[i] = Append(full, c)[i]
  <2> DEFINE more == Append(full, c)
  <2> HIDE DEF more
  <2>1. more \in Seq(S) /\ n \in 0..Len(more)
    BY <1>1, <1>2 DEF more
  <2> QED BY <2>1 DEF more
<1>5. \A i \in 1..n : SubSeq(Append(full, c), 1, n)[i] = SubSeq(full, 1, n)[i]
  BY <1>1, <1>2, <1>3, <1>4
<1> QED BY <1>3, <1>4, <1>5, SeqEqual

\* The prefix of full length is the whole.
LEMMA WholePrefix ==
  ASSUME NEW S, NEW full \in Seq(S)
  PROVE  SubSeq(full, 1, Len(full)) = full
<1>1. Len(full) \in Nat
  BY LenProperties
<1>2. /\ SubSeq(full, 1, Len(full)) \in Seq(S) /\ Len(SubSeq(full, 1, Len(full))) = Len(full)
      /\ \A i \in 1..Len(full) : SubSeq(full, 1, Len(full))[i] = full[i]
  BY <1>1
<1> QED BY <1>2, SeqEqual

\* The empty list is a suffix of any.
LEMMA EmptySuffix ==
  ASSUME NEW S, NEW full \in Seq(S)
  PROVE  IsSuffix(<<>>, full)
<1>1. <<>> \in Seq(S) /\ Len(<<>>) = 0 /\ Len(full) \in Nat
  BY LenProperties, EmptySeq
<1>2. PICK s \in Seq(S) : s = <<>>
  BY <1>1
<1>3. Len(s) <= Len(full) /\ \A i \in 1..Len(s) : s[i] = full[Len(full) - Len(s) + i]
  BY <1>1, <1>2
<1>4. IsSuffix(s, full)
  BY <1>3, SuffixElements
<1> QED BY <1>2, <1>4

-----------------------------------------------------------------------------
(***************************************************************************)
(* The hub is initialised, with a client and with the current limit among  *)
(* those since, before anything is kept or any call is under way.          *)
(***************************************************************************)
InitialisedInv ==
  /\ m_initialised => m_pHttpClient /\ m_maxBreadcrumbs \in limits
  /\ ~m_initialised => crumbLog = <<>> /\ m_breadcrumbs = <<>> /\ limits = {}
  /\ \A t \in Threads : pc[t] # "idle" => m_initialised

\* A step that adds a breadcrumb.
Adding(t, e) ==
  /\ m_initialised /\ ~undefined
  /\ AddCrumb(e)
  /\ UNCHANGED <<hubVars, m_maxBreadcrumbs, m_tags, m_extras, m_release, limits, emitted, ids>>
  /\ \A u \in Threads \ {t} : pc'[u] = pc[u] /\ frame'[u] = frame[u]
  /\ \/ UNCHANGED <<pc, frame>>
     \/ pc[t] = "crumb" /\ e = frame[t].event /\ pc'[t] = "idle" /\ frame'[t] = NoFrame

\* The three operations that add a breadcrumb do so in the same way.
LEMMA AddingSteps ==
  ASSUME Types, InitialisedInv, NEW t \in Threads
  PROVE  /\ \A e \in Events : addBreadcrumb(t, e) \/ logBreadcrumb(t, e) => Adding(t, e)
         /\ finishCapture(t) => \E e \in Events : Adding(t, e)
<1>1. pc \in [Threads -> PC] /\ frame \in [Threads -> Frame]
  BY DEF Types, CallTypes
<1>2. ASSUME NEW e \in Events, addBreadcrumb(t, e) \/ logBreadcrumb(t, e) PROVE Adding(t, e)
  BY <1>2 DEF addBreadcrumb, logBreadcrumb, Adding, Ready, Idle
<1>3. ASSUME finishCapture(t) PROVE \E e \in Events : Adding(t, e)
  <2>1. frame[t].event \in Events /\ m_initialised
    BY <1>3 DEF finishCapture, Types, EventTypes, Capturing, InitialisedInv
  <2>2. Adding(t, frame[t].event)
    BY <1>1, <1>3, <2>1 DEF finishCapture, Adding, Return
  <2> QED BY <2>1, <2>2
<1> QED BY <1>2, <1>3

\* The other steps leave the breadcrumbs, and but for init the limits, alone.
Steady == UNCHANGED <<m_initialised, m_pHttpClient, m_maxBreadcrumbs, limits, m_breadcrumbs,
                      crumbLog>>

\* The steps of a call under way.
CallStep(t) ==
  \/ initRelease(t) \/ initEnvironment(t) \/ checkIfEventTooOften(t)
  \/ beginBreadcrumbs(t) \/ countBreadcrumbs(t) \/ applyBreadcrumbs(t) \/ applyToEvent(t)
  \/ sendEvent(t)

SettingStep(t) ==
  \/ \E k \in Keys, v \in Values : setTag(t, k, v) \/ setExtra(t, k, v)
  \/ \E v \in Releases : setRelease(t, v)

\* The steps that add none leave the breadcrumbs and the hub alone.
LEMMA SteadySteps ==
  ASSUME Types, NEW t \in Threads,
         CallStep(t) \/ SettingStep(t) \/ \E e \in Events : captureEvent(t, e)
  PROVE  /\ Steady /\ ~undefined
         /\ CallStep(t) \/ m_initialised
         /\ CallStep(t) => pc[t] # "idle"
         /\ \A u \in Threads \ {t} : pc'[u] = pc[u] /\ frame'[u] = frame[u]
<1>1. pc \in [Threads -> PC] /\ frame \in [Threads -> Frame]
  BY DEF Types, CallTypes
<1>2. CASE initRelease(t)
  BY <1>1, <1>2 DEF CallStep, initRelease, hubVars, history, Steady
<1>3. CASE initEnvironment(t)
  BY <1>1, <1>3 DEF CallStep, initEnvironment, hubVars, Return, Steady
<1>4. CASE checkIfEventTooOften(t)
  <2>1. \A u \in Threads \ {t} : pc'[u] = pc[u] /\ frame'[u] = frame[u]
    BY <1>1, <1>4 DEF checkIfEventTooOften, Return
  <2> QED BY <1>4, <2>1 DEF CallStep, checkIfEventTooOften, hubVars, scopeVars, Steady
<1>5. CASE beginBreadcrumbs(t) \/ countBreadcrumbs(t)
  BY <1>1, <1>5 DEF CallStep, beginBreadcrumbs, countBreadcrumbs, hubVars, scopeVars, history,
                    Steady
<1>6. CASE applyBreadcrumbs(t)
  BY <1>1, <1>6 DEF CallStep, applyBreadcrumbs, hubVars, scopeVars, history, Steady
<1>7. CASE applyToEvent(t)
  <2>1. \A u \in Threads \ {t} : pc'[u] = pc[u] /\ frame'[u] = frame[u]
    BY <1>1, <1>7 DEF applyToEvent
  <2> QED BY <1>7, <2>1 DEF CallStep, applyToEvent, hubVars, scopeVars, history, Steady
<1>8. CASE sendEvent(t)
  BY <1>1, <1>8 DEF CallStep, sendEvent, hubVars, scopeVars, Steady
<1>9. CASE SettingStep(t)
  <2>1. UNCHANGED <<pc, frame>> /\ m_initialised /\ pc[t] = "idle" /\ ~undefined
    BY <1>9 DEF SettingStep, setTag, setExtra, setRelease, Ready, Idle
  <2>2. Steady
    BY <1>9 DEF SettingStep, setTag, setExtra, setRelease, hubVars, history, Steady
  <2>3. ~CallStep(t)
    BY <2>1 DEF CallStep, initRelease, initEnvironment, checkIfEventTooOften,
                beginBreadcrumbs, countBreadcrumbs, applyBreadcrumbs, applyToEvent, sendEvent
  <2> QED BY <2>1, <2>2, <2>3
<1>10. CASE \E e \in Events : captureEvent(t, e)
  <2>1. PICK e \in Events : captureEvent(t, e)
    BY <1>10
  <2>2. \A u \in Threads \ {t} : pc'[u] = pc[u] /\ frame'[u] = frame[u]
    BY <2>1, CaptureFrame
  <2>3. Steady /\ m_initialised /\ pc[t] = "idle" /\ ~undefined
    BY <2>1 DEF captureEvent, hubVars, scopeVars, Steady, Ready, Idle
  <2>4. ~CallStep(t)
    BY <2>3 DEF CallStep, initRelease, initEnvironment, checkIfEventTooOften,
                beginBreadcrumbs, countBreadcrumbs, applyBreadcrumbs, applyToEvent, sendEvent
  <2> QED BY <2>2, <2>3, <2>4
<1> QED BY <1>2, <1>3, <1>4, <1>5, <1>6, <1>7, <1>8, <1>9, <1>10 DEF CallStep

\* Every step is one of four kinds.
LEMMA StepKinds ==
  ASSUME Types, InitialisedInv, Next
  PROVE  \E t \in Threads :
           \/ \E o \in Options : init(t, o)
           \/ \E e \in Events : Adding(t, e)
           \/ CallStep(t)
           \/ SettingStep(t)
           \/ \E e \in Events : captureEvent(t, e)
  BY NextKinds, AddingSteps, Zenon DEF Kinds, CallStep, SettingStep

\* What init does to the flags and to the limits.
LEMMA InitFlags ==
  ASSUME Types, NEW t \in Threads, NEW o \in Options, init(t, o)
  PROVE  /\ m_initialised' <=> m_initialised \/ o.goodDsn
         /\ m_pHttpClient' <=> m_pHttpClient \/ o.goodDsn
         /\ limits' = IF m_initialised' THEN limits \cup {m_maxBreadcrumbs'} ELSE limits
         /\ UNCHANGED <<m_breadcrumbs, crumbLog, walk, m_tags, m_extras, m_release, emitted>>
         /\ \A u \in Threads \ {t} : pc'[u] = pc[u] /\ frame'[u] = frame[u]
         /\ pc[t] = "idle" /\ ~undefined
         /\ o.goodDsn => pc'[t] = "release" /\ frame'[t] = [frame[t] EXCEPT !.options = o]
         /\ ~o.goodDsn => UNCHANGED <<pc, frame>>
<1>1. pc \in [Threads -> PC] /\ frame \in [Threads -> Frame]
  BY DEF Types, CallTypes
<1>2. m_initialised' = (m_initialised \/ o.goodDsn) /\ m_pHttpClient' = (m_pHttpClient \/ o.goodDsn)
  BY DEF init, Started
<1>3. m_initialised' <=> m_initialised \/ o.goodDsn
  BY <1>2, Zenon
<1>4. m_pHttpClient' <=> m_pHttpClient \/ o.goodDsn
  BY <1>2, Zenon
<1>5. /\ limits' = IF m_initialised' THEN limits \cup {m_maxBreadcrumbs'} ELSE limits
      /\ UNCHANGED <<m_breadcrumbs, crumbLog, walk, m_tags, m_extras, m_release, emitted>>
      /\ pc[t] = "idle" /\ ~undefined
  BY DEF init, Idle
<1>6. /\ o.goodDsn => /\ pc' = [pc EXCEPT ![t] = "release"]
                      /\ frame' = [frame EXCEPT ![t] = [frame[t] EXCEPT !.options = o]]
      /\ ~o.goodDsn => UNCHANGED <<pc, frame>>
  BY <1>1 DEF init
<1>7. \A u \in Threads \ {t} : pc'[u] = pc[u] /\ frame'[u] = frame[u]
  BY <1>1, <1>6
<1>8. o.goodDsn => pc'[t] = "release" /\ frame'[t] = [frame[t] EXCEPT !.options = o]
  BY <1>1, <1>6
<1> QED BY <1>3, <1>4, <1>5, <1>6, <1>7, <1>8

\* Init satisfies it, as nothing is there yet.
LEMMA InitialisedInit == Init => InitialisedInv
<1> SUFFICES ASSUME Init PROVE InitialisedInv
  OBVIOUS
<1>1. ~m_initialised /\ crumbLog = <<>> /\ m_breadcrumbs = <<>> /\ limits = {}
  BY DEF Init
<1>2. \A t \in Threads : pc[t] = "idle"
  BY DEF Init
<1> QED BY <1>1, <1>2, Zenon DEF InitialisedInv

\* InitialisedInv is inductive: only init sets what it speaks of.
LEMMA InitialisedStep == Types /\ InitialisedInv /\ [Next]_vars => InitialisedInv'
<1> SUFFICES ASSUME Types, InitialisedInv, [Next]_vars PROVE InitialisedInv'
  OBVIOUS
<1>1. CASE UNCHANGED vars
  BY <1>1 DEF vars, hubVars, scopeVars, history, InitialisedInv
<1>2. CASE Next
  <2>1. PICK t \in Threads : \/ \E o \in Options : init(t, o)
                             \/ \E e \in Events : Adding(t, e)
                             \/ CallStep(t)
                             \/ SettingStep(t)
                             \/ \E e \in Events : captureEvent(t, e)
    BY <1>2, StepKinds
  <2>2. CASE \E o \in Options : init(t, o)
    <3>1. PICK o \in Options : init(t, o)
      BY <2>2
    <3>2. m_initialised' => m_pHttpClient' /\ m_maxBreadcrumbs' \in limits'
      BY <3>1, InitFlags DEF InitialisedInv
    <3>3. ~m_initialised' => crumbLog' = <<>> /\ m_breadcrumbs' = <<>> /\ limits' = {}
      BY <3>1, InitFlags DEF InitialisedInv
    <3>4. \A u \in Threads : pc'[u] # "idle" => m_initialised'
      BY <3>1, InitFlags DEF InitialisedInv
    <3> QED BY <3>2, <3>3, <3>4 DEF InitialisedInv
  <2>3. CASE \E e \in Events : Adding(t, e)
    BY <2>3 DEF Adding, hubVars, InitialisedInv
  <2>4. CASE CallStep(t) \/ SettingStep(t) \/ \E e \in Events : captureEvent(t, e)
    <3>1. Steady /\ m_initialised
      BY <2>4, SteadySteps DEF InitialisedInv
    <3> QED BY <3>1 DEF Steady, InitialisedInv
  <2> QED BY <2>1, <2>2, <2>3, <2>4
<1> QED BY <1>1, <1>2

\* captureEvent never finds m_pHttpClient null when it sends, whichever calls
\* of init, with a DSN that parses or not, ran before or run meanwhile.
THEOREM ClientIsThere == Spec => []SendHasClient
<1>1. Init => InitialisedInv
  BY InitialisedInit
<1>2. Types /\ InitialisedInv /\ [Next]_vars => InitialisedInv'
  BY InitialisedStep
<1>3. InitialisedInv => SendHasClient
  BY DEF InitialisedInv, SendHasClient
<1> QED BY <1>1, <1>2, <1>3, TypesHold, PTL DEF Spec

-----------------------------------------------------------------------------
(***************************************************************************)
(* The breadcrumbs that are kept.                                          *)
(***************************************************************************)
LEMMA LatestInit == Init => LatestBreadcrumbs
<1> SUFFICES ASSUME Init PROVE LatestBreadcrumbs
  OBVIOUS
<1>1. crumbLog = <<>> /\ m_breadcrumbs = <<>>
  BY DEF Init
<1>2. IsSuffix(<<>>, <<>>)
  <2>1. <<>> \in Seq(Crumb)
    OBVIOUS
  <2> QED BY <2>1, EmptySuffix
<1> QED BY <1>1, <1>2 DEF LatestBreadcrumbs, Latest

\* An addition keeps the list within the limits there have been.
LEMMA LatestAdd ==
  ASSUME Types, InitialisedInv, LatestBreadcrumbs, NEW t \in Threads, NEW e \in Events,
         Adding(t, e)
  PROVE  LatestBreadcrumbs'
<1> DEFINE c == Completed(e)
<1>1. c \in Crumb /\ m_breadcrumbs \in Seq(Crumb) /\ crumbLog \in Seq(Crumb)
  BY CompletedType DEF Types, CrumbTypes
<1>2. /\ m_breadcrumbs' = PushBreadcrumb(m_breadcrumbs, c, m_maxBreadcrumbs)
      /\ crumbLog' = Append(crumbLog, c) /\ limits' = limits
  BY DEF Adding, AddCrumb
<1> HIDE DEF c
<1>3. m_maxBreadcrumbs \in limits /\ limits \subseteq Nat
  BY DEF Adding, InitialisedInv, Types, ScopeTypes, uint16_t
<1>4. IsSuffix(m_breadcrumbs', crumbLog')
  BY <1>1, <1>2, PushSuffix DEF LatestBreadcrumbs, Latest
<1>5. PICK k \in Nat : k = Len(m_breadcrumbs)
  BY <1>1, LenProperties
<1>6. PICK n \in Nat : n = Len(crumbLog)
  BY <1>1, LenProperties
<1>7. /\ Len(crumbLog') = n + 1 /\ m_breadcrumbs' \in Seq(Crumb)
      /\ Len(m_breadcrumbs') = IF k + 1 > m_maxBreadcrumbs THEN k ELSE k + 1
  BY <1>1, <1>2, <1>5, <1>6, PushLen, AppendProperties
<1>8. \A i \in 0..n : (\A l \in limits : i <= l) => i <= k
  BY <1>5, <1>6 DEF LatestBreadcrumbs, Latest
<1>9. ASSUME NEW i \in 0..n + 1, \A l \in limits : i <= l
      PROVE  i <= IF k + 1 > m_maxBreadcrumbs THEN k ELSE k + 1
  <2>1. CASE k + 1 > m_maxBreadcrumbs
    BY <1>3, <1>9, <2>1
  <2>2. CASE ~(k + 1 > m_maxBreadcrumbs) /\ i > 0
    <3>1. i - 1 \in 0..n /\ \A l \in limits : i - 1 <= l
      BY <1>3, <1>9, <2>2
    <3>2. i - 1 <= k
      BY <1>8, <3>1
    <3> QED BY <2>2, <3>2
  <2>3. CASE i = 0
    BY <2>3
  <2> QED BY <2>1, <2>2, <2>3
<1>10. m_breadcrumbs' # <<>> => \E l \in limits : Len(m_breadcrumbs') <= l
  <2>1. CASE k + 1 > m_maxBreadcrumbs
    <3>1. m_breadcrumbs' # <<>> => m_breadcrumbs # <<>>
      BY <1>1, <1>5, <1>7, <2>1, EmptySeq
    <3>2. Len(m_breadcrumbs') = Len(m_breadcrumbs)
      BY <1>5, <1>7, <2>1
    <3> QED BY <3>1, <3>2 DEF LatestBreadcrumbs, Latest
  <2>2. CASE ~(k + 1 > m_maxBreadcrumbs)
    BY <1>3, <1>7, <2>2
  <2> QED BY <2>1, <2>2
<1>11. \A i \in 0..Len(crumbLog') :
         (\A l \in limits' : i <= l) => i <= Len(m_breadcrumbs')
  BY <1>2, <1>7, <1>9
<1> QED BY <1>2, <1>4, <1>10, <1>11 DEF LatestBreadcrumbs, Latest

\* LatestBreadcrumbs is preserved by every step.
LEMMA LatestStep ==
  Types /\ InitialisedInv /\ LatestBreadcrumbs /\ [Next]_vars => LatestBreadcrumbs'
<1> SUFFICES ASSUME Types, InitialisedInv, LatestBreadcrumbs, [Next]_vars
             PROVE  LatestBreadcrumbs'
  OBVIOUS
<1>1. CASE UNCHANGED vars
  BY <1>1 DEF vars, scopeVars, history, LatestBreadcrumbs, Latest
<1>2. CASE Next
  <2>1. PICK t \in Threads : \/ \E o \in Options : init(t, o)
                             \/ \E e \in Events : Adding(t, e)
                             \/ CallStep(t)
                             \/ SettingStep(t)
                             \/ \E e \in Events : captureEvent(t, e)
    BY <1>2, StepKinds
  <2>2. CASE \E o \in Options : init(t, o)
    <3>1. limits \subseteq limits' /\ m_breadcrumbs' = m_breadcrumbs /\ crumbLog' = crumbLog
      BY <2>2, InitFlags
    <3> QED BY <3>1 DEF LatestBreadcrumbs, Latest
  <2>3. CASE \E e \in Events : Adding(t, e)
    BY <2>3, LatestAdd
  <2>4. CASE CallStep(t) \/ SettingStep(t) \/ \E e \in Events : captureEvent(t, e)
    <3>1. Steady
      BY <2>4, SteadySteps
    <3> QED BY <3>1 DEF Steady, LatestBreadcrumbs, Latest
  <2> QED BY <2>1, <2>2, <2>3, <2>4
<1> QED BY <1>1, <1>2

\* The two together.
THEOREM LatestHolds == Spec => [](InitialisedInv /\ LatestBreadcrumbs)
<1>1. Init => InitialisedInv /\ LatestBreadcrumbs
  BY InitialisedInit, LatestInit
<1>2. Types /\ (InitialisedInv /\ LatestBreadcrumbs) /\ [Next]_vars
        => (InitialisedInv /\ LatestBreadcrumbs)'
  BY InitialisedStep, LatestStep
<1> QED BY <1>1, <1>2, TypesHold, PTL DEF Spec

\* Whatever limits init sets, wraps to uint16_t or changes on the way, the
\* breadcrumbs kept are the latest ones, in order, as many as the limits say.
THEOREM BreadcrumbsAreLatest == Spec => []LatestBreadcrumbs
  BY LatestHolds, PTL

-----------------------------------------------------------------------------
(***************************************************************************)
(* The breadcrumbs of an event.                                            *)
(***************************************************************************)
\* A list that was the list of breadcrumbs at one moment of the call of t.
OfCall(t, list) ==
  \E n \in frame[t].began..Len(crumbLog) : Latest(list, SubSeq(crumbLog, 1, n))

\* Who counts has the whole list ahead, for as long as nothing undefined happened; who
\* copies, the list as it was counted.
Copying(t) ==
  /\ frame[t].began <= Len(crumbLog)
  /\ pc[t] = "count" /\ ~undefined => walk[t] = m_breadcrumbs
  /\ pc[t] = "copy" => OfCall(t, walk[t])
  /\ pc[t] \in {"limit", "breadcrumbs", "count", "copy"} =>
       frame[t].payload.breadcrumbs = <<>>

Copied(t) ==
  pc[t] \in {"apply", "send", "crumb"} => OfCall(t, frame[t].payload.breadcrumbs)

CopyInv == \A t \in Threads : Copying(t) /\ Copied(t)

\* No copy is under way at first.
LEMMA CopyInit == Init => CopyInv
<1> SUFFICES ASSUME Init, NEW t \in Threads PROVE Copying(t) /\ Copied(t)
  BY DEF CopyInv
<1>1. pc[t] = "idle" /\ frame[t].began = 0 /\ crumbLog = <<>>
  BY NoFrameType DEF Init
<1> QED BY <1>1 DEF Copying, Copied

\* The list as it is now is one of the call.
LEMMA NowIsOfCall ==
  ASSUME Types, LatestBreadcrumbs, NEW t \in Threads, frame[t].began <= Len(crumbLog)
  PROVE  OfCall(t, m_breadcrumbs)
<1>1. /\ crumbLog \in Seq(Crumb) /\ Len(crumbLog) \in Nat /\ frame[t].began \in Nat
  BY LenProperties DEF Types, CrumbTypes, CallTypes, Frame
<1>2. SubSeq(crumbLog, 1, Len(crumbLog)) = crumbLog
  BY <1>1, WholePrefix
<1>3. Len(crumbLog) \in frame[t].began..Len(crumbLog)
  BY <1>1
<1> QED BY <1>2, <1>3, Zenon DEF OfCall, LatestBreadcrumbs

\* A list that was one of the call stays one while limits are added ...
LEMMA LatestGrows ==
  ASSUME NEW list, NEW added, limits \subseteq limits', Latest(list, added)
  PROVE  Latest(list, added)'
  BY DEF Latest

\* ... and breadcrumbs.
LEMMA OfCallStays ==
  ASSUME Types, NEW t \in Threads, NEW list, OfCall(t, list), limits \subseteq limits',
         frame'[t].began = frame[t].began,
         crumbLog' = crumbLog \/ \E c \in Crumb : crumbLog' = Append(crumbLog, c)
  PROVE  OfCall(t, list)'
<1>1. crumbLog \in Seq(Crumb) /\ Len(crumbLog) \in Nat /\ frame[t].began \in Nat
  BY LenProperties DEF Types, CrumbTypes, CallTypes, Frame
<1>2. PICK n \in frame[t].began..Len(crumbLog) : Latest(list, SubSeq(crumbLog, 1, n))
  BY DEF OfCall
<1>3. n \in 0..Len(crumbLog)
  BY <1>1
<1>4. SubSeq(crumbLog', 1, n) = SubSeq(crumbLog, 1, n)
  BY <1>1, <1>3, PrefixStays
<1>5. n \in frame'[t].began..Len(crumbLog')
  BY <1>1, <1>3, AppendProperties
<1>6. PICK added : added = SubSeq(crumbLog, 1, n)
  OBVIOUS
<1>7. Latest(list, added)'
  BY <1>2, <1>6, LatestGrows
<1>8. Latest(list, SubSeq(crumbLog, 1, n))'
  BY <1>4, <1>6, <1>7
<1> QED BY <1>5, <1>8 DEF OfCall

\* A thread that the step is not of, while no breadcrumb is added.
LEMMA CopySame ==
  ASSUME Types, CopyInv, NEW u \in Threads, pc'[u] = pc[u], frame'[u] = frame[u],
         walk'[u] = walk[u], crumbLog' = crumbLog, m_breadcrumbs' = m_breadcrumbs,
         limits \subseteq limits', undefined => undefined'
  PROVE  Copying(u)' /\ Copied(u)'
<1>1. ASSUME NEW list, OfCall(u, list) PROVE OfCall(u, list)'
  BY <1>1, OfCallStays
<1>2. PICK w : w = walk[u]
  OBVIOUS
<1>3. PICK b : b = frame[u].payload.breadcrumbs
  OBVIOUS
<1>4. pc'[u] = "copy" => OfCall(u, w)'
  BY <1>1, <1>2 DEF CopyInv, Copying
<1>5. pc'[u] \in {"apply", "send", "crumb"} => OfCall(u, b)'
  BY <1>1, <1>3 DEF CopyInv, Copied
<1>6. Copying(u)'
  BY <1>2, <1>4 DEF CopyInv, Copying, OfCall
<1>7. Copied(u)'
  BY <1>3, <1>5 DEF Copied, OfCall
<1> QED BY <1>6, <1>7

\* What a new breadcrumb does to the list, to who counts it and to who copies it.
LEMMA AddedTo ==
  ASSUME Types, CopyInv, NEW e \in Events, AddCrumb(e), ~undefined, ~undefined',
         NEW u \in Threads, pc[u] = "count"
  PROVE  walk'[u] = m_breadcrumbs'
<1> DEFINE c == Completed(e)
<1>1. c \in Crumb /\ m_breadcrumbs \in Seq(Crumb)
  BY CompletedType DEF Types, CrumbTypes
<1>2. /\ m_breadcrumbs' = PushBreadcrumb(m_breadcrumbs, c, m_maxBreadcrumbs)
      /\ ~(Len(m_breadcrumbs') <= Len(m_breadcrumbs))
      /\ walk'[u] = Append(walk[u], c)
  BY DEF AddCrumb, Corrupts, Met
<1>3. walk[u] = m_breadcrumbs
  BY DEF CopyInv, Copying
<1> HIDE DEF c
<1>4. PICK k \in Nat : k = Len(m_breadcrumbs)
  BY <1>1, LenProperties
<1>5. Len(m_breadcrumbs') = IF k + 1 > m_maxBreadcrumbs THEN k ELSE k + 1
  BY <1>1, <1>2, <1>4, PushLen
<1>6. ~(k + 1 > m_maxBreadcrumbs)
  BY <1>2, <1>4, <1>5
<1>7. Len(Append(m_breadcrumbs, c)) = k + 1
  BY <1>1, <1>4, AppendProperties
<1>8. m_breadcrumbs' = Append(m_breadcrumbs, c)
  BY <1>2, <1>6, <1>7 DEF PushBreadcrumb
<1> QED BY <1>2, <1>3, <1>8

\* A breadcrumb added while a copy is under way.
LEMMA CopyAdd ==
  ASSUME Types, CopyInv, NEW t \in Threads, NEW e \in Events, Adding(t, e), NEW u \in Threads
  PROVE  Copying(u)' /\ Copied(u)'
<1>1. /\ Completed(e) \in Crumb /\ crumbLog \in Seq(Crumb)
      /\ crumbLog' = Append(crumbLog, Completed(e)) /\ limits' = limits
  BY CompletedType DEF Types, CrumbTypes, Adding, AddCrumb
<1>2. pc[u] # "count" => walk'[u] = walk[u]
  BY DEF Adding, AddCrumb, Met
<1>3. Len(crumbLog) \in Nat /\ Len(crumbLog') = Len(crumbLog) + 1
  BY <1>1, LenProperties, AppendProperties
<1>4. \/ pc'[u] = pc[u] /\ frame'[u] = frame[u]
      \/ pc'[u] = "idle" /\ frame'[u] = NoFrame
  BY DEF Adding
<1>5. CASE pc'[u] = "idle" /\ frame'[u] = NoFrame
  <2>1. frame'[u].began = 0
    BY <1>5, NoFrameType
  <2> QED BY <1>3, <1>5, <2>1 DEF Copying, Copied
<1>6. CASE pc'[u] = pc[u] /\ frame'[u] = frame[u]
  <2>1. frame[u].began \in Nat /\ frame[u].began <= Len(crumbLog)
    BY DEF Types, CallTypes, Frame, CopyInv, Copying
  <2>2. frame'[u].began <= Len(crumbLog')
    BY <1>3, <1>6, <2>1
  <2>3. pc'[u] = "count" /\ ~undefined' => walk'[u] = m_breadcrumbs'
    BY <1>6, AddedTo DEF Adding
  <2>4. ASSUME NEW list, OfCall(u, list) PROVE OfCall(u, list)'
    BY <1>1, <1>6, <2>4, OfCallStays
  <2>5. PICK w : w = walk[u]
    OBVIOUS
  <2>6. PICK b : b = frame[u].payload.breadcrumbs
    OBVIOUS
  <2>7. pc'[u] = "copy" => OfCall(u, w)' /\ w = walk'[u]
    BY <1>2, <1>6, <2>4, <2>5 DEF CopyInv, Copying
  <2>8. Copying(u)'
    BY <1>6, <2>2, <2>3, <2>7 DEF CopyInv, Copying, OfCall
  <2>9. pc'[u] \in {"apply", "send", "crumb"} => OfCall(u, b)' /\ b = frame'[u].payload.breadcrumbs
    BY <1>6, <2>4, <2>6 DEF CopyInv, Copied
  <2>10. Copied(u)'
    BY <2>9 DEF Copied, OfCall
  <2> QED BY <2>8, <2>10
<1> QED BY <1>4, <1>5, <1>6

\* The thread whose step it is.
LEMMA CopyOwn ==
  ASSUME Types, LatestBreadcrumbs, CopyInv, NEW t \in Threads, CallStep(t),
         crumbLog' = crumbLog, limits' = limits, m_breadcrumbs' = m_breadcrumbs
  PROVE  Copying(t)' /\ Copied(t)'
<1>1. pc \in [Threads -> PC] /\ frame \in [Threads -> Frame] /\ walk \in [Threads -> Seq(Crumb)]
  BY DEF Types, CallTypes, CrumbTypes
<1>2. /\ crumbLog \in Seq(Crumb) /\ Len(crumbLog) \in Nat
      /\ frame[t].began \in Nat /\ frame[t].began <= Len(crumbLog)
  BY LenProperties DEF Types, CrumbTypes, CallTypes, Frame, CopyInv, Copying
<1>3. OfCall(t, m_breadcrumbs)
  BY <1>2, NowIsOfCall
<1>0. ASSUME NEW list, OfCall(t, list), frame'[t].began = frame[t].began
      PROVE  OfCall(t, list)'
  BY <1>0, OfCallStays
<1>4. CASE initRelease(t)
  BY <1>1, <1>2, <1>4 DEF initRelease, Copying, Copied
<1>5. ASSUME Return(t) PROVE Copying(t)' /\ Copied(t)'
  <2>1. pc'[t] = "idle" /\ frame'[t].began = 0
    BY <1>1, <1>5, NoFrameType DEF Return
  <2> QED BY <1>2, <2>1 DEF Copying, Copied
<1>6. CASE initEnvironment(t)
  BY <1>5, <1>6 DEF initEnvironment
<1>7. CASE checkIfEventTooOften(t)
  <2>1. Return(t) \/ (pc'[t] = "breadcrumbs" /\ frame' = frame)
    BY <1>7, CheckSteps
  <2>2. CASE pc'[t] = "breadcrumbs" /\ frame' = frame
    <3>1. frame[t].payload.breadcrumbs = <<>>
      BY <1>7 DEF checkIfEventTooOften, CopyInv, Copying
    <3> QED BY <1>2, <2>2, <3>1 DEF Copying, Copied
  <2> QED BY <1>5, <2>1, <2>2
<1>8. CASE beginBreadcrumbs(t)
  <2>1. frame' = frame /\ frame[t].payload.breadcrumbs = <<>> /\ walk'[t] = m_breadcrumbs
    BY <1>1, <1>8 DEF beginBreadcrumbs, CopyInv, Copying
  <2>2. CASE m_breadcrumbs = <<>>
    <3>1. pc'[t] = "apply"
      BY <1>1, <1>8, <2>2 DEF beginBreadcrumbs
    <3>2. PICK b : b = frame[t].payload.breadcrumbs
      OBVIOUS
    <3>3. OfCall(t, b)
      BY <1>3, <2>1, <2>2, <3>2
    <3>4. OfCall(t, b)'
      BY <1>0, <2>1, <3>3
    <3>5. Copied(t)'
      BY <2>1, <3>2, <3>4 DEF Copied, OfCall
    <3> QED BY <1>2, <2>1, <3>1, <3>5 DEF Copying
  <2>3. CASE m_breadcrumbs # <<>>
    <3>1. pc'[t] = "count"
      BY <1>1, <1>8, <2>3 DEF beginBreadcrumbs
    <3> QED BY <1>2, <2>1, <3>1 DEF Copying, Copied
  <2> QED BY <2>2, <2>3
<1>12. CASE countBreadcrumbs(t)
  <2>1. /\ frame' = frame /\ walk' = walk /\ pc[t] = "count" /\ pc'[t] = "copy" /\ ~undefined
    BY <1>1, <1>12 DEF countBreadcrumbs
  <2>2. walk[t] = m_breadcrumbs /\ frame[t].payload.breadcrumbs = <<>>
    BY <2>1 DEF CopyInv, Copying
  <2>3. PICK w : w = walk[t]
    OBVIOUS
  <2>4. OfCall(t, w)
    BY <1>3, <2>2, <2>3
  <2>5. OfCall(t, w)'
    BY <1>0, <2>1, <2>4
  <2> QED BY <1>2, <2>1, <2>2, <2>3, <2>5 DEF Copying, Copied, OfCall
<1>9. CASE applyBreadcrumbs(t)
  <2>1. PICK p \in Payload : /\ frame' = [frame EXCEPT ![t].payload = p]
                             /\ p.breadcrumbs = walk[t]
    BY <1>9, CopiedPayload
  <2>2. frame'[t].payload = p /\ frame'[t].began = frame[t].began
    BY <1>1, <2>1, PayloadFrame
  <2>3. pc[t] = "copy" /\ pc'[t] = "apply"
    BY <1>1, <1>9 DEF applyBreadcrumbs
  <2>4. OfCall(t, p.breadcrumbs)
    BY <2>1, <2>3 DEF CopyInv, Copying
  <2>5. OfCall(t, p.breadcrumbs)'
    BY <1>0, <2>2, <2>4
  <2>6. Copied(t)'
    BY <2>2, <2>5 DEF Copied, OfCall
  <2> QED BY <1>2, <2>2, <2>3, <2>6 DEF Copying
<1>10. CASE applyToEvent(t)
  <2>1. PICK p \in Payload : /\ frame' = [frame EXCEPT ![t].payload = p]
                             /\ p.breadcrumbs = frame[t].payload.breadcrumbs
    BY <1>10, AppliedPayload
  <2>2. frame'[t].payload = p /\ frame'[t].began = frame[t].began
    BY <1>1, <2>1, PayloadFrame
  <2>3. pc[t] = "apply" /\ pc'[t] = "send"
    BY <1>1, <1>10 DEF applyToEvent
  <2>4. OfCall(t, p.breadcrumbs)
    BY <2>1, <2>3 DEF CopyInv, Copied
  <2>5. OfCall(t, p.breadcrumbs)'
    BY <1>0, <2>2, <2>4
  <2>6. Copied(t)'
    BY <2>2, <2>5 DEF Copied, OfCall
  <2> QED BY <1>2, <2>2, <2>3, <2>6 DEF Copying
<1>11. CASE sendEvent(t)
  <2>1. pc[t] = "send" /\ pc'[t] = "crumb" /\ frame' = frame
    BY <1>1, <1>11 DEF sendEvent
  <2>2. PICK b : b = frame[t].payload.breadcrumbs
    OBVIOUS
  <2>3. OfCall(t, b)'
    BY <1>0, <2>1, <2>2 DEF CopyInv, Copied
  <2>4. Copied(t)'
    BY <2>1, <2>2, <2>3 DEF Copied, OfCall
  <2> QED BY <1>2, <2>1, <2>4 DEF Copying
<1> QED BY <1>4, <1>6, <1>7, <1>8, <1>9, <1>10, <1>11, <1>12 DEF CallStep

\* The walk of a thread changes by its own steps and by a new breadcrumb only.
LEMMA WalkSteps ==
  ASSUME Types, NEW t \in Threads, NEW u \in Threads \ {t},
         \/ CallStep(t) \/ SettingStep(t) \/ \E e \in Events : captureEvent(t, e)
         \/ \E o \in Options : init(t, o)
  PROVE  walk'[u] = walk[u]
<1>1. walk \in [Threads -> Seq(Crumb)]
  BY DEF Types, CrumbTypes
<1> QED BY <1>1 DEF CallStep, SettingStep, initRelease, initEnvironment, checkIfEventTooOften,
                    beginBreadcrumbs, countBreadcrumbs, applyBreadcrumbs, applyToEvent,
                    sendEvent, setTag, setExtra, setRelease, captureEvent, init

\* CopyInv is preserved by every step.
LEMMA CopyStep ==
  Types /\ InitialisedInv /\ LatestBreadcrumbs /\ CopyInv /\ [Next]_vars => CopyInv'
<1> SUFFICES ASSUME Types, InitialisedInv, LatestBreadcrumbs, CopyInv, [Next]_vars,
                    NEW u \in Threads
             PROVE  Copying(u)' /\ Copied(u)'
  BY DEF CopyInv
<1>1. CASE UNCHANGED vars
  <2>1. /\ pc'[u] = pc[u] /\ frame'[u] = frame[u] /\ walk'[u] = walk[u] /\ crumbLog' = crumbLog
        /\ m_breadcrumbs' = m_breadcrumbs /\ limits' = limits /\ undefined' = undefined
    BY <1>1 DEF vars, scopeVars, history
  <2> QED BY <2>1, CopySame
<1>2. CASE Next
  <2>1. PICK t \in Threads : \/ \E o \in Options : init(t, o)
                             \/ \E e \in Events : Adding(t, e)
                             \/ CallStep(t)
                             \/ SettingStep(t)
                             \/ \E e \in Events : captureEvent(t, e)
    BY <1>2, StepKinds
  <2>2. CASE \E o \in Options : init(t, o)
    <3>1. PICK o \in Options : init(t, o)
      BY <2>2
    <3>2. /\ crumbLog' = crumbLog /\ walk'[u] = walk[u] /\ m_breadcrumbs' = m_breadcrumbs
          /\ limits \subseteq limits' /\ ~undefined
      BY <3>1, InitFlags
    <3>3. CASE pc'[u] = pc[u] /\ frame'[u] = frame[u]
      BY <3>2, <3>3, CopySame
    <3>4. CASE u = t /\ pc'[u] = "release" /\ frame'[u] = [frame[u] EXCEPT !.options = o]
      <4>1. frame'[u].began = frame[u].began
        BY <3>4 DEF Types, CallTypes, Frame
      <4> QED BY <3>2, <3>4, <4>1 DEF CopyInv, Copying, Copied
    <3> QED BY <3>1, <3>3, <3>4, InitFlags
  <2>3. CASE \E e \in Events : Adding(t, e)
    BY <2>3, CopyAdd, Zenon
  <2>4. CASE u # t /\ (CallStep(t) \/ SettingStep(t) \/ \E e \in Events : captureEvent(t, e))
    <3>1. /\ crumbLog' = crumbLog /\ pc'[u] = pc[u] /\ frame'[u] = frame[u]
          /\ m_breadcrumbs' = m_breadcrumbs /\ limits' = limits /\ ~undefined
      BY <2>4, SteadySteps DEF Steady
    <3>2. walk'[u] = walk[u]
      BY <2>4, WalkSteps
    <3> QED BY <3>1, <3>2, CopySame
  <2>5. CASE u = t /\ CallStep(t)
    <3>1. crumbLog' = crumbLog /\ limits' = limits /\ m_breadcrumbs' = m_breadcrumbs
      BY <2>5, SteadySteps DEF Steady
    <3> QED BY <2>5, <3>1, CopyOwn
  <2>6. CASE SettingStep(t)
    <3>1. /\ crumbLog' = crumbLog /\ m_breadcrumbs' = m_breadcrumbs /\ limits' = limits
          /\ ~undefined
      BY <2>6, SteadySteps DEF Steady
    <3>2. UNCHANGED <<pc, frame, walk>>
      BY <2>6 DEF SettingStep, setTag, setExtra, setRelease
    <3> QED BY <3>1, <3>2, CopySame
  <2>7. CASE u = t /\ \E e \in Events : captureEvent(t, e)
    <3>1. PICK e \in Events : captureEvent(t, e)
      BY <2>7
    <3>2. crumbLog' = crumbLog /\ Len(crumbLog) \in Nat
      BY <2>7, SteadySteps, LenProperties DEF Steady, Types, CrumbTypes
    <3>3. /\ frame'[u].payload.breadcrumbs = <<>> /\ frame'[u].began = Len(crumbLog)
          /\ pc'[u] = IF e.message # "" THEN "limit" ELSE "breadcrumbs"
      BY <2>7, <3>1, CaptureFrame
    <3>4. pc'[u] \in {"limit", "breadcrumbs"}
      BY <3>3
    <3>5. Copying(u)'
      <4>1. frame'[u].began <= Len(crumbLog')
        <5>1. PICK k \in Nat : k = Len(crumbLog)
          BY <3>2
        <5>2. frame'[u].began = k /\ Len(crumbLog') = k
          BY <3>2, <3>3, <5>1
        <5> QED BY <5>2
      <4>2. pc'[u] # "count" /\ pc'[u] # "copy"
        BY <3>4
      <4>3. frame'[u].payload.breadcrumbs = <<>>
        BY <3>3
      <4> QED BY <4>1, <4>2, <4>3, Zenon DEF Copying
    <3>6. Copied(u)'
      BY <3>4 DEF Copied
    <3> QED BY <3>5, <3>6
  <2> QED BY <2>1, <2>2, <2>3, <2>4, <2>5, <2>6, <2>7
<1> QED BY <1>1, <1>2

\* A capture that gets past the copy of the breadcrumbs, which getBreadcrumbs makes
\* without m_scopeMutex, has those of one moment between its beginning and its sending:
\* a push_back or pop_front by another thread during the copy either leaves it whole or
\* is undefined behaviour, which ends the behaviours of Hub.
THEOREM SnapshotIsWithinCall == Spec => []SnapshotWithinCall
<1>1. Init => CopyInv
  BY CopyInit
<1>2. Types /\ InitialisedInv /\ LatestBreadcrumbs /\ CopyInv /\ [Next]_vars => CopyInv'
  BY CopyStep
<1>3. CopyInv => SnapshotWithinCall
  BY DEF CopyInv, Copied, OfCall, SnapshotWithinCall
<1> QED BY <1>1, <1>2, <1>3, TypesHold, LatestHolds, PTL DEF Spec

-----------------------------------------------------------------------------
(***************************************************************************)
(* What is sent becomes a breadcrumb.                                      *)
(***************************************************************************)
SentAs(e, p) == p.message = e.message /\ p.level = Completed(e).level

\* The capture that sent a payload has yet to add its breadcrumb ...
Remembering(t, p) ==
  /\ pc[t] = "crumb"
  /\ frame[t].payload.event_id = p.event_id
  /\ SentAs(frame[t].event, p)

\* ... or has added it.
Remembered(p) ==
  \E j \in DOMAIN crumbLog : crumbLog[j].message = p.message /\ crumbLog[j].level = p.level

EmitInv ==
  /\ \A t \in Threads : pc[t] = "send" => SentAs(frame[t].event, frame[t].payload)
  /\ \A i \in DOMAIN emitted :
       (\E t \in Threads : Remembering(t, emitted[i])) \/ Remembered(emitted[i])

\* Nothing was sent at first.
LEMMA EmitInit == Init => EmitInv
<1> SUFFICES ASSUME Init PROVE EmitInv
  OBVIOUS
<1>1. emitted = <<>> /\ \A t \in Threads : pc[t] = "idle"
  BY DEF Init
<1> QED BY <1>1 DEF EmitInv

\* A step that sends nothing and after which every other thread is where it
\* was, the thread itself not having been about to add its breadcrumb.
LEMMA EmitSame ==
  ASSUME EmitInv, NEW t \in Threads, emitted' = emitted, crumbLog' = crumbLog, pc[t] # "crumb",
         \A u \in Threads \ {t} : pc'[u] = pc[u] /\ frame'[u] = frame[u],
         pc'[t] = "send" => SentAs(frame'[t].event, frame'[t].payload)
  PROVE  EmitInv'
<1>1. \A u \in Threads : pc'[u] = "send" => SentAs(frame'[u].event, frame'[u].payload)
  BY DEF EmitInv
<1>2. ASSUME NEW i \in DOMAIN emitted
      PROVE  (\E u \in Threads : Remembering(u, emitted[i])') \/ Remembered(emitted[i])'
  <2>1. CASE \E u \in Threads : Remembering(u, emitted[i])
    <3>1. PICK u \in Threads : Remembering(u, emitted[i])
      BY <2>1
    <3>2. u # t
      BY <3>1 DEF Remembering
    <3>3. Remembering(u, emitted[i])'
      BY <3>1, <3>2 DEF Remembering
    <3> QED BY <3>3
  <2>2. CASE Remembered(emitted[i])
    BY <2>2 DEF Remembered
  <2> QED BY <2>1, <2>2 DEF EmitInv
<1> QED BY <1>1, <1>2 DEF EmitInv, SentAs, Remembering, Remembered

\* An addition keeps what is remembered, and settles what its thread sent.
LEMMA EmitAdd ==
  ASSUME Types, EmitInv, NEW t \in Threads, NEW e \in Events, Adding(t, e)
  PROVE  EmitInv'
<1>1. /\ crumbLog \in Seq(Crumb) /\ Completed(e) \in Crumb /\ Completed(e).message = e.message
      /\ emitted' = emitted /\ crumbLog' = Append(crumbLog, Completed(e))
  BY CompletedType DEF Types, CrumbTypes, Adding, AddCrumb
<1>0. PICK n \in Nat : n = Len(crumbLog)
  BY <1>1, LenProperties
<1>2. /\ DOMAIN crumbLog = 1..n /\ DOMAIN crumbLog' = 1..n + 1
      /\ \A j \in 1..n : crumbLog'[j] = crumbLog[j]
      /\ crumbLog'[n + 1] = Completed(e)
  BY <1>0, <1>1, LenProperties, AppendProperties
<1>3. \A u \in Threads : \/ pc'[u] = pc[u] /\ frame'[u] = frame[u]
                         \/ pc[u] = "crumb" /\ e = frame[u].event /\ pc'[u] = "idle"
  BY DEF Adding
<1>4. \A u \in Threads : pc'[u] = "send" => SentAs(frame'[u].event, frame'[u].payload)
  BY <1>3 DEF EmitInv
<1>5. ASSUME NEW i \in DOMAIN emitted
      PROVE  (\E u \in Threads : Remembering(u, emitted[i])') \/ Remembered(emitted[i])'
  <2>1. CASE \E u \in Threads : Remembering(u, emitted[i])
    <3>1. PICK u \in Threads : Remembering(u, emitted[i])
      BY <2>1
    <3>2. CASE pc'[u] = pc[u] /\ frame'[u] = frame[u]
      <4>1. Remembering(u, emitted[i])'
        BY <1>1, <3>1, <3>2 DEF Remembering
      <4> QED BY <4>1
    <3>3. CASE e = frame[u].event
      <4>1. Completed(e).message = emitted[i].message /\ Completed(e).level = emitted[i].level
        BY <1>1, <3>1, <3>3 DEF Remembering, SentAs
      <4>2. n + 1 \in DOMAIN crumbLog'
        BY <1>2
      <4>3. Remembered(emitted[i])'
        BY <1>1, <1>2, <4>1, <4>2 DEF Remembered
      <4> QED BY <4>3
    <3> QED BY <1>3, <3>2, <3>3
  <2>2. CASE Remembered(emitted[i])
    <3>1. PICK j \in DOMAIN crumbLog :
            crumbLog[j].message = emitted[i].message /\ crumbLog[j].level = emitted[i].level
      BY <2>2 DEF Remembered
    <3>2. j \in DOMAIN crumbLog' /\ crumbLog'[j] = crumbLog[j]
      BY <1>2
    <3>3. Remembered(emitted[i])'
      BY <1>1, <3>1, <3>2 DEF Remembered
    <3> QED BY <3>3
  <2> QED BY <2>1, <2>2 DEF EmitInv
<1> QED BY <1>1, <1>4, <1>5 DEF EmitInv, SentAs, Remembering, Remembered

\* What is sent waits for the breadcrumb of its thread.
LEMMA EmitSend ==
  ASSUME Types, EmitInv, NEW t \in Threads, sendEvent(t)
  PROVE  EmitInv'
<1>1. pc \in [Threads -> PC] /\ emitted \in Seq(Payload)
  BY DEF Types, CallTypes
<1>2. /\ pc[t] = "send" /\ pc'[t] = "crumb" /\ frame' = frame /\ crumbLog' = crumbLog
      /\ \A u \in Threads \ {t} : pc'[u] = pc[u]
  BY <1>1 DEF sendEvent
<1>3. CASE emitted' = emitted
  BY <1>2, <1>3, EmitSame
<1>4. CASE emitted' = Append(emitted, frame[t].payload)
  <2>0. PICK n \in Nat : n = Len(emitted)
    BY <1>1, LenProperties
  <2>1. /\ DOMAIN emitted' = 1..n + 1 /\ DOMAIN emitted = 1..n
        /\ \A i \in 1..n : emitted'[i] = emitted[i]
        /\ emitted'[n + 1] = frame[t].payload
    BY <1>1, <1>4, <2>0, LenProperties, AppendProperties
  <2>2. \A u \in Threads : pc'[u] = "send" => SentAs(frame'[u].event, frame'[u].payload)
    BY <1>2 DEF EmitInv
  <2>3. ASSUME NEW i \in DOMAIN emitted
        PROVE  (\E u \in Threads : Remembering(u, emitted[i])') \/ Remembered(emitted[i])'
    <3>1. emitted'[i] = emitted[i]
      BY <2>1
    <3>2. CASE \E u \in Threads : Remembering(u, emitted[i])
      <4>1. PICK u \in Threads : Remembering(u, emitted[i])
        BY <3>2
      <4>2. Remembering(u, emitted[i])'
        BY <1>2, <3>1, <4>1 DEF Remembering
      <4> QED BY <4>2
    <3>3. CASE Remembered(emitted[i])
      BY <1>2, <3>1, <3>3 DEF Remembered
    <3> QED BY <3>2, <3>3 DEF EmitInv
  <2>4. Remembering(t, emitted[n + 1])'
    <3>1. SentAs(frame[t].event, frame[t].payload)
      BY <1>2 DEF EmitInv
    <3> QED BY <1>2, <2>1, <3>1 DEF Remembering
  <2>5. \A i \in DOMAIN emitted' :
          (\E u \in Threads : Remembering(u, emitted[i])') \/ Remembered(emitted[i])'
    <3>1. \A i \in DOMAIN emitted' : i \in DOMAIN emitted \/ i = n + 1
      BY <2>1
    <3> QED BY <2>3, <2>4, <3>1
  <2> QED BY <2>2, <2>5 DEF EmitInv, SentAs, Remembering, Remembered
<1> QED BY <1>3, <1>4 DEF sendEvent

\* EmitInv is preserved by every step.
LEMMA EmitStep == Types /\ InitialisedInv /\ EmitInv /\ [Next]_vars => EmitInv'
<1> SUFFICES ASSUME Types, InitialisedInv, EmitInv, [Next]_vars PROVE EmitInv'
  OBVIOUS
<1>1. CASE UNCHANGED vars
  BY <1>1 DEF vars, history, EmitInv, SentAs, Remembering, Remembered
<1>2. CASE Next
  <2>0. pc \in [Threads -> PC] /\ frame \in [Threads -> Frame]
    BY DEF Types, CallTypes
  <2>1. PICK t \in Threads : \/ \E o \in Options : init(t, o)
                             \/ \E e \in Events : Adding(t, e)
                             \/ CallStep(t)
                             \/ SettingStep(t)
                             \/ \E e \in Events : captureEvent(t, e)
    BY <1>2, StepKinds
  <2>2. CASE \E o \in Options : init(t, o)
    <3>1. PICK o \in Options : init(t, o)
      BY <2>2
    <3>2. /\ emitted' = emitted /\ crumbLog' = crumbLog /\ pc[t] # "crumb" /\ pc'[t] # "send"
          /\ \A u \in Threads \ {t} : pc'[u] = pc[u] /\ frame'[u] = frame[u]
      BY <3>1, InitFlags
    <3> QED BY <3>2, EmitSame
  <2>3. CASE \E e \in Events : Adding(t, e)
    BY <2>3, EmitAdd
  <2>4. CASE CallStep(t)
    <3>1. crumbLog' = crumbLog /\ \A u \in Threads \ {t} : pc'[u] = pc[u] /\ frame'[u] = frame[u]
      BY <2>4, SteadySteps DEF Steady
    <3>2. ASSUME emitted' = emitted, pc[t] # "crumb",
                 pc'[t] = "send" => SentAs(frame'[t].event, frame'[t].payload)
          PROVE  EmitInv'
      BY <3>1, <3>2, EmitSame
    <3>3. CASE initRelease(t)
      <4>1. emitted' = emitted /\ pc[t] = "release" /\ pc'[t] = "environment"
        BY <2>0, <3>3 DEF initRelease, history
      <4> QED BY <3>2, <4>1
    <3>4. CASE initEnvironment(t)
      <4>1. emitted' = emitted /\ pc[t] = "environment" /\ pc'[t] = "idle"
        BY <2>0, <3>4 DEF initEnvironment, Return
      <4> QED BY <3>2, <4>1
    <3>5. CASE checkIfEventTooOften(t)
      <4>1. emitted' = emitted /\ pc[t] = "limit"
        BY <3>5 DEF checkIfEventTooOften
      <4>2. pc'[t] \in {"idle", "breadcrumbs"}
        BY <2>0, <3>5, CheckSteps DEF Return
      <4> QED BY <3>2, <4>1, <4>2
    <3>6. CASE beginBreadcrumbs(t)
      <4>1. emitted' = emitted /\ pc[t] = "breadcrumbs" /\ pc'[t] \in {"apply", "count"}
        BY <2>0, <3>6 DEF beginBreadcrumbs, history
      <4> QED BY <3>2, <4>1
    <3>10. CASE countBreadcrumbs(t)
      <4>1. emitted' = emitted /\ pc[t] = "count" /\ pc'[t] = "copy"
        BY <2>0, <3>10 DEF countBreadcrumbs, history
      <4> QED BY <3>2, <4>1
    <3>7. CASE applyBreadcrumbs(t)
      <4>1. emitted' = emitted /\ pc[t] = "copy" /\ pc'[t] = "apply"
        BY <2>0, <3>7 DEF applyBreadcrumbs, history
      <4> QED BY <3>2, <4>1
    <3>8. CASE applyToEvent(t)
      <4>1. emitted' = emitted /\ pc[t] = "apply"
        BY <3>8 DEF applyToEvent, history
      <4>2. frame[t].event \in Events
        BY <4>1 DEF Types, EventTypes, Capturing
      <4>3. PICK p \in Payload :
              /\ frame' = [frame EXCEPT ![t].payload = p]
              /\ p.message = frame[t].event.message
              /\ p.level = IF frame[t].event.level = "" THEN "info" ELSE frame[t].event.level
        BY <3>8, AppliedPayload
      <4>4. frame'[t].payload = p /\ frame'[t].event = frame[t].event
        BY <2>0, <4>3, PayloadFrame
      <4>5. SentAs(frame[t].event, p)
        BY <4>2, <4>3, CompletedType DEF SentAs
      <4> QED BY <3>2, <4>1, <4>4, <4>5
    <3>9. CASE sendEvent(t)
      BY <3>9, EmitSend
    <3> QED BY <2>4, <3>3, <3>4, <3>5, <3>6, <3>7, <3>8, <3>9, <3>10 DEF CallStep
  <2>5. CASE SettingStep(t)
    <3>1. crumbLog' = crumbLog
      BY <2>5, SteadySteps DEF Steady
    <3>2. UNCHANGED <<pc, frame, emitted>> /\ pc[t] = "idle"
      BY <2>5 DEF SettingStep, setTag, setExtra, setRelease, history, Ready, Idle
    <3> QED BY <3>1, <3>2, EmitSame
  <2>6. CASE \E e \in Events : captureEvent(t, e)
    <3>1. PICK e \in Events : captureEvent(t, e)
      BY <2>6
    <3>2. /\ pc'[t] \in {"limit", "breadcrumbs"}
          /\ \A u \in Threads \ {t} : pc'[u] = pc[u] /\ frame'[u] = frame[u]
      BY <3>1, CaptureFrame
    <3>3. emitted' = emitted /\ crumbLog' = crumbLog /\ pc[t] = "idle"
      BY <3>1 DEF captureEvent, Ready, Idle
    <3> QED BY <3>2, <3>3, EmitSame
  <2> QED BY <2>1, <2>2, <2>3, <2>4, <2>5, <2>6
<1> QED BY <1>1, <1>2

\* Every event that was sent is kept as a breadcrumb with the message and the
\* level it was sent with, unless its capture has yet to return.
THEOREM EmittedAreRemembered == Spec => []EmittedIsRemembered
<1>1. Init => EmitInv
  BY EmitInit
<1>2. Types /\ InitialisedInv /\ EmitInv /\ [Next]_vars => EmitInv'
  BY EmitStep
<1>3. EmitInv => EmittedIsRemembered
  BY DEF EmitInv, Remembering, Remembered, EmittedIsRemembered
<1> QED BY <1>1, <1>2, <1>3, TypesHold, LatestHolds, PTL DEF Spec

-----------------------------------------------------------------------------
(***************************************************************************)
(* Events are sent with a release and an environment.                      *)
(***************************************************************************)
\* Every call of init gives both and the application never clears one.
Configured ==
  /\ "" \notin Values /\ "" \notin Releases
  /\ \A o \in Options : o.release # "" /\ o.environment # ""

IsSet == m_release # "" /\ m_tags["environment"] # ""
Configuring(t) == pc[t] \in {"release", "environment"}

\* Both are set once no init is under way, and stay set; init under way has
\* its options, and has set the release when it comes to the environment.
ConfigInv ==
  /\ m_initialised /\ (\A t \in Threads : ~Configuring(t)) => IsSet
  /\ \A t \in Threads :
       /\ Configuring(t) => frame[t].options \in Options
       /\ pc[t] = "environment" => m_release # ""
       /\ pc[t] \in {"limit", "breadcrumbs", "count", "copy", "apply"} /\ ~frame[t].early => IsSet
       /\ pc[t] = "send" /\ ~frame[t].early =>
            frame[t].payload.release # "" /\ frame[t].payload.tags["environment"] # ""

\* Nothing is initialised at first.
LEMMA ConfigInit == Init => ConfigInv
<1> SUFFICES ASSUME Init PROVE ConfigInv
  OBVIOUS
<1>1. ~m_initialised /\ \A t \in Threads : pc[t] = "idle"
  BY DEF Init
<1> QED BY <1>1 DEF ConfigInv, Configuring

\* What is set stays set.
LEMMA SetStays ==
  ASSUME Types, Configured, NEW k \in Keys, NEW v, v # "", m_tags["environment"] # ""
  PROVE  setValueMap(m_tags, k, v)["environment"] # ""
<1>1. m_tags \in [Keys -> Value] /\ "environment" \in Keys
  BY HubAssumption DEF Types, ScopeTypes
<1> QED BY <1>1 DEF setValueMap

\* A step that leaves the calls of every thread but the one whose step it is,
\* what is set stays set, and the thread itself is accounted for.
LEMMA ConfigSame ==
  ASSUME ConfigInv, NEW t \in Threads,
         \A u \in Threads \ {t} : pc'[u] = pc[u] /\ frame'[u] = frame[u],
         m_release # "" => m_release' # "",
         m_tags["environment"] # "" => m_tags'["environment"] # "",
         m_initialised' /\ (\A u \in Threads : ~Configuring(u)') => IsSet',
         Configuring(t)' => frame'[t].options \in Options,
         pc'[t] = "environment" => m_release' # "",
         pc'[t] \in {"limit", "breadcrumbs", "count", "copy", "apply"} /\ ~frame'[t].early => IsSet',
         pc'[t] = "send" /\ ~frame'[t].early =>
           frame'[t].payload.release # "" /\ frame'[t].payload.tags["environment"] # ""
  PROVE  ConfigInv'
<1> SUFFICES ASSUME NEW u \in Threads
    PROVE /\ Configuring(u)' => frame'[u].options \in Options
          /\ pc'[u] = "environment" => m_release' # ""
          /\ pc'[u] \in {"limit", "breadcrumbs", "count", "copy", "apply"} /\ ~frame'[u].early => IsSet'
          /\ pc'[u] = "send" /\ ~frame'[u].early =>
               frame'[u].payload.release # "" /\ frame'[u].payload.tags["environment"] # ""
  BY DEF ConfigInv
<1>1. CASE u = t
  BY <1>1
<1>2. CASE u # t
  <2>1. pc'[u] = pc[u] /\ frame'[u] = frame[u]
    BY <1>2
  <2>2. IsSet => IsSet'
    BY DEF IsSet
  <2>3. /\ Configuring(u) => frame[u].options \in Options
        /\ pc[u] = "environment" => m_release # ""
        /\ pc[u] \in {"limit", "breadcrumbs", "count", "copy", "apply"} /\ ~frame[u].early => IsSet
        /\ pc[u] = "send" /\ ~frame[u].early =>
             frame[u].payload.release # "" /\ frame[u].payload.tags["environment"] # ""
    BY DEF ConfigInv
  <2> QED BY <2>1, <2>2, <2>3 DEF Configuring
<1> QED BY <1>1, <1>2

\* A step that changes neither what is set nor m_initialised, of a thread that
\* is not in init.
LEMMA ConfigApart ==
  ASSUME ConfigInv, NEW t \in Threads,
         UNCHANGED <<m_release, m_tags, m_initialised>>,
         \A u \in Threads \ {t} : pc'[u] = pc[u] /\ frame'[u] = frame[u],
         ~Configuring(t), ~Configuring(t)',
         pc'[t] \in {"limit", "breadcrumbs", "count", "copy", "apply"} /\ ~frame'[t].early => IsSet,
         pc'[t] = "send" /\ ~frame'[t].early =>
           frame'[t].payload.release # "" /\ frame'[t].payload.tags["environment"] # ""
  PROVE  ConfigInv'
<1>1. IsSet' <=> IsSet
  BY DEF IsSet
<1>2. (\A u \in Threads : ~Configuring(u)') => (\A u \in Threads : ~Configuring(u))
  BY DEF Configuring
<1>3. m_initialised' /\ (\A u \in Threads : ~Configuring(u)') => IsSet'
  BY <1>1, <1>2 DEF ConfigInv
<1>4. pc'[t] # "environment"
  BY DEF Configuring
<1> QED BY <1>1, <1>3, <1>4, ConfigSame

\* The steps of calls that are under way keep ConfigInv.
LEMMA ConfigCall ==
  ASSUME Types, Configured, ConfigInv, NEW t \in Threads, CallStep(t)
  PROVE  ConfigInv'
<1>0. pc \in [Threads -> PC] /\ frame \in [Threads -> Frame] /\ m_initialised' = m_initialised
  BY SteadySteps DEF Types, CallTypes, Steady
<1>1. \A u \in Threads \ {t} : pc'[u] = pc[u] /\ frame'[u] = frame[u]
  BY SteadySteps
<1>2. CASE initRelease(t)
  <2>1. /\ pc[t] = "release" /\ pc'[t] = "environment" /\ frame' = frame
        /\ m_release' = Given(m_release, frame[t].options.release) /\ m_tags' = m_tags
    BY <1>0, <1>2 DEF initRelease
  <2>2. frame[t].options \in Options
    BY <2>1 DEF ConfigInv, Configuring
  <2>3. m_release' # ""
    BY <2>1, <2>2 DEF Given, Configured
  <2>4. Configuring(t)'
    BY <2>1 DEF Configuring
  <2> QED BY <1>1, <2>1, <2>2, <2>3, <2>4, ConfigSame
<1>3. CASE initEnvironment(t)
  <2>1. /\ pc[t] = "environment" /\ pc'[t] = "idle"
        /\ m_tags' = IF frame[t].options.environment # ""
                     THEN setValueMap(m_tags, "environment", frame[t].options.environment)
                     ELSE m_tags
        /\ m_release' = m_release
    BY <1>0, <1>3 DEF initEnvironment, Return
  <2>2. frame[t].options \in Options /\ m_release # ""
    BY <2>1 DEF ConfigInv, Configuring
  <2>3. frame[t].options.environment # ""
    BY <2>2 DEF Configured
  <2>4. m_tags'["environment"] # ""
    BY <2>1, <2>3, HubAssumption DEF setValueMap, Types, ScopeTypes
  <2>5. IsSet'
    BY <2>1, <2>2, <2>4 DEF IsSet
  <2>6. ~Configuring(t)' /\ pc'[t] \notin {"limit", "breadcrumbs", "count", "copy", "apply", "send"}
    BY <2>1 DEF Configuring
  <2> QED BY <1>1, <2>1, <2>2, <2>4, <2>5, <2>6, ConfigSame
<1>4. CASE checkIfEventTooOften(t)
  <2>1. UNCHANGED <<m_release, m_tags>> /\ pc[t] = "limit"
    BY <1>4 DEF checkIfEventTooOften, scopeVars
  <2>2. pc'[t] = "idle" \/ (pc'[t] = "breadcrumbs" /\ frame' = frame)
    BY <1>0, <1>4, CheckSteps DEF Return
  <2>3. ~frame[t].early => IsSet
    BY <2>1 DEF ConfigInv
  <2>4. ~Configuring(t) /\ ~Configuring(t)' /\ pc'[t] # "send"
    BY <2>1, <2>2 DEF Configuring
  <2>5. pc'[t] \in {"limit", "breadcrumbs", "count", "copy", "apply"} /\ ~frame'[t].early => IsSet
    BY <2>2, <2>3
  <2> QED BY <1>0, <1>1, <2>1, <2>4, <2>5, ConfigApart
<1>5. CASE beginBreadcrumbs(t) \/ countBreadcrumbs(t) \/ applyBreadcrumbs(t)
  <2>1. /\ UNCHANGED <<m_release, m_tags>>
        /\ pc[t] \in {"breadcrumbs", "count", "copy"} /\ pc'[t] \in {"count", "copy", "apply"}
    BY <1>0, <1>5 DEF beginBreadcrumbs, countBreadcrumbs, applyBreadcrumbs, scopeVars
  <2>2. frame'[t].early = frame[t].early
    BY <1>0, <1>5, CopiedPayload, PayloadFrame DEF beginBreadcrumbs, countBreadcrumbs
  <2>3. ~frame[t].early => IsSet
    BY <2>1 DEF ConfigInv
  <2>4. ~Configuring(t) /\ ~Configuring(t)' /\ pc'[t] # "send"
    BY <2>1 DEF Configuring
  <2> QED BY <1>0, <1>1, <2>1, <2>2, <2>3, <2>4, ConfigApart
<1>6. CASE applyToEvent(t)
  <2>1. UNCHANGED <<m_release, m_tags>> /\ pc[t] = "apply" /\ pc'[t] = "send"
    BY <1>0, <1>6 DEF applyToEvent, scopeVars
  <2>2. PICK p \in Payload : /\ frame' = [frame EXCEPT ![t].payload = p]
                             /\ p.tags = m_tags /\ p.release = m_release
    BY <1>6, AppliedPayload
  <2>3. frame'[t].payload = p /\ frame'[t].early = frame[t].early
    BY <1>0, <2>2, PayloadFrame
  <2>4. ~frame[t].early => IsSet
    BY <2>1 DEF ConfigInv
  <2>5. ~frame'[t].early =>
          frame'[t].payload.release # "" /\ frame'[t].payload.tags["environment"] # ""
    BY <2>2, <2>3, <2>4 DEF IsSet
  <2>6. ~Configuring(t) /\ ~Configuring(t)'
    BY <2>1 DEF Configuring
  <2> QED BY <1>0, <1>1, <2>1, <2>5, <2>6, ConfigApart
<1>7. CASE sendEvent(t)
  <2>1. UNCHANGED <<m_release, m_tags>> /\ pc[t] = "send" /\ pc'[t] = "crumb"
    BY <1>0, <1>7 DEF sendEvent, scopeVars
  <2>2. ~Configuring(t) /\ ~Configuring(t)'
    BY <2>1 DEF Configuring
  <2> QED BY <1>0, <1>1, <2>1, <2>2, ConfigApart
<1> QED BY <1>2, <1>3, <1>4, <1>5, <1>6, <1>7 DEF CallStep

\* ConfigInv is preserved by every step.
LEMMA ConfigStep ==
  ASSUME Configured
  PROVE  Types /\ InitialisedInv /\ ConfigInv /\ [Next]_vars => ConfigInv'
<1> SUFFICES ASSUME Types, InitialisedInv, ConfigInv, [Next]_vars PROVE ConfigInv'
  OBVIOUS
<1>1. CASE UNCHANGED vars
  BY <1>1 DEF vars, hubVars, scopeVars, ConfigInv, Configuring, IsSet
<1>2. CASE Next
  <2>1. PICK t \in Threads : \/ \E o \in Options : init(t, o)
                             \/ \E e \in Events : Adding(t, e)
                             \/ CallStep(t)
                             \/ SettingStep(t)
                             \/ \E e \in Events : captureEvent(t, e)
    BY <1>2, StepKinds
  <2>2. CASE \E o \in Options : init(t, o)
    <3>1. PICK o \in Options : init(t, o)
      BY <2>2
    <3>2. /\ UNCHANGED <<m_release, m_tags>> /\ pc[t] = "idle"
          /\ \A u \in Threads \ {t} : pc'[u] = pc[u] /\ frame'[u] = frame[u]
      BY <3>1, InitFlags
    <3>3. CASE o.goodDsn
      <4>1. pc'[t] = "release" /\ frame'[t] = [frame[t] EXCEPT !.options = o]
        BY <3>1, <3>3, InitFlags
      <4>2. frame'[t].options = o
        BY <4>1 DEF Types, CallTypes, Frame
      <4>3. Configuring(t)' /\ pc'[t] \notin {"environment", "limit", "breadcrumbs", "count",
                                              "copy", "apply", "send"}
        BY <4>1 DEF Configuring
      <4> QED BY <3>2, <4>2, <4>3, ConfigSame
    <3>4. CASE ~o.goodDsn
      <4>1. pc' = pc /\ frame' = frame /\ (m_initialised' <=> m_initialised)
        BY <3>1, <3>4, InitFlags
      <4> QED BY <3>2, <4>1 DEF ConfigInv, Configuring, IsSet
    <3> QED BY <3>3, <3>4
  <2>3. CASE \E e \in Events : Adding(t, e)
    <3>1. PICK e \in Events : Adding(t, e)
      BY <2>3
    <3>2. /\ UNCHANGED <<m_release, m_tags, m_initialised>>
          /\ \A u \in Threads \ {t} : pc'[u] = pc[u] /\ frame'[u] = frame[u]
      BY <3>1 DEF Adding, hubVars
    <3>3. CASE UNCHANGED <<pc, frame>>
      BY <3>2, <3>3 DEF ConfigInv, Configuring, IsSet
    <3>4. CASE pc[t] = "crumb" /\ pc'[t] = "idle"
      <4>1. ~Configuring(t) /\ ~Configuring(t)'
        BY <3>4 DEF Configuring
      <4> QED BY <3>2, <3>4, <4>1, ConfigApart
    <3> QED BY <3>1, <3>3, <3>4 DEF Adding
  <2>4. CASE CallStep(t)
    BY <2>4, ConfigCall
  <2>5. CASE SettingStep(t)
    <3>1. UNCHANGED <<pc, frame, m_initialised>> /\ pc[t] = "idle"
      BY <2>5 DEF SettingStep, setTag, setExtra, setRelease, hubVars, Ready, Idle
    <3>2. m_release # "" => m_release' # ""
      BY <2>5 DEF SettingStep, setTag, setExtra, setRelease, Configured
    <3>3. m_tags["environment"] # "" => m_tags'["environment"] # ""
      <4>1. m_tags' = m_tags \/ \E k \in Keys, v \in Values : m_tags' = setValueMap(m_tags, k, v)
        BY <2>5 DEF SettingStep, setTag, setExtra, setRelease
      <4> QED BY <4>1, SetStays DEF Configured
    <3>4. IsSet => IsSet'
      BY <3>2, <3>3 DEF IsSet
    <3> QED BY <3>1, <3>2, <3>4 DEF ConfigInv, Configuring
  <2>6. CASE \E e \in Events : captureEvent(t, e)
    <3>1. PICK e \in Events : captureEvent(t, e)
      BY <2>6
    <3>2. /\ UNCHANGED <<m_release, m_tags, m_initialised>> /\ m_initialised /\ pc[t] = "idle"
      BY <3>1 DEF captureEvent, hubVars, scopeVars, Ready, Idle
    <3>3. /\ frame'[t].early = \E u \in Threads : pc[u] \in {"release", "environment"}
          /\ \A u \in Threads \ {t} : pc'[u] = pc[u] /\ frame'[u] = frame[u]
          /\ pc'[t] \in {"limit", "breadcrumbs"}
      BY <3>1, CaptureFrame
    <3>4. ~frame'[t].early => IsSet
      BY <3>2, <3>3 DEF ConfigInv, Configuring
    <3>5. ~Configuring(t) /\ ~Configuring(t)' /\ pc'[t] # "send"
      BY <3>2, <3>3 DEF Configuring
    <3> QED BY <3>2, <3>3, <3>4, <3>5, ConfigApart
  <2> QED BY <2>1, <2>2, <2>3, <2>4, <2>5, <2>6
<1> QED BY <1>1, <1>2

\* If every call of init gives a release and an environment, and the
\* application never clears one, an event is sent without them only if its
\* capture began while init, which sets m_initialised first, was under way.
THEOREM EventsAreConfigured == ASSUME Configured PROVE Spec => []ConfiguredAfterInit
<1>1. Init => ConfigInv
  BY ConfigInit
<1>2. Types /\ InitialisedInv /\ ConfigInv /\ [Next]_vars => ConfigInv'
  BY ConfigStep
<1>3. ConfigInv => ConfiguredAfterInit
  BY DEF ConfigInv, ConfiguredAfterInit
<1> QED BY <1>1, <1>2, <1>3, TypesHold, LatestHolds, PTL DEF Spec
=============================================================================
