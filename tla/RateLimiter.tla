---------------------------- MODULE RateLimiter ----------------------------
(***************************************************************************)
(* The limit on identical events of Hub (src/hub.cpp): captureEvent drops  *)
(* an event with a message when m_listOfLastUniqueEventsWithTimestamps, a  *)
(* multimap from messages to timestamps, already holds                     *)
(* m_maxEventsPerInterval entries of that message.  Before it looks, it    *)
(* erases what is older than m_maxEventsRepetitionIntervalInSeconds.       *)
(*                                                                         *)
(* A step is a critical section of m_lastEventsListMutex: erasing and      *)
(* looking are two, and other threads run, and time passes, between them.  *)
(***************************************************************************)
EXTENDS Integers, Sequences, FiniteSets

CONSTANTS
  Messages,                \* texts of events
  Threads,                 \* threads that capture events
  NoMessage,
  MaxEventsPerInterval,    \* m_maxEventsPerInterval
  RepetitionInterval,      \* m_maxEventsRepetitionIntervalInSeconds
  Skews,                   \* errors of isTimeDiffGreaterThan, in seconds
  MaxTime, MaxAccepted     \* bounds: the clock, events let through per message

ASSUME RateLimiterAssumption ==
  /\ NoMessage \notin Messages
  /\ MaxEventsPerInterval \in Nat \ {0}
  /\ RepetitionInterval \in Nat \ {0}
  /\ Skews \subseteq Int /\ 0 \in Skews
  /\ MaxTime \in Nat /\ MaxAccepted \in Nat

VARIABLES
  now,       \* the clock, in seconds
  list,      \* the timestamps listed under each message
  pc,        \* where each thread is in checkIfEventTooOften
  message,   \* event["message"]
  timestamp  \* the timestamp captureEvent took for the event

\* History variables: no action reads them, but for the bound MaxAccepted.
VARIABLES
  accepted,  \* the timestamps of the events let through, in this order
  lastErased \* the messages that each thread's last traversal erased

vars == <<now, list, pc, message, timestamp, accepted, lastErased>>

TypeOK ==
  /\ now \in 0..MaxTime
  /\ list \in [Messages -> Seq(0..MaxTime)]
  /\ pc \in [Threads -> {"idle", "remove", "check"}]
  /\ message \in [Threads -> Messages \cup {NoMessage}]
  /\ timestamp \in [Threads -> 0..MaxTime]
  /\ accepted \in [Messages -> Seq(0..MaxTime)]
  /\ lastErased \in [Threads -> SUBSET Messages]

Init ==
  /\ now = 0
  /\ list = [m \in Messages |-> <<>>]
  /\ pc = [t \in Threads |-> "idle"]
  /\ message = [t \in Threads |-> NoMessage]
  /\ timestamp = [t \in Threads |-> 0]
  /\ accepted = [m \in Messages |-> <<>>]
  /\ lastErased = [t \in Threads |-> {}]

-----------------------------------------------------------------------------
\* Mutant of ISO8601_timestamp: localtime, behind UTC, in place of gmtime.
localTimestamp == now - RepetitionInterval

ISO8601_timestamp == now

\* captureEvent reads the clock and calls checkIfEventTooOften.
CaptureEvent(t, m) ==
  /\ pc[t] = "idle"
  /\ Len(accepted[m]) < MaxAccepted
  /\ pc' = [pc EXCEPT ![t] = "remove"]
  /\ message' = [message EXCEPT ![t] = m]
  /\ timestamp' = [timestamp EXCEPT ![t] = ISO8601_timestamp]
  /\ UNCHANGED <<now, list, accepted, lastErased>>

\* Mutants of isTimeDiffGreaterThan: diffInSeconds is not looked at; the times
\* are swapped.
isTimeDiffPositive(time1, time2, skew) == time2 - time1 + skew > 0
isTimeDiffSwapped(time1, time2, skew) == time1 - time2 + skew > RepetitionInterval

\* tm_isdst is not initialised, so that mktime may take either time for
\* daylight saving time: the difference comes out with one of the skews.
isTimeDiffGreaterThan(time1, time2, skew) == time2 - time1 + skew > RepetitionInterval

MayBeOld(m, currTime) ==
  \E i \in DOMAIN list[m], skew \in Skews : isTimeDiffGreaterThan(list[m][i], currTime, skew)
MustBeOld(m, currTime) ==
  \E i \in DOMAIN list[m] : \A skew \in Skews :
    isTimeDiffGreaterThan(list[m][i], currTime, skew)

\* One old entry erases its message with all its entries.  The loop erases
\* the element its iterator stands on: what the rest of the traversal visits
\* is undefined, so any of the later old messages may be missed.  (It may
\* crash as well; that ends the behaviour.)  currTime was read between the
\* call and the lock.
removeOldEventsFromList(t) ==
  /\ pc[t] = "remove"
  /\ \E currTime \in timestamp[t]..now :
       \E erased \in SUBSET {m \in Messages : MayBeOld(m, currTime)} :
         /\ (\E m \in Messages : MustBeOld(m, currTime)) => erased # {}
         /\ list' = [m \in Messages |-> IF m \in erased THEN <<>> ELSE list[m]]
         /\ lastErased' = [lastErased EXCEPT ![t] = erased]
  /\ pc' = [pc EXCEPT ![t] = "check"]
  /\ UNCHANGED <<now, message, timestamp, accepted>>

\* Mutant of TooOften: > in place of >=.
TooOftenByOne(m) == Len(list[m]) > MaxEventsPerInterval

TooOften(m) == Len(list[m]) >= MaxEventsPerInterval

\* The second critical section: look, and list the event if it may pass.
checkIfEventTooOften(t) ==
  /\ pc[t] = "check"
  /\ LET m == message[t] IN
     IF TooOften(m)
     THEN UNCHANGED <<list, accepted>>
     ELSE /\ list' = [list EXCEPT ![m] = Append(@, timestamp[t])]
          /\ accepted' = [accepted EXCEPT ![m] = Append(@, timestamp[t])]
  /\ pc' = [pc EXCEPT ![t] = "idle"]
  /\ message' = [message EXCEPT ![t] = NoMessage]
  /\ UNCHANGED <<now, timestamp, lastErased>>

Tick ==
  /\ now < MaxTime
  /\ now' = now + 1
  /\ UNCHANGED <<list, pc, message, timestamp, accepted, lastErased>>

Next ==
  \/ \E t \in Threads : \/ \E m \in Messages : CaptureEvent(t, m)
                        \/ removeOldEventsFromList(t)
                        \/ checkIfEventTooOften(t)
  \/ Tick

Spec == Init /\ [][Next]_vars

-----------------------------------------------------------------------------
\* The list holds the events let through last, at most the limit of them,
\* whatever the threads' interleaving: looking and listing is one critical
\* section, and what is erased is always everything that came before.
ListIsRecent ==
  \A m \in Messages :
    /\ Len(list[m]) <= MaxEventsPerInterval
    /\ Len(list[m]) <= Len(accepted[m])
    /\ \A i \in DOMAIN list[m] :
         list[m][i] = accepted[m][Len(accepted[m]) - Len(list[m]) + i]

\* The events let through with a timestamp in the interval that starts at from.
InWindow(m, from) ==
  {i \in DOMAIN accepted[m] : accepted[m][i] \in from..(from + RepetitionInterval - 1)}

\* hub.h: "send max identical 3 events per 1 hour".
MaxPerInterval ==
  \A m \in Messages, from \in 0..MaxTime :
    Cardinality(InWindow(m, from)) <= MaxEventsPerInterval

\* What the code guarantees when one thread captures: twice the limit.  An
\* old entry takes the younger ones of its message along, so that a full
\* list can be forgotten and filled again within the interval.
TwiceMaxPerInterval ==
  \A m \in Messages, from \in 0..MaxTime :
    Cardinality(InWindow(m, from)) <= 2 * MaxEventsPerInterval

\* With one thread, an event is dropped only if the limit was used up during the
\* interval before it, or if the traversal became undefined by erasing another
\* message and did not get to this one: the loop never passes over the first old
\* entry, so that a message that is alone is dropped with reason.
DropIsJustified ==
  \A t \in Threads :
    pc[t] = "check" /\ TooOften(message[t]) =>
      \/ lastErased[t] \ {message[t]} # {}
      \/ \A i \in DOMAIN list[message[t]] :
           timestamp[t] - list[message[t]][i] <= RepetitionInterval
=============================================================================
