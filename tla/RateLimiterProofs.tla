------------------------- MODULE RateLimiterProofs -------------------------
(***************************************************************************)
(* Proofs about RateLimiter, for any number of threads and messages, any   *)
(* limit, interval and clock skews.                                        *)
(***************************************************************************)
EXTENDS RateLimiter, SequenceTheorems, FiniteSetTheorems, WellFoundedInduction, TLAPS

USE DEF ISO8601_timestamp

\* A thread inside checkIfEventTooOften has an event in its hand.
MessageInv == \A t \in Threads : pc[t] # "idle" => message[t] \in Messages

\* ListIsRecent of one message, for the proof.
Recent(entries, past) ==
  /\ Len(entries) <= MaxEventsPerInterval
  /\ Len(entries) <= Len(past)
  /\ \A i \in DOMAIN entries : entries[i] = past[Len(past) - Len(entries) + i]

\* The inductive invariant: ListIsRecent needs the types, for the lengths, and
\* MessageInv, for the message that is looked up.
IndInv == TypeOK /\ MessageInv /\ ListIsRecent

\* TypeOK alone is inductive together with MessageInv.
LEMMA TypeStep == TypeOK /\ MessageInv /\ [Next]_vars => TypeOK' /\ MessageInv'
<1> SUFFICES ASSUME TypeOK, MessageInv, [Next]_vars
             PROVE  TypeOK' /\ MessageInv'
  OBVIOUS
<1> USE RateLimiterAssumption
<1>1. ASSUME NEW t \in Threads, NEW m \in Messages, CaptureEvent(t, m)
      PROVE  TypeOK' /\ MessageInv'
  BY <1>1 DEF CaptureEvent, TypeOK, MessageInv
<1>2. ASSUME NEW t \in Threads, removeOldEventsFromList(t)
      PROVE  TypeOK' /\ MessageInv'
  <2>1. PICK erased \in SUBSET Messages :
          list' = [m \in Messages |-> IF m \in erased THEN <<>> ELSE list[m]]
    BY <1>2 DEF removeOldEventsFromList
  <2>2. list' \in [Messages -> Seq(0..MaxTime)]
    <3>1. <<>> \in Seq(0..MaxTime)
      OBVIOUS
    <3>2. \A m \in Messages : list[m] \in Seq(0..MaxTime)
      BY DEF TypeOK
    <3>3. \A m \in Messages : list'[m] \in Seq(0..MaxTime)
      BY <2>1, <3>1, <3>2, Zenon
    <3> QED BY <2>1, <3>3
  <2>3. lastErased' \in [Threads -> SUBSET Messages]
    BY <1>2, Zenon DEF removeOldEventsFromList, TypeOK
  <2> QED BY <1>2, <2>2, <2>3 DEF removeOldEventsFromList, TypeOK, MessageInv
<1>3. ASSUME NEW t \in Threads, checkIfEventTooOften(t)
      PROVE  TypeOK' /\ MessageInv'
  <2>1. message[t] \in Messages
    BY <1>3 DEF checkIfEventTooOften, MessageInv
  <2>2. list' \in [Messages -> Seq(0..MaxTime)] /\ accepted' \in [Messages -> Seq(0..MaxTime)]
    <3>1. /\ Append(list[message[t]], timestamp[t]) \in Seq(0..MaxTime)
          /\ Append(accepted[message[t]], timestamp[t]) \in Seq(0..MaxTime)
      BY <2>1 DEF TypeOK
    <3>2. CASE TooOften(message[t])
      BY <1>3, <3>2 DEF checkIfEventTooOften, TypeOK
    <3>3. CASE ~TooOften(message[t])
      <4>1. /\ list' = [list EXCEPT ![message[t]] = Append(@, timestamp[t])]
            /\ accepted' = [accepted EXCEPT ![message[t]] = Append(@, timestamp[t])]
        BY <1>3, <3>3 DEF checkIfEventTooOften
      <4> QED BY <2>1, <3>1, <4>1 DEF TypeOK
    <3> QED BY <3>2, <3>3
  <2> QED BY <1>3, <2>2 DEF checkIfEventTooOften, TypeOK, MessageInv
<1>4. CASE Tick
  BY <1>4 DEF Tick, TypeOK, MessageInv
<1>5. CASE UNCHANGED vars
  BY <1>5 DEF vars, TypeOK, MessageInv
<1> QED BY <1>1, <1>2, <1>3, <1>4, <1>5 DEF Next

\* Listing an event that was let through keeps the list recent.
LEMMA RecentAppend ==
  ASSUME NEW S, NEW entries \in Seq(S), NEW past \in Seq(S), NEW x \in S,
         Recent(entries, past), Len(entries) < MaxEventsPerInterval
  PROVE  Recent(Append(entries, x), Append(past, x))
<1> DEFINE e == Append(entries, x)
           p == Append(past, x)
<1>1. /\ Len(e) = Len(entries) + 1 /\ Len(p) = Len(past) + 1
      /\ DOMAIN e = 1..Len(e) /\ DOMAIN p = 1..Len(p)
      /\ Len(entries) \in Nat /\ Len(past) \in Nat
  OBVIOUS
<1>2. ASSUME NEW i \in DOMAIN e PROVE e[i] = p[Len(p) - Len(e) + i]
  <2>1. CASE i = Len(e)
    BY <1>1, <2>1
  <2>2. CASE i # Len(e)
    <3>1. i \in DOMAIN entries /\ Len(past) - Len(entries) + i \in 1..Len(past)
      BY <1>1, <1>2, <2>2 DEF Recent
    <3>2. entries[i] = past[Len(past) - Len(entries) + i]
      BY <3>1 DEF Recent
    <3>3. Len(p) - Len(e) + i = Len(past) - Len(entries) + i
      BY <1>1, <3>1
    <3> QED BY <3>1, <3>2, <3>3
  <2> QED BY <2>1, <2>2
<1>3. Len(e) <= MaxEventsPerInterval /\ Len(e) <= Len(p)
  BY <1>1, RateLimiterAssumption DEF Recent
<1>4. \A i \in DOMAIN e : e[i] = p[Len(p) - Len(e) + i]
  BY <1>2
<1> HIDE DEF e, p
<1>5. Recent(e, p)
  BY <1>3, <1>4 DEF Recent
<1> QED BY <1>5 DEF e, p

\* Every step keeps the list recent.
LEMMA RecentStep == IndInv /\ [Next]_vars => ListIsRecent'
<1> SUFFICES ASSUME IndInv, [Next]_vars, NEW n \in Messages
             PROVE  Recent(list'[n], accepted'[n])
  BY DEF ListIsRecent, Recent
<1>0. /\ Recent(list[n], accepted[n])
      /\ list[n] \in Seq(0..MaxTime) /\ accepted[n] \in Seq(0..MaxTime)
  BY DEF IndInv, ListIsRecent, Recent, TypeOK
<1>1. ASSUME NEW t \in Threads, NEW m \in Messages, CaptureEvent(t, m)
      PROVE  Recent(list'[n], accepted'[n])
  BY <1>0, <1>1 DEF CaptureEvent
<1>2. ASSUME NEW t \in Threads, removeOldEventsFromList(t)
      PROVE  Recent(list'[n], accepted'[n])
  <2>1. list'[n] = list[n] \/ list'[n] = <<>>
    BY <1>2 DEF removeOldEventsFromList
  <2>2. accepted' = accepted
    BY <1>2 DEF removeOldEventsFromList
  <2>3. Recent(<<>>, accepted[n])
    BY <1>0, RateLimiterAssumption DEF Recent
  <2> QED BY <1>0, <2>1, <2>2, <2>3
<1>3. ASSUME NEW t \in Threads, checkIfEventTooOften(t)
      PROVE  Recent(list'[n], accepted'[n])
  <2>1. CASE message[t] = n /\ ~TooOften(n)
    <3>1. /\ list'[n] = Append(list[n], timestamp[t])
          /\ accepted'[n] = Append(accepted[n], timestamp[t])
          /\ timestamp[t] \in 0..MaxTime
      BY <1>3, <2>1 DEF checkIfEventTooOften, IndInv, TypeOK
    <3>2. Len(list[n]) < MaxEventsPerInterval
      BY <1>0, <2>1, RateLimiterAssumption DEF TooOften
    <3> QED BY <1>0, <3>1, <3>2, RecentAppend
  <2>2. CASE ~(message[t] = n /\ ~TooOften(n))
    <3>1. list'[n] = list[n] /\ accepted'[n] = accepted[n]
      BY <1>3, <2>2 DEF checkIfEventTooOften, IndInv, TypeOK
    <3> QED BY <1>0, <3>1
  <2> QED BY <2>1, <2>2
<1>4. CASE Tick
  BY <1>0, <1>4 DEF Tick
<1>5. CASE UNCHANGED vars
  BY <1>0, <1>5 DEF vars
<1> QED BY <1>1, <1>2, <1>3, <1>4, <1>5 DEF Next

\* The list of last events never outgrows m_maxEventsPerInterval and is always
\* a tail of what was let through: checkIfEventTooOften looks and lists under
\* one lock, and removeOldEventsFromList erases a message as a whole, whatever
\* other threads do in between and whatever its traversal misses.
THEOREM ListStaysRecent == Spec => []ListIsRecent
<1>1. Init => IndInv
  BY RateLimiterAssumption DEF Init, IndInv, TypeOK, MessageInv, ListIsRecent
<1>2. IndInv /\ [Next]_vars => IndInv'
  BY TypeStep, RecentStep DEF IndInv
<1>3. IndInv => ListIsRecent
  BY DEF IndInv
<1> QED BY <1>1, <1>2, <1>3, PTL DEF Spec

\* The clock, the list and the threads' locals keep their types: in particular
\* no timestamp is ahead of MaxTime or negative.
THEOREM TypeCorrect == Spec => []TypeOK
<1>1. Init => TypeOK /\ MessageInv
  BY RateLimiterAssumption DEF Init, TypeOK, MessageInv
<1> QED BY <1>1, TypeStep, PTL DEF Spec

-----------------------------------------------------------------------------
(***************************************************************************)
(* One capturing thread and a mktime that is not confused by tm_isdst.     *)
(***************************************************************************)
Sequential == (\A t, u \in Threads : t = u) /\ Skews = {0}

\* What a thread that has removed old entries, of no message but its own, has left
\* of this one is recent, judged by its own timestamp.
FreshInv ==
  \A t \in Threads : pc[t] = "check" /\ lastErased[t] \subseteq {message[t]} =>
    \A i \in DOMAIN list[message[t]] :
      timestamp[t] - list[message[t]][i] <= RepetitionInterval

\* FreshInv is preserved by every step of a single thread.
LEMMA FreshStep ==
  Sequential /\ TypeOK /\ MessageInv /\ FreshInv /\ [Next]_vars => FreshInv'
<1> SUFFICES ASSUME Sequential, TypeOK, MessageInv, FreshInv, [Next]_vars,
                    NEW u \in Threads, pc'[u] = "check",
                    lastErased'[u] \subseteq {message'[u]},
                    NEW i \in DOMAIN list'[message'[u]]
             PROVE  timestamp'[u] - list'[message'[u]][i] <= RepetitionInterval
  BY DEF FreshInv
<1>1. ASSUME NEW t \in Threads, NEW m \in Messages, CaptureEvent(t, m)
      PROVE  timestamp'[u] - list'[message'[u]][i] <= RepetitionInterval
  <2>1. t = u
    BY DEF Sequential
  <2>2. pc'[u] = "remove"
    BY <1>1, <2>1 DEF CaptureEvent, TypeOK
  <2> QED BY <2>2
<1>2. ASSUME NEW t \in Threads, removeOldEventsFromList(t)
      PROVE  timestamp'[u] - list'[message'[u]][i] <= RepetitionInterval
  <2> DEFINE n == message[t]
  <2>1. t = u /\ message' = message /\ timestamp' = timestamp /\ n \in Messages
    BY <1>2 DEF Sequential, removeOldEventsFromList, MessageInv
  <2>2. PICK currTime \in timestamp[t]..now, erased \in SUBSET Messages :
          /\ (\E m \in Messages : MustBeOld(m, currTime)) => erased # {}
          /\ list' = [m \in Messages |-> IF m \in erased THEN <<>> ELSE list[m]]
          /\ lastErased' = [lastErased EXCEPT ![t] = erased]
    BY <1>2 DEF removeOldEventsFromList
  <2>3. erased \subseteq {n}
    BY <2>1, <2>2, Zenon DEF TypeOK
  <2>4. n \notin erased /\ list'[n] = list[n]
    BY <2>1, <2>2
  <2>5. ~MustBeOld(n, currTime)
    BY <2>1, <2>2, <2>3, <2>4
  <2>6. ~(currTime - list[n][i] + 0 > RepetitionInterval)
    BY <2>1, <2>4, <2>5 DEF MustBeOld, isTimeDiffGreaterThan, Sequential
  <2>7. list[n] \in Seq(0..MaxTime) /\ i \in DOMAIN list[n]
    BY <2>1, <2>4 DEF TypeOK
  <2>8. list[n][i] \in 0..MaxTime /\ timestamp[t] \in 0..MaxTime /\ now \in 0..MaxTime
    <3>1. list[n][i] \in 0..MaxTime
      BY <2>7, LenProperties, ElementOfSeq
    <3> QED BY <3>1 DEF TypeOK
  <2> QED BY <2>1, <2>4, <2>6, <2>8, RateLimiterAssumption
<1>3. ASSUME NEW t \in Threads, checkIfEventTooOften(t)
      PROVE  timestamp'[u] - list'[message'[u]][i] <= RepetitionInterval
  <2>1. t = u
    BY DEF Sequential
  <2>2. pc'[u] = "idle"
    BY <1>3, <2>1 DEF checkIfEventTooOften, TypeOK
  <2> QED BY <2>2
<1>4. CASE Tick
  BY <1>4 DEF Tick, FreshInv
<1>5. CASE UNCHANGED vars
  BY <1>5 DEF vars, FreshInv
<1> QED BY <1>1, <1>2, <1>3, <1>4, <1>5 DEF Next

\* When one thread captures, checkIfEventTooOften drops an event only if the
\* listed ones, as many as the limit, lie within the interval before it, or if
\* the range-for erased another message and so may not have got to this one.
THEOREM DropsAreJustified ==
  ASSUME Sequential
  PROVE  Spec => []DropIsJustified
<1>1. Init => TypeOK /\ MessageInv /\ FreshInv
  BY RateLimiterAssumption DEF Init, TypeOK, MessageInv, FreshInv
<1>2. TypeOK /\ MessageInv /\ FreshInv /\ [Next]_vars
        => (TypeOK /\ MessageInv /\ FreshInv)'
  BY TypeStep, FreshStep
<1>3. TypeOK /\ MessageInv /\ FreshInv => DropIsJustified
  BY DEF MessageInv, FreshInv, DropIsJustified
<1> QED BY <1>1, <1>2, <1>3, PTL DEF Spec

-----------------------------------------------------------------------------
(***************************************************************************)
(* How fast events of one message pass, when one thread captures.  The     *)
(* events let through fall into batches of at most the limit, one from     *)
(* each erasure to the next.  An erasure says that the interval has passed *)
(* since some event of its batch, but the event whose capture erased may   *)
(* have taken its timestamp long before: the others come after.            *)
(***************************************************************************)
\* Events of m let through that are no longer listed.
Erased(m) == Len(accepted[m]) - Len(list[m])

\* The interval lies between the events i of m, up to the n-th, and time.
Settled(m, n, time) ==
  \A i \in DOMAIN accepted[m] : i <= n => accepted[m][i] + RepetitionInterval < time

\* Timestamps are in the order in which their events passed.
OrderInv ==
  /\ \A t \in Threads : timestamp[t] <= now
  /\ \A m \in Messages :
       /\ \A i, j \in DOMAIN accepted[m] : i <= j => accepted[m][i] <= accepted[m][j]
       /\ \A i \in DOMAIN accepted[m] :
            /\ accepted[m][i] <= now
            /\ \A t \in Threads : pc[t] # "idle" => accepted[m][i] <= timestamp[t]

\* The batch before the listed one began before the interval, for the clock
\* and for an event that has not erased anything yet; for one that may have,
\* the batch before that did.
BatchInv ==
  \A m \in Messages :
    /\ Settled(m, Erased(m) - MaxEventsPerInterval + 1, now)
    /\ \A t \in Threads :
         /\ pc[t] = "remove" =>
              Settled(m, Erased(m) - MaxEventsPerInterval + 1, timestamp[t])
         /\ pc[t] = "check" =>
              Settled(m, Len(accepted[m]) - 2 * MaxEventsPerInterval + 1, timestamp[t])

\* Of twice the limit and one events in a row, the first and the last are
\* farther apart than the interval.
GapInv ==
  \A m \in Messages : \A i, j \in DOMAIN accepted[m] :
    i + 2 * MaxEventsPerInterval <= j => accepted[m][i] + RepetitionInterval < accepted[m][j]

PaceInv == OrderInv /\ BatchInv /\ GapInv

\* What the types say of one message.
LEMMA MessageTypes ==
  ASSUME TypeOK, NEW m \in Messages
  PROVE  /\ Len(accepted[m]) \in Nat /\ DOMAIN accepted[m] = 1..Len(accepted[m])
         /\ Len(list[m]) \in Nat /\ DOMAIN list[m] = 1..Len(list[m])
         /\ accepted[m] \in [1..Len(accepted[m]) -> Nat]
         /\ accepted[m] \in Seq(0..MaxTime) /\ list[m] \in Seq(0..MaxTime)
<1>1. accepted[m] \in Seq(0..MaxTime) /\ list[m] \in Seq(0..MaxTime)
  BY DEF TypeOK
<1>2. accepted[m] \in [1..Len(accepted[m]) -> Nat]
  <2>1. accepted[m] \in [1..Len(accepted[m]) -> 0..MaxTime]
    BY <1>1, LenProperties
  <2> QED BY <2>1, RateLimiterAssumption
<1> QED BY <1>1, <1>2, LenProperties

\* An event of a batch of l, the last of n, that is old: the batch began
\* before the interval.
LEMMA OldBatch ==
  ASSUME NEW n \in Nat, NEW l \in Nat, NEW max \in Nat \ {0}, NEW interval \in Nat,
         NEW a \in [1..n -> Nat], NEW k \in 1..l, NEW time \in Nat,
         \A i, j \in 1..n : i <= j => a[i] <= a[j],
         l <= n, l <= max, a[n - l + k] + interval < time
  PROVE  \A i \in 1..n : i <= n - max + 1 => a[i] + interval < time
<1>1. n - l + k \in 1..n /\ n - max + 1 <= n - l + k
  OBVIOUS
<1>2. PICK p \in 1..n : p = n - l + k
  BY <1>1
<1> QED BY <1>1, <1>2

\* A timestamp that follows in order, and not within the interval after the
\* one d events before it.
LEMMA NextInOrder ==
  ASSUME NEW n \in Nat, NEW a \in [1..n -> Nat], NEW b \in [1..(n + 1) -> Nat],
         NEW d \in Nat \ {0}, NEW interval \in Nat,
         \A i \in 1..n : b[i] = a[i],
         \A i, j \in 1..n : i <= j => a[i] <= a[j],
         \A i \in 1..n : a[i] <= b[n + 1],
         \A i, j \in 1..n : i + d <= j => a[i] + interval < a[j],
         \A i \in 1..n : i <= n - d + 1 => a[i] + interval < b[n + 1]
  PROVE  /\ \A i, j \in 1..(n + 1) : i <= j => b[i] <= b[j]
         /\ \A i, j \in 1..(n + 1) : i + d <= j => b[i] + interval < b[j]
<1>1. ASSUME NEW i \in 1..(n + 1), NEW j \in 1..(n + 1)
      PROVE  /\ i <= j => b[i] <= b[j]
             /\ i + d <= j => b[i] + interval < b[j]
  <2>1. CASE i \in 1..n /\ j \in 1..n
    BY <2>1
  <2>2. CASE i \in 1..n /\ j = n + 1
    BY <2>2
  <2>3. CASE i = n + 1 /\ j = n + 1
    BY <2>3
  <2>4. CASE i = n + 1 /\ j \in 1..n
    BY <2>4
  <2> QED BY <2>1, <2>2, <2>3, <2>4
<1> QED BY <1>1

\* PaceInv when a capture begins.
LEMMA PaceCapture ==
  ASSUME Sequential, TypeOK, PaceInv, NEW t \in Threads, NEW n \in Messages,
         CaptureEvent(t, n)
  PROVE  PaceInv'
<1>1. /\ accepted' = accepted /\ list' = list /\ now' = now /\ now \in Nat
      /\ timestamp' = [timestamp EXCEPT ![t] = now] /\ pc' = [pc EXCEPT ![t] = "remove"]
  BY DEF CaptureEvent, TypeOK
<1>2. \A u \in Threads : u = t /\ pc'[u] = "remove" /\ timestamp'[u] = now
  BY <1>1 DEF Sequential, TypeOK
<1>3. OrderInv'
  BY <1>1, <1>2 DEF PaceInv, OrderInv
<1>4. BatchInv'
  BY <1>1, <1>2 DEF PaceInv, BatchInv, Settled, Erased
<1>5. GapInv'
  BY <1>1 DEF PaceInv, GapInv
<1> QED BY <1>3, <1>4, <1>5 DEF PaceInv

\* PaceInv when old entries are removed.
LEMMA PaceRemove ==
  ASSUME Sequential, IndInv, PaceInv, NEW t \in Threads, removeOldEventsFromList(t)
  PROVE  PaceInv'
<1>1. /\ accepted' = accepted /\ now' = now /\ timestamp' = timestamp
      /\ pc[t] = "remove" /\ pc' = [pc EXCEPT ![t] = "check"]
  BY DEF removeOldEventsFromList
<1>2. \A u \in Threads : u = t /\ pc'[u] = "check"
  BY <1>1 DEF Sequential, IndInv, TypeOK
<1>3. ASSUME NEW m \in Messages
      PROVE  /\ Settled(m, Erased(m) - MaxEventsPerInterval + 1, now)'
             /\ Settled(m, Len(accepted[m]) - 2 * MaxEventsPerInterval + 1, timestamp[t])'
  <2>1. PICK n \in Nat, l \in Nat : n = Len(accepted[m]) /\ l = Len(list[m])
    BY MessageTypes DEF IndInv
  <2>2. /\ accepted[m] \in [1..n -> Nat] /\ DOMAIN accepted[m] = 1..n
        /\ DOMAIN list[m] = 1..l
    BY <2>1, MessageTypes DEF IndInv
  <2>3. l <= MaxEventsPerInterval /\ l <= n
    BY <2>1 DEF IndInv, ListIsRecent
  <2>4. Settled(m, n - 2 * MaxEventsPerInterval + 1, timestamp[t])
    <3>1. Settled(m, n - l - MaxEventsPerInterval + 1, timestamp[t])
      BY <1>1, <2>1 DEF PaceInv, BatchInv, Erased
    <3>2. \A i \in 1..n : i <= n - 2 * MaxEventsPerInterval + 1
            => i <= n - l - MaxEventsPerInterval + 1
      BY <2>3, RateLimiterAssumption
    <3> QED BY <2>2, <3>1, <3>2 DEF Settled
  <2>5. Settled(m, Len(accepted[m]) - 2 * MaxEventsPerInterval + 1, timestamp[t])'
    BY <1>1, <2>1, <2>4 DEF Settled
  <2>6. PICK currTime \in timestamp[t]..now :
          list'[m] # list[m] => list'[m] = <<>> /\ MayBeOld(m, currTime)
    BY DEF removeOldEventsFromList
  <2>7. CASE list'[m] = list[m]
    BY <1>1, <2>5, <2>7 DEF PaceInv, BatchInv, Settled, Erased
  <2>8. CASE list'[m] # list[m]
    <3>1. PICK k \in 1..l : isTimeDiffGreaterThan(list[m][k], currTime, 0)
      BY <2>2, <2>6, <2>8 DEF MayBeOld, Sequential
    <3>2. list[m][k] = accepted[m][n - l + k]
      BY <2>1, <2>2, <3>1 DEF IndInv, ListIsRecent
    <3>3. n - l + k \in 1..n
      BY <2>3, <3>1
    <3>4. PICK x \in Nat : x = accepted[m][n - l + k]
      BY <2>2, <3>3
    <3>5. now \in Nat /\ timestamp[t] \in Nat /\ currTime \in Int /\ currTime <= now
      BY <2>6 DEF IndInv, TypeOK
    <3>6. x + RepetitionInterval < now
      BY <3>1, <3>2, <3>4, <3>5, RateLimiterAssumption DEF isTimeDiffGreaterThan
    <3>7. \A i, j \in 1..n : i <= j => accepted[m][i] <= accepted[m][j]
      BY <2>2 DEF PaceInv, OrderInv
    <3>8. \A i \in 1..n : i <= n - MaxEventsPerInterval + 1
            => accepted[m][i] + RepetitionInterval < now
      BY <2>2, <2>3, <3>1, <3>4, <3>5, <3>6, <3>7, OldBatch, RateLimiterAssumption
    <3>9. Len(list'[m]) = 0 /\ accepted'[m] = accepted[m] /\ now' = now
      BY <1>1, <2>6, <2>8
    <3>10. Erased(m)' = n
      BY <2>1, <3>9 DEF Erased
    <3> QED BY <2>2, <2>5, <3>8, <3>9, <3>10 DEF Settled
  <2> QED BY <2>7, <2>8
<1>4. OrderInv'
  BY <1>1, <1>2 DEF PaceInv, OrderInv
<1>5. BatchInv'
  BY <1>2, <1>3 DEF BatchInv
<1>6. GapInv'
  BY <1>1 DEF PaceInv, GapInv
<1> QED BY <1>4, <1>5, <1>6 DEF PaceInv

\* PaceInv when an event is counted, and listed or dropped.
LEMMA PaceCheck ==
  ASSUME Sequential, IndInv, PaceInv, NEW t \in Threads, checkIfEventTooOften(t)
  PROVE  PaceInv'
<1>1. /\ now' = now /\ timestamp' = timestamp
      /\ pc[t] = "check" /\ pc' = [pc EXCEPT ![t] = "idle"]
  BY DEF checkIfEventTooOften
<1>2. \A u \in Threads : u = t /\ pc'[u] = "idle"
  BY <1>1 DEF Sequential, IndInv, TypeOK
<1>3. ASSUME NEW m \in Messages
      PROVE  \/ accepted'[m] = accepted[m] /\ list'[m] = list[m]
             \/ /\ accepted'[m] = Append(accepted[m], timestamp[t])
                /\ list'[m] = Append(list[m], timestamp[t])
  BY DEF checkIfEventTooOften, IndInv, TypeOK
<1>4. ASSUME NEW m \in Messages
      PROVE  /\ \A i, j \in DOMAIN accepted'[m] : i <= j => accepted'[m][i] <= accepted'[m][j]
             /\ \A i \in DOMAIN accepted'[m] : accepted'[m][i] <= now
             /\ \A i, j \in DOMAIN accepted'[m] : i + 2 * MaxEventsPerInterval <= j
                  => accepted'[m][i] + RepetitionInterval < accepted'[m][j]
             /\ Settled(m, Erased(m) - MaxEventsPerInterval + 1, now)'
  <2>1. CASE accepted'[m] = accepted[m] /\ list'[m] = list[m]
    BY <1>1, <2>1 DEF PaceInv, OrderInv, GapInv, BatchInv, Settled, Erased
  <2>2. CASE /\ accepted'[m] = Append(accepted[m], timestamp[t])
             /\ list'[m] = Append(list[m], timestamp[t])
    <3>1. PICK n \in Nat, l \in Nat : n = Len(accepted[m]) /\ l = Len(list[m])
      BY MessageTypes DEF IndInv
    <3>2. /\ accepted[m] \in [1..n -> Nat] /\ DOMAIN accepted[m] = 1..n
          /\ accepted[m] \in Seq(0..MaxTime) /\ list[m] \in Seq(0..MaxTime)
          /\ timestamp[t] \in 0..MaxTime /\ timestamp[t] \in Nat /\ timestamp[t] <= now
      BY <3>1, MessageTypes, RateLimiterAssumption DEF IndInv, TypeOK, PaceInv, OrderInv
    <3>3. /\ DOMAIN accepted'[m] = 1..(n + 1) /\ Len(accepted'[m]) = n + 1
          /\ \A i \in 1..n : accepted'[m][i] = accepted[m][i]
          /\ accepted'[m][n + 1] = timestamp[t]
          /\ Len(list'[m]) = l + 1
      BY <2>2, <3>1, <3>2, AppendProperties, LenProperties
    <3>4. accepted'[m] \in [1..(n + 1) -> Nat]
      <4>1. accepted'[m] \in Seq(0..MaxTime)
        BY <2>2, <3>2, AppendProperties
      <4>2. accepted'[m] \in [1..(n + 1) -> 0..MaxTime]
        BY <3>3, <4>1, LenProperties
      <4> QED BY <4>2, RateLimiterAssumption
    <3>5. /\ \A i, j \in 1..n : i <= j => accepted[m][i] <= accepted[m][j]
          /\ \A i \in 1..n : accepted[m][i] <= accepted'[m][n + 1]
          /\ \A i \in 1..n : accepted[m][i] <= now
      BY <1>1, <3>2, <3>3 DEF PaceInv, OrderInv
    <3>6. /\ \A i, j \in 1..n : i + 2 * MaxEventsPerInterval <= j
               => accepted[m][i] + RepetitionInterval < accepted[m][j]
          /\ \A i \in 1..n : i <= n - 2 * MaxEventsPerInterval + 1
               => accepted[m][i] + RepetitionInterval < accepted'[m][n + 1]
      BY <1>1, <3>1, <3>2, <3>3 DEF PaceInv, BatchInv, GapInv, Settled
    <3>7. PICK d \in Nat \ {0} : d = 2 * MaxEventsPerInterval
      BY RateLimiterAssumption
    <3>8. /\ \A i, j \in 1..(n + 1) : i <= j => accepted'[m][i] <= accepted'[m][j]
          /\ \A i, j \in 1..(n + 1) : i + d <= j
               => accepted'[m][i] + RepetitionInterval < accepted'[m][j]
      <4>1. PICK a \in [1..n -> Nat], b \in [1..(n + 1) -> Nat] :
              a = accepted[m] /\ b = accepted'[m]
        BY <3>2, <3>4
      <4>2. /\ \A i \in 1..n : b[i] = a[i]
            /\ \A i, j \in 1..n : i <= j => a[i] <= a[j]
            /\ \A i \in 1..n : a[i] <= b[n + 1]
        BY <3>3, <3>5, <4>1
      <4>3. /\ \A i, j \in 1..n : i + d <= j => a[i] + RepetitionInterval < a[j]
            /\ \A i \in 1..n : i <= n - d + 1 => a[i] + RepetitionInterval < b[n + 1]
        BY <3>6, <3>7, <4>1
      <4>4. /\ \A i, j \in 1..(n + 1) : i <= j => b[i] <= b[j]
            /\ \A i, j \in 1..(n + 1) : i + d <= j => b[i] + RepetitionInterval < b[j]
        BY <4>2, <4>3, NextInOrder, RateLimiterAssumption
      <4> QED BY <4>1, <4>4
    <3>9. ASSUME NEW i \in 1..(n + 1) PROVE accepted'[m][i] <= now
      <4>1. CASE i \in 1..n
        BY <3>3, <3>5, <4>1
      <4>2. CASE i = n + 1
        BY <3>2, <3>3, <4>2
      <4> QED BY <4>1, <4>2
    <3>10. \A i \in 1..n : i <= n - l - MaxEventsPerInterval + 1
             => accepted[m][i] + RepetitionInterval < now
      BY <3>1, <3>2 DEF PaceInv, BatchInv, Settled, Erased
    <3>11. l <= n
      BY <3>1 DEF IndInv, ListIsRecent
    <3>12. \A i \in 1..(n + 1) : i <= (n + 1) - (l + 1) - MaxEventsPerInterval + 1
             => i \in 1..n /\ i <= n - l - MaxEventsPerInterval + 1
      BY <3>11, RateLimiterAssumption
    <3>13. \A i \in 1..(n + 1) : i <= (n + 1) - (l + 1) - MaxEventsPerInterval + 1
             => accepted'[m][i] + RepetitionInterval < now
      BY <3>3, <3>10, <3>12
    <3>14. Settled(m, Erased(m) - MaxEventsPerInterval + 1, now)'
      BY <1>1, <3>3, <3>13 DEF Settled, Erased
    <3> QED BY <3>3, <3>7, <3>8, <3>9, <3>14
  <2> QED BY <1>3, <2>1, <2>2
<1>5. OrderInv'
  BY <1>1, <1>2, <1>4 DEF OrderInv, PaceInv
<1>6. BatchInv'
  BY <1>2, <1>4 DEF BatchInv
<1>7. GapInv'
  BY <1>4 DEF GapInv
<1> QED BY <1>5, <1>6, <1>7 DEF PaceInv

\* PaceInv when time passes.
LEMMA PaceTick ==
  ASSUME TypeOK, PaceInv, Tick
  PROVE  PaceInv'
<1>1. /\ accepted' = accepted /\ list' = list /\ timestamp' = timestamp /\ pc' = pc
      /\ now \in Nat /\ now' = now + 1 /\ \A t \in Threads : timestamp[t] \in Nat
  BY RateLimiterAssumption DEF Tick, TypeOK
<1>2. \A m \in Messages : \A i \in DOMAIN accepted[m] : accepted[m][i] \in Nat
  BY MessageTypes
<1>3. OrderInv'
  BY <1>1, <1>2 DEF PaceInv, OrderInv
<1>4. ASSUME NEW m \in Messages
      PROVE  Settled(m, Erased(m) - MaxEventsPerInterval + 1, now)'
  <2>1. Settled(m, Erased(m) - MaxEventsPerInterval + 1, now)
    BY DEF PaceInv, BatchInv
  <2>2. ASSUME NEW i \in DOMAIN accepted[m], accepted[m][i] + RepetitionInterval < now
        PROVE  accepted[m][i] + RepetitionInterval < now'
    BY <1>1, <1>2, <2>2, RateLimiterAssumption
  <2>3. (Erased(m) - MaxEventsPerInterval + 1)' = Erased(m) - MaxEventsPerInterval + 1
    BY <1>1 DEF Erased
  <2> QED BY <1>1, <2>1, <2>2, <2>3 DEF Settled
<1>5. ASSUME NEW m \in Messages, NEW t \in Threads
      PROVE  /\ pc'[t] = "remove" =>
                  Settled(m, Erased(m) - MaxEventsPerInterval + 1, timestamp[t])'
             /\ pc'[t] = "check" =>
                  Settled(m, Len(accepted[m]) - 2 * MaxEventsPerInterval + 1, timestamp[t])'
  BY <1>1 DEF PaceInv, BatchInv, Settled, Erased
<1>6. BatchInv'
  BY <1>4, <1>5 DEF BatchInv
<1>7. GapInv'
  BY <1>1 DEF PaceInv, GapInv
<1> QED BY <1>3, <1>6, <1>7 DEF PaceInv

\* PaceInv is preserved by every step of a single thread.
LEMMA PaceStep == Sequential /\ IndInv /\ PaceInv /\ [Next]_vars => PaceInv'
<1>1. CASE UNCHANGED vars
  BY <1>1 DEF vars, PaceInv, OrderInv, BatchInv, GapInv, Settled, Erased
<1> QED BY <1>1, PaceCapture, PaceRemove, PaceCheck, PaceTick DEF Next, IndInv

\* A set of natural numbers that lie less than d apart has at most d.
LEMMA CloseTogether ==
  ASSUME NEW S \in SUBSET Nat, NEW d \in Nat \ {0}, \A i, j \in S : j < i + d
  PROVE  Cardinality(S) <= d
<1>1. CASE S = {}
  BY <1>1, FS_EmptySet
<1>2. CASE S # {}
  <2>1. PICK least \in S : \A i \in S : ~(<<i, least>> \in OpToRel(<, Nat))
    BY <1>2, WFMin, NatLessThanWellFounded
  <2>2. ASSUME NEW i \in S PROVE least <= i
    <3>1. SUFFICES ASSUME i < least PROVE FALSE
      OBVIOUS
    <3>2. <<i, least>> \in {ss \in Nat \X Nat : ss[1] < ss[2]}
      BY <3>1
    <3>3. <<i, least>> \in OpToRel(<, Nat)
      BY <3>2, Zenon DEF OpToRel
    <3> QED BY <2>1, <3>3
  <2>3. S \subseteq least..(least + d - 1)
    BY <2>2
  <2>4. /\ IsFiniteSet(least..(least + d - 1))
        /\ Cardinality(least..(least + d - 1)) = d
    BY FS_Interval
  <2> QED BY <2>3, <2>4, FS_Subset
<1> QED BY <1>1, <1>2

\* When one thread captures, no interval sees more than twice the limit of
\* identical events, however long the thread sleeps between reading the clock,
\* removing old entries and listing its event.
THEOREM PaceIsBounded ==
  ASSUME Sequential
  PROVE  Spec => []TwiceMaxPerInterval
<1>1. Init => IndInv /\ PaceInv
  BY RateLimiterAssumption DEF Init, IndInv, TypeOK, MessageInv, ListIsRecent,
       PaceInv, OrderInv, BatchInv, GapInv, Settled
<1>2. IndInv /\ PaceInv /\ [Next]_vars => (IndInv /\ PaceInv)'
  BY TypeStep, RecentStep, PaceStep DEF IndInv
<1>3. IndInv /\ PaceInv => TwiceMaxPerInterval
  <2> SUFFICES ASSUME IndInv, PaceInv, NEW m \in Messages, NEW from \in 0..MaxTime
               PROVE  Cardinality(InWindow(m, from)) <= 2 * MaxEventsPerInterval
    BY DEF TwiceMaxPerInterval
  <2>1. InWindow(m, from) \in SUBSET Nat /\ 2 * MaxEventsPerInterval \in Nat \ {0}
    BY MessageTypes, RateLimiterAssumption DEF IndInv, InWindow
  <2>2. ASSUME NEW i \in InWindow(m, from), NEW j \in InWindow(m, from)
        PROVE  j < i + 2 * MaxEventsPerInterval
    <3>1. /\ i \in DOMAIN accepted[m] /\ j \in DOMAIN accepted[m]
          /\ accepted[m][i] \in from..(from + RepetitionInterval - 1)
          /\ accepted[m][j] \in from..(from + RepetitionInterval - 1)
      BY DEF InWindow
    <3>2. ~(accepted[m][i] + RepetitionInterval < accepted[m][j])
      BY <3>1, RateLimiterAssumption
    <3>3. ~(i + 2 * MaxEventsPerInterval <= j)
      BY <3>1, <3>2 DEF PaceInv, GapInv
    <3> QED BY <2>1, <3>3
  <2> QED BY <2>1, <2>2, CloseTogether
<1> QED BY <1>1, <1>2, <1>3, PTL DEF Spec
=============================================================================
