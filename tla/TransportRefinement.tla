------------------------ MODULE TransportRefinement ------------------------
(***************************************************************************)
(* Two results about the steps of Transport, from the inductive invariant  *)
(* of TransportProofs: stop() bounds the work that is left, and the        *)
(* transport implements EventDelivery.                                     *)
(***************************************************************************)
EXTENDS TransportProofs

USE DEF Initialised, Accepting, Enqueue, Drained, NothingToSend, Dequeue, MayRetry,
        TimeAfterError, StateAfterError

-----------------------------------------------------------------------------
(***************************************************************************)
(* The backlog after stop().                                               *)
(***************************************************************************)
Pushers == {t \in Threads : apc[t] = "push"}

LEMMA PushersFinite == IsFiniteSet(Pushers) /\ Cardinality(Pushers) \in Nat
  BY TransportAssumption, FS_Subset, FS_CardinalityType DEF Pushers

LEMMA BacklogStep ==
  ASSUME IndInv, [Next]_vars, m_shouldStop
  PROVE  /\ Backlog' <= Backlog
         /\ wpc' = "post" /\ wpc # "post" => Backlog' < Backlog
<1>a. TypeOK /\ SlotsOK /\ PopFindsTask /\ TypeOK'
  BY NextTypeInv DEF IndInv, TypeInv
<1>b. Backlog = Len(m_tasks) + Cardinality(Pushers) + (IF wpc = "retry" THEN 1 ELSE 0)
  BY DEF Backlog, Pushers
<1>c. Backlog' = Len(m_tasks') + Cardinality(Pushers') + (IF wpc' = "retry" THEN 1 ELSE 0)
  BY DEF Backlog, Pushers
<1>d. /\ Len(m_tasks) \in Nat /\ Len(m_tasks') \in Nat
      /\ Cardinality(Pushers) \in Nat
  BY <1>a, PushersFinite, LenProperties DEF TypeOK
<1>1. ASSUME UNCHANGED m_tasks, Pushers' = Pushers, wpc' # "post" \/ wpc' = wpc,
             wpc' = "retry" => wpc = "retry"
      PROVE  /\ Backlog' <= Backlog
             /\ wpc' = "post" /\ wpc # "post" => Backlog' < Backlog
  BY <1>1, <1>b, <1>c, <1>d
<1>2. CASE Start \/ SetupClient
  BY <1>1, <1>2 DEF Start, SetupClient, workerVars, threadVars, Pushers
<1>3. ASSUME NEW t \in Threads, NEW e \in Events, SendEvent(t, e)
      PROVE  /\ Backlog' <= Backlog
             /\ wpc' = "post" /\ wpc # "post" => Backlog' < Backlog
  BY <1>1, <1>3 DEF SendEvent, workerVars, Pushers
<1>4. ASSUME NEW t \in Threads, Push(t)
      PROVE  /\ Backlog' <= Backlog
             /\ wpc' = "post" /\ wpc # "post" => Backlog' < Backlog
  <2>1. Pushers' = Pushers \ {t} /\ t \in Pushers
    BY <1>4, <1>a DEF Push, Pushers, TypeOK
  <2>2. Cardinality(Pushers') = Cardinality(Pushers) - 1
    BY <2>1, PushersFinite, FS_RemoveElement
  <2>3. [event |-> arg[t], isRetrying |-> FALSE] \in Task
    BY <1>4, <1>a DEF Push, SlotsOK, Task
  <2>4. Len(m_tasks') = Len(m_tasks) + 1 /\ wpc' = wpc
    BY <1>4, <1>a, <2>3, AppendTask DEF Push, TypeOK, workerVars
  <2>5. QED
    BY <1>b, <1>c, <1>d, <2>2, <2>4
<1>5. ASSUME NEW t \in Threads, NEW w \in BOOLEAN, Stop(t, w) \/ Join(t)
      PROVE  /\ Backlog' <= Backlog
             /\ wpc' = "post" /\ wpc # "post" => Backlog' < Backlog
  <2>1. Pushers' = Pushers
    BY <1>5, <1>a DEF Stop, Join, Pushers, TypeOK
  <2>2. QED
    BY <1>1, <1>5, <2>1 DEF Stop, Join, workerVars
<1>6. CASE RunLoop \/ DrainLoop
  BY <1>1, <1>6 DEF RunLoop, DrainLoop, threadVars, Pushers
<1>7. CASE PerformNoConnection \/ PerformSendEvents \/ PerformDropEvents
  BY <1>1, <1>a, <1>7
  DEF PerformNoConnection, PerformSendEvents, PerformDropEvents, threadVars, Pushers, TypeOK
<1>8. CASE Pop
  <2>1. Len(m_tasks') = Len(m_tasks) - 1
    BY <1>8, <1>a, PopTask DEF Pop, PopFindsTask, TypeOK
  <2>2. Pushers' = Pushers /\ wpc = "pop" /\ wpc' = "post"
    BY <1>8 DEF Pop, threadVars, Pushers
  <2>3. QED
    BY <1>b, <1>c, <1>d, <2>1, <2>2
<1>9. CASE PostOk \/ PostTooManyRequests \/ PostBadRetryAfter \/ PostError
  BY <1>1, <1>a, <1>9
  DEF PostOk, PostTooManyRequests, PostBadRetryAfter, PostError, threadVars, Pushers, TypeOK
<1>10. CASE PostRejected
  BY <1>1, <1>a, <1>10 DEF PostRejected, threadVars, Pushers, TypeOK
<1>11. CASE PushRetry
  <2>1. [event |-> task.event, isRetrying |-> TRUE] \in Task
    BY <1>11, <1>a DEF PushRetry, SlotsOK, Task
  <2>2. Len(m_tasks') = Len(m_tasks) + 1
    BY <1>11, <1>a, <2>1, AppendTask DEF PushRetry, TypeOK
  <2>3. Pushers' = Pushers /\ wpc = "retry" /\ wpc' \notin {"post", "retry"}
    BY <1>11, <1>a DEF PushRetry, threadVars, Pushers, TypeOK
  <2>4. QED
    BY <1>b, <1>c, <1>d, <2>2, <2>3
<1>12. CASE Tick
  BY <1>1, <1>12 DEF Tick, threadVars, Pushers
<1>13. CASE UNCHANGED vars
  BY <1>1, <1>13 DEF vars, workerVars, threadVars, Pushers
<1>14. QED
  BY <1>2, <1>3, <1>4, <1>5, <1>6, <1>7, <1>8, <1>9, <1>10, <1>11, <1>12, <1>13
  DEF Next, Worker, Ended

\* After stop() the backlog only shrinks, by one with every request: run()'s
\* draining loop makes at most as many requests as there are tasks queued
\* or being queued when the flag is raised.
THEOREM StopBoundsWork == Spec => NoNewWorkAfterStop
<1>1. IndInv /\ [Next]_vars =>
        [m_shouldStop => /\ Backlog' <= Backlog
                         /\ wpc' = "post" /\ wpc # "post" => Backlog' < Backlog]_vars
  BY BacklogStep
<1>2. QED
  BY <1>1, Invariance, PTL DEF Spec, NoNewWorkAfterStop

-----------------------------------------------------------------------------
(***************************************************************************)
(* The refinement.                                                         *)
(***************************************************************************)
Placed(e) == InQueue(e) \/ InHand(e)

Settled == {"limited", "rejected", "lost"}

\* The refinement mapping, event by event.
LEMMA StatusOf ==
  ASSUME TypeOK
  PROVE  /\ deliveryStatus = [e \in Events |-> deliveryStatus[e]]
         /\ \A e \in Events :
              /\ outcome[e] = "none" /\ Placed(e) => deliveryStatus[e] = "pending"
              /\ outcome[e] = "none" /\ ~Placed(e) => deliveryStatus[e] = "fresh"
              /\ outcome[e] = "refused" => deliveryStatus[e] = "refused"
              /\ outcome[e] = "delivered" => deliveryStatus[e] = "delivered"
              /\ outcome[e] \in Settled => deliveryStatus[e] = "discarded"
  BY DEF deliveryStatus, Placed, Settled

\* The same after a step.
LEMMA StatusOfNext ==
  ASSUME TypeOK'
  PROVE  /\ deliveryStatus' = [e \in Events |-> deliveryStatus'[e]]
         /\ \A e \in Events :
              /\ outcome'[e] = "none" /\ Placed(e)' => deliveryStatus'[e] = "pending"
              /\ outcome'[e] = "none" /\ ~Placed(e)' => deliveryStatus'[e] = "fresh"
              /\ outcome'[e] = "refused" => deliveryStatus'[e] = "refused"
              /\ outcome'[e] = "delivered" => deliveryStatus'[e] = "delivered"
              /\ outcome'[e] \in Settled => deliveryStatus'[e] = "discarded"
  BY DEF deliveryStatus, Placed, Settled

\* A step that changes neither the outcome nor the place of an event leaves
\* what is owed to it.
LEMMA StatusKept ==
  ASSUME TypeOK, TypeOK', NEW e \in Events,
         outcome'[e] = outcome[e], Placed(e)' <=> Placed(e)
  PROVE  deliveryStatus'[e] = deliveryStatus[e]
<1>1. outcome[e] \in Outcome
  BY DEF TypeOK
<1>2. QED
  BY <1>1, StatusOf, StatusOfNext DEF Outcome, Settled

\* A step that touches only event e0.
LEMMA StatusStep ==
  ASSUME TypeOK, TypeOK', NEW e0 \in Events,
         \A e \in Events : e # e0 => outcome'[e] = outcome[e] /\ (Placed(e)' <=> Placed(e))
  PROVE  deliveryStatus' = [deliveryStatus EXCEPT ![e0] = deliveryStatus'[e0]]
<1>1. \A e \in Events : e # e0 => deliveryStatus'[e] = deliveryStatus[e]
  BY StatusKept
<1>2. QED
  BY <1>1, StatusOf, StatusOfNext

LEMMA StatusStutters ==
  ASSUME TypeOK, TypeOK', UNCHANGED outcome,
         \A e \in Events : Placed(e)' <=> Placed(e)
  PROVE  UNCHANGED deliveryStatus
<1>1. \A e \in Events : deliveryStatus'[e] = deliveryStatus[e]
  BY StatusKept
<1>2. QED
  BY <1>1, StatusOf, StatusOfNext

LEMMA InitDelivery == Init => Delivery!Init
<1> SUFFICES ASSUME Init PROVE Delivery!Init
  OBVIOUS
<1>1. TypeOK
  BY InitTypeInv DEF TypeInv
<1>2. \A e \in Events : outcome[e] = "none" /\ ~Placed(e)
  BY TransportAssumption DEF Init, Placed, InQueue, InHand, NoTask
<1>3. deliveryStatus = [e \in Events |-> "fresh"]
  BY <1>1, <1>2, StatusOf
<1>4. posts = [e \in Events |-> 0]
  BY DEF Init
<1>5. QED
  BY <1>3, <1>4 DEF Delivery!Init

\* A step that moves no task and settles nothing is a stuttering step.
LEMMA QuietDelivery ==
  ASSUME TypeOK, TypeOK', UNCHANGED <<m_tasks, task, outcome, posts>>
  PROVE  UNCHANGED Delivery!vars
<1>1. \A e \in Events : Placed(e)' <=> Placed(e)
  BY DEF Placed, InQueue, InHand
<1>2. QED
  BY <1>1, StatusStutters DEF Delivery!vars

\* A POST that settles the event in the worker's hand is an Attempt.
LEMMA SettleDelivery ==
  ASSUME IndInv, TypeOK', NEW response, NEW result \in {"delivered"} \cup Settled,
         Settle(response, result), UNCHANGED m_tasks
  PROVE  Delivery!Next
<1> DEFINE e0 == task.event
<1>1. /\ TypeOK /\ e0 \in Events /\ wpc = "post"
      /\ posts' = [posts EXCEPT ![e0] = @ + 1]
      /\ outcome' = [outcome EXCEPT ![e0] = result]
      /\ task' = NoTask
  BY DEF IndInv, TypeInv, SlotsOK, Settle, Task
<1>2. outcome[e0] = "none" /\ Placed(e0)
  BY <1>1 DEF IndInv, PlaceInv, OnePlace, InHand, Placed
<1>3. posts[e0] \in {0, 1}
  BY <1>1 DEF IndInv, AttemptInv
<1>4. \A e \in Events : e # e0 => outcome'[e] = outcome[e] /\ (Placed(e)' <=> Placed(e))
  BY <1>1, TransportAssumption DEF TypeOK, Placed, InQueue, InHand, NoTask
<1>5. deliveryStatus' = [deliveryStatus EXCEPT ![e0] = deliveryStatus'[e0]]
  BY <1>1, <1>4, StatusStep
<1>6. deliveryStatus[e0] = "pending"
  BY <1>1, <1>2, StatusOf
<1>7. outcome'[e0] = result
  BY <1>1 DEF TypeOK
<1>8. deliveryStatus'[e0] \in {"delivered", "discarded"}
  BY <1>1, <1>7, StatusOfNext
<1> HIDE DEF e0
<1>9. Delivery!Attempt(e0, deliveryStatus'[e0])
  BY <1>1, <1>3, <1>5, <1>6, <1>8 DEF Delivery!Attempt
<1>10. QED
  BY <1>1, <1>8, <1>9 DEF Delivery!Next

LEMMA NextDelivery == IndInv /\ [Next]_vars => [Delivery!Next]_(Delivery!vars)
<1> SUFFICES ASSUME IndInv, [Next]_vars
             PROVE  Delivery!Next \/ UNCHANGED Delivery!vars
  OBVIOUS
<1>a. TypeOK /\ SlotsOK /\ PopFindsTask /\ PlaceInv /\ AttemptInv /\ TypeOK'
  BY NextTypeInv DEF IndInv, TypeInv
<1>1. CASE Start \/ SetupClient
  BY <1>1, <1>a, QuietDelivery DEF Start, SetupClient, workerVars, history
<1>2. ASSUME NEW t \in Threads, NEW e0 \in Events, SendEvent(t, e0)
      PROVE  Delivery!Next \/ UNCHANGED Delivery!vars
  <2>1. outcome[e0] = "none" /\ ticket[e0] = 0 /\ UNCHANGED <<m_tasks, task, posts>>
    BY <1>2 DEF SendEvent, Fresh, workerVars
  <2>2. CASE m_shouldStop
    <3>1. outcome' = [outcome EXCEPT ![e0] = "refused"]
      BY <1>2, <2>2 DEF SendEvent
    <3>2. ~Placed(e0) /\ \A e \in Events : Placed(e)' <=> Placed(e)
      BY <1>a, <2>1 DEF PlaceInv, OnePlace, Placed, InQueue, InHand
    <3>3. \A e \in Events : e # e0 => outcome'[e] = outcome[e]
      BY <1>a, <3>1 DEF TypeOK
    <3>4. outcome'[e0] = "refused"
      BY <1>a, <3>1 DEF TypeOK
    <3>5. deliveryStatus[e0] = "fresh" /\ deliveryStatus'[e0] = "refused"
      BY <1>a, <2>1, <3>2, <3>4, StatusOf, StatusOfNext
    <3>6. deliveryStatus' = [deliveryStatus EXCEPT ![e0] = "refused"]
      BY <1>a, <3>2, <3>3, <3>5, StatusStep
    <3>7. QED
      BY <2>1, <3>5, <3>6 DEF Delivery!Next, Delivery!Refuse
  <2>3. CASE ~m_shouldStop
    BY <1>2, <1>a, <2>1, <2>3, QuietDelivery DEF SendEvent
  <2>4. QED
    BY <2>2, <2>3
<1>3. ASSUME NEW t \in Threads, Push(t)
      PROVE  Delivery!Next
  <2> DEFINE e0 == arg[t]
             x == [event |-> e0, isRetrying |-> FALSE]
  <2>1. e0 \in Events /\ outcome[e0] = "none" /\ ticket[e0] = 0
    BY <1>3, <1>a DEF Push, SlotsOK, PlaceInv
  <2>2. x \in Task /\ x.event = e0
    BY <2>1 DEF Task
  <2>3. m_tasks' = Append(m_tasks, x) /\ UNCHANGED <<task, outcome, posts>>
    BY <1>3 DEF Push, workerVars
  <2> HIDE DEF x
  <2>4. \A e \in Events : InQueue(e)' <=> InQueue(e) \/ e = e0
    BY <1>a, <2>2, <2>3, InQueueAppend
  <2>5. /\ ~Placed(e0)
        /\ \A e \in Events : Placed(e)' <=> Placed(e) \/ e = e0
    BY <1>a, <2>1, <2>3, <2>4 DEF Placed, PlaceInv, OnePlace, InHand
  <2>6. deliveryStatus[e0] = "fresh"
    BY <1>a, <2>1, <2>5, StatusOf
  <2>7. PICK e1 \in Events : e1 = e0
    BY <2>1
  <2>8. outcome'[e1] = "none" /\ Placed(e1)'
    BY <2>1, <2>3, <2>5, <2>7
  <2>9. deliveryStatus'[e1] = "pending"
    BY <1>a, <2>8, StatusOfNext
  <2>10. deliveryStatus' = [deliveryStatus EXCEPT ![e1] = "pending"]
    BY <1>a, <2>3, <2>5, <2>7, <2>9, StatusStep
  <2>11. QED
    BY <2>3, <2>6, <2>7, <2>10 DEF Delivery!Next, Delivery!Accept
<1>4. ASSUME NEW t \in Threads, NEW w \in BOOLEAN, Stop(t, w) \/ Join(t)
      PROVE  UNCHANGED Delivery!vars
  BY <1>4, <1>a, QuietDelivery DEF Stop, Join, workerVars, history
<1>5. CASE RunLoop \/ DrainLoop
  BY <1>5, <1>a, QuietDelivery DEF RunLoop, DrainLoop, history
<1>6. CASE PerformNoConnection \/ PerformSendEvents \/ PerformDropEvents
  BY <1>6, <1>a, QuietDelivery
  DEF PerformNoConnection, PerformSendEvents, PerformDropEvents, history
<1>7. CASE Pop
  <2>1. /\ m_tasks # <<>> /\ task = NoTask
        /\ task' = Head(m_tasks) /\ m_tasks' = Tail(m_tasks)
        /\ UNCHANGED <<outcome, posts>>
    BY <1>7, <1>a DEF Pop, PopFindsTask, SlotsOK
  <2>2. \A e \in Events : ~InHand(e)
    BY <2>1, TransportAssumption DEF InHand, NoTask
  <2>3. \A e \in Events : InQueue(e) <=> InQueue(e)' \/ InHand(e)'
    BY <1>a, <2>1, InQueuePop DEF InHand
  <2>4. \A e \in Events : Placed(e)' <=> Placed(e)
    BY <2>2, <2>3 DEF Placed
  <2>5. QED
    BY <1>a, <2>1, <2>4, StatusStutters DEF Delivery!vars
<1>8. CASE PostOk \/ PostTooManyRequests \/ PostBadRetryAfter \/ PostError
  BY <1>8, <1>a, SettleDelivery
  DEF PostOk, PostTooManyRequests, PostBadRetryAfter, PostError, Settled
<1>9. CASE PostRejected
  <2>1. CASE ~(~task.isRetrying /\ ~m_shouldStop)
    BY <1>9, <1>a, <2>1, SettleDelivery DEF PostRejected, Settle, Settled
  <2>2. CASE ~task.isRetrying /\ ~m_shouldStop
    <3> DEFINE e0 == task.event
    <3>1. /\ e0 \in Events /\ wpc = "post"
          /\ posts' = [posts EXCEPT ![e0] = @ + 1]
          /\ UNCHANGED <<m_tasks, task, outcome>>
      BY <1>9, <1>a, <2>2 DEF PostRejected, SlotsOK, Task
    <3>2. posts[e0] = 0
      BY <1>a, <2>2, <3>1 DEF AttemptInv
    <3>3. outcome[e0] = "none" /\ Placed(e0)
      BY <1>a, <3>1 DEF PlaceInv, OnePlace, InHand, Placed
    <3>4. deliveryStatus[e0] = "pending"
      BY <1>a, <3>1, <3>3, StatusOf
    <3>5. UNCHANGED deliveryStatus
      BY <1>a, <3>1, StatusStutters DEF Placed, InQueue, InHand
    <3>6. deliveryStatus = [deliveryStatus EXCEPT ![e0] = "pending"]
      BY <1>a, <3>1, <3>4, StatusOf
    <3> HIDE DEF e0
    <3>7. Delivery!Attempt(e0, "pending")
      BY <3>1, <3>2, <3>4, <3>5, <3>6 DEF Delivery!Attempt
    <3>8. QED
      BY <3>1, <3>7 DEF Delivery!Next
  <2>3. QED
    BY <2>1, <2>2
<1>10. CASE PushRetry
  <2> DEFINE x == [event |-> task.event, isRetrying |-> TRUE]
  <2>1. /\ task.event \in Events /\ x \in Task /\ x.event = task.event
        /\ m_tasks' = Append(m_tasks, x) /\ task' = NoTask
        /\ UNCHANGED <<outcome, posts>>
    BY <1>10, <1>a DEF PushRetry, SlotsOK, Task, history
  <2> HIDE DEF x
  <2>2. \A e \in Events : InQueue(e)' <=> InQueue(e) \/ InHand(e)
    BY <1>a, <2>1, InQueueAppend DEF InHand
  <2>3. \A e \in Events : ~InHand(e)'
    BY <2>1, TransportAssumption DEF InHand, NoTask
  <2>4. \A e \in Events : Placed(e)' <=> Placed(e)
    BY <2>2, <2>3 DEF Placed
  <2>5. QED
    BY <1>a, <2>1, <2>4, StatusStutters DEF Delivery!vars
<1>11. CASE Tick
  BY <1>11, <1>a, QuietDelivery DEF Tick
<1>12. CASE UNCHANGED vars
  BY <1>12, <1>a, QuietDelivery DEF vars, workerVars, history
<1>13. QED
  BY <1>1, <1>2, <1>3, <1>4, <1>5, <1>6, <1>7, <1>8, <1>9, <1>10, <1>11, <1>12
  DEF Next, Worker, Ended

\* The worker, its queue and its retries implement EventDelivery: every event
\* is refused, or queued and POSTed at most twice, and once it is settled
\* nothing happens to it any more.
THEOREM Refinement == Spec => ImplementsDelivery
  BY InitDelivery, NextDelivery, Invariance, PTL
  DEF Spec, ImplementsDelivery, Delivery!Spec
=============================================================================
