--------------------------- MODULE EventDelivery ---------------------------
(***************************************************************************)
(* What the transport of SentryCpp promises about one captured event,      *)
(* without threads, queues, clocks or connections.  An event handed to     *)
(* sendEvent is refused or becomes pending; a pending event is attempted   *)
(* at most MaxAttempts times (the first POST and its retries), every       *)
(* attempt but the last may leave it pending, and once it is delivered or  *)
(* discarded nothing happens to it any more.                               *)
(*                                                                         *)
(* Transport is shown to implement this specification.                     *)
(***************************************************************************)
EXTENDS Naturals

CONSTANTS
  Events,       \* the events the application may capture
  MaxAttempts   \* POSTs one event may cost

VARIABLES
  status,       \* what the client owes the event
  attempts      \* POSTs made for the event so far

vars == <<status, attempts>>

Status == {"fresh", "refused", "pending", "delivered", "discarded"}

TypeOK ==
  /\ status \in [Events -> Status]
  /\ attempts \in [Events -> 0..MaxAttempts]

Init ==
  /\ status = [e \in Events |-> "fresh"]
  /\ attempts = [e \in Events |-> 0]

-----------------------------------------------------------------------------
\* sendEvent refuses the event, or queues it.
Refuse(e) ==
  /\ status[e] = "fresh"
  /\ status' = [status EXCEPT ![e] = "refused"]
  /\ UNCHANGED attempts

Accept(e) ==
  /\ status[e] = "fresh"
  /\ status' = [status EXCEPT ![e] = "pending"]
  /\ UNCHANGED attempts

\* One POST.  It settles the event, or leaves it pending while the budget
\* of attempts is not used up.
Attempt(e, result) ==
  /\ status[e] = "pending"
  /\ attempts[e] < MaxAttempts
  /\ result = "pending" => attempts[e] + 1 < MaxAttempts
  /\ attempts' = [attempts EXCEPT ![e] = @ + 1]
  /\ status' = [status EXCEPT ![e] = result]

Next ==
  \E e \in Events :
    \/ Refuse(e)
    \/ Accept(e)
    \/ \E result \in {"pending", "delivered", "discarded"} : Attempt(e, result)

Spec == Init /\ [][Next]_vars
=============================================================================
