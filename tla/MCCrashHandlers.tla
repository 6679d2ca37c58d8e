-------------------------- MODULE MCCrashHandlers --------------------------
(* Instances of CrashHandlers for TLC. *)
EXTENDS CrashHandlers

CONSTANTS t1, t2, w, segv, abrt, x1, x2, xw, e1, r1, r2, r3, r4, r5

TwoThreads == {t1, t2, segv, abrt, x1, x2, xw}
TwoTerminators == [b \in {t1, t2, w} |-> CASE b = t1 -> x1 [] b = t2 -> x2 [] b = w -> xw]
TwoReports ==
  [h \in {segv, abrt, x1, x2, xw} |->
     CASE h = segv -> r1 [] h = abrt -> r2 [] h = x1 -> r3 [] h = x2 -> r4 [] h = xw -> r5]

OneThread == {t1, segv, abrt, x1, xw}
OneTerminator == [b \in {t1, w} |-> IF b = t1 THEN x1 ELSE xw]
OneReports == [h \in {segv, abrt, x1, xw} |->
     CASE h = segv -> r1 [] h = abrt -> r2 [] h = x1 -> r3 [] h = xw -> r5]

\* Servers that do not ask for silence: stop() returns.
OkOrThrow == AllResponses \ {"too_many"}
OkOnly == {"ok"}

\* A stack trace that can always be built.
Built == {"built"}
=============================================================================
