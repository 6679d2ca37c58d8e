--------------------------- MODULE MCRateLimiter ---------------------------
(* Instances of RateLimiter for TLC. *)
EXTENDS RateLimiter, TLC

\* Messages are interchangeable.
Symmetry == Permutations(Messages)

\* A time zone without daylight saving time.
NoSkew == {0}

\* No time passes while an event is being looked at: whatever goes wrong even
\* then is not the effect of a slow thread.
PromptSpec == Init /\ [][Next /\ (now' # now => \A t \in Threads : pc[t] = "idle")]_vars
=============================================================================
