------------------------------- MODULE MCHub -------------------------------
(* Instances of Hub for TLC. *)
EXTENDS Hub, TLC

Symmetry == Permutations(Threads)

Option(good, max, rate) ==
  [goodDsn |-> good, maxBreadcrumbs |-> max, sampleRate |-> rate,
   release |-> "1.0", environment |-> "test"]

\* Calls of init: with a limit that uint16_t wraps to 2, and with a lower limit
\* and a DSN that does not parse, before the other or after it.
WrapOrBad == {Option(TRUE, 65538, 50), Option(FALSE, 1, 0)}

TestKeys == {"environment"}
TestValue == {"test"}
TestRelease == {"1.0"}

\* An event that log captures, one that it keeps as a breadcrumb, and one with
\* neither message nor level.
TestEvents == {[message |-> "m1", level |-> "error"], [message |-> "", level |-> "info"],
               [message |-> "", level |-> ""]}
=============================================================================
