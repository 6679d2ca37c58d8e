---------------------------- MODULE MCTransport ----------------------------
(* Instances of Transport for TLC. *)
EXTENDS Transport

\* A server that never answers 429.
NoRateLimit == {"ok", "rejected", "error"}

\* A server whose Retry-After, when it sends one, is a number of seconds.
NumericRetryAfter == {"ok", "too_many", "rejected", "error"}
=============================================================================
