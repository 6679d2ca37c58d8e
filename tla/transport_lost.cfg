CONSTANTS
  Events = {e1, e2}
  Threads = {t1}
  NoEvent = NoEvent
  ReconnectTimeout = 2
  Responses <- NoRateLimit
SPECIFICATION Spec
INVARIANTS
  KeptUntilAnswered
