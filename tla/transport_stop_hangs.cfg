CONSTANTS
  Events = {e1, e2}
  Threads = {t1}
  NoEvent = NoEvent
  ReconnectTimeout = 2
  Responses <- NumericRetryAfter
SPECIFICATION FairSpec
PROPERTIES
  StopReturns
