CONSTANTS
  Messages = {m1}
  Threads = {t1}
  NoMessage = NoMessage
  MaxEventsPerInterval = 2
  RepetitionInterval = 3
  Skews <- NoSkew
  MaxTime = 6
  MaxAccepted = 6
SPECIFICATION PromptSpec
INVARIANTS
  MaxPerInterval
CHECK_DEADLOCK FALSE
