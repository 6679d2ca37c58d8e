CONSTANTS
  Messages = {m1, m2}
  Threads = {t1}
  NoMessage = NoMessage
  MaxEventsPerInterval = 2
  RepetitionInterval = 3
  Skews <- NoSkew
  MaxTime = 7
  MaxAccepted = 5
SPECIFICATION Spec
SYMMETRY Symmetry
INVARIANTS
  TypeOK
  TwiceMaxPerInterval
  DropIsJustified
  ListIsRecent
CHECK_DEADLOCK FALSE
