CONSTANTS
  Conn = {c1, c2}
  MaxRequests = 2
  MaxEndpoints = 2
  Framings <- AllFramings
  MaxUnread = 3
SPECIFICATION FairSpec
INVARIANTS
  TypeOK
  AnswerIsOwn
  AtMostTwice
  ReturnsWithResult
  PoolIsClean
PROPERTIES
  ReturnsUnlessFed
CHECK_DEADLOCK FALSE
