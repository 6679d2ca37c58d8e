CONSTANTS
  Events = {e1, e2, e3}
  Threads = {t1, t2}
  NoEvent = NoEvent
  ReconnectTimeout = 2
  Responses <- AllResponses
SPECIFICATION FairSpec
INVARIANTS
  TypeOK
  PopFindsTask
  PostHasClient
  OnePlace
  FirstAttemptsInOrder
  SendsOnlyWhenAllowed
PROPERTIES
  NoNewWorkAfterStop
  ImplementsDelivery
  StopReturnsUnlessSilenced
  QueuedIsPosted
