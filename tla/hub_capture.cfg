CONSTANTS
  Threads = {t1, t2}
  Events <- TestEvents
  Keys <- TestKeys
  Values <- TestValue
  Releases <- TestRelease
  Options <- WrapOrBad
  MaxEventsPerInterval = 1
  DefaultMaxBreadcrumbs = 2
  MaxEvents = 2
  MaxCrumbs = 3
SPECIFICATION Spec
SYMMETRY Symmetry
INVARIANTS
  TypeOK
  
  SendHasClient
  EmittedIsRemembered
  ConfiguredAfterInit
  LatestBreadcrumbs
CHECK_DEADLOCK FALSE
