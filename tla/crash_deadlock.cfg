CONSTANTS
  t1 = t1
  t2 = t2
  w = w
  segv = segv
  abrt = abrt
  x1 = x1
  x2 = x2
  xw = xw
  e1 = e1
  r1 = r1
  r2 = r2
  r3 = r3
  r4 = r4
  r5 = r5
  App = {t1}
  Main = t1
  WorkerThread = w
  Signals = {segv, abrt}
  SIGABRT = abrt
  SIGSEGV = segv
  terminate <- OneTerminator
  Report <- OneReports
  Nobody = Nobody
  Traces <- Built
  SignalsAnywhere = TRUE
  MaxCauses = 1
  Events = {e1, r1, r2, r3, r5}
  Threads <- OneThread
  NoEvent = NoEvent
  ReconnectTimeout = 1
  Responses <- OkOnly
SPECIFICATION FairCrashSpec
PROPERTIES
  StruckIsReported
CHECK_DEADLOCK FALSE
