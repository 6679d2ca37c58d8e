CONSTANTS
  t1 = t1
  t2 = t2
  w = w
  segv = segv
  abrt = abrt
  x1 = x1
  x2 = x2
  xw = xw
  e1 = e1
  r1 = r1
  r2 = r2
  r3 = r3
  r4 = r4
  r5 = r5
  App = {t1, t2}
  Main = t1
  WorkerThread = w
  Signals = {segv, abrt}
  SIGABRT = abrt
  SIGSEGV = segv
  terminate <- TwoTerminators
  Report <- TwoReports
  Nobody = Nobody
  Traces <- AllTraces
  SignalsAnywhere = FALSE
  MaxCauses = 1
  Events = {e1, r1, r2, r3, r4, r5}
  Threads <- TwoThreads
  NoEvent = NoEvent
  ReconnectTimeout = 1
  Responses <- AllResponses
SPECIFICATION CrashSpec
INVARIANTS
  CrashTypeOK
  ReportSettled
  ReportedOnce
