SPECIFICATION FairSpec
CONSTANTS
  Worker = worker
  Closer = closer
  NoCache = NoCache
  NoElement = NoElement
  NoEvent = NoEvent
  NoKey = NoKey
  Callers = {t1, t2}
  Keys = {k1}
  Events = {e1, e2}
  Caches = {c1, c2, c3, c4}
  FlushInterval = 3
  MinimumCount = 1
  MaxElapsed = 1
  SwapMayFail = TRUE
  SendMayFail = TRUE
  WorkerMayFail = FALSE
PROPERTIES
  CallsReturn
  CloseCompletes
  EventsSettle
