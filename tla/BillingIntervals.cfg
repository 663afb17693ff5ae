SPECIFICATION Spec
CONSTANTS
  Worker = worker
  Closer = closer
  NoCache = NoCache
  NoElement = NoElement
  NoEvent = NoEvent
  NoKey = NoKey
  Callers = {t1}
  Keys = {k1}
  Events = {e1, e2}
  Caches = {c1, c2, c3}
  FlushInterval = 1
  MinimumCount = 3
  MaxElapsed = 3
  SwapMayFail = FALSE
  SendMayFail = FALSE
  WorkerMayFail = FALSE
SYMMETRY Symmetry
PROPERTIES
  TakenWhenConfigured
