SPECIFICATION Spec
CONSTANTS
  Worker = worker
  Closer = closer
  NoCache = NoCache
  NoElement = NoElement
  NoEvent = NoEvent
  NoKey = NoKey
  Callers = {t1, t2}
  Keys = {k1, k2}
  Events = {e1, e2, e3}
  Caches = {c1, c2, c3, c4}
  FlushInterval = 2
  MinimumCount = 1
  MaxElapsed = 2
  SwapMayFail = TRUE
  SendMayFail = TRUE
  WorkerMayFail = TRUE
SYMMETRY Symmetry
INVARIANTS
  TypeOK
  Ownership
  EventsAccounted
  ClosedIsSettled
  BilledOnce
  FoundIsCurrent
PROPERTIES
  ImplementsLedger
