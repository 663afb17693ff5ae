SPECIFICATION Spec
CONSTANTS
  Keys = {k1, k2}
  Data = {d1, d2, d3, d4}
  NoData = NoData
  NoRecord = NoRecord
  Durations <- AskedDurations
  MaxTime = 4
  CallTime = 2
  FailingAllocs = {"key", "node"}
SYMMETRY Symmetry
INVARIANTS
  TypeOK
  FreedOnce
  NoLeak
  CountCovers
PROPERTIES
  ImplementsMap
