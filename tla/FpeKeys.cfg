SPECIFICATION Spec
CONSTANTS
  MaxKey = 2
  Duration = 1
  MaxTime = 3
  FaultsHappen = TRUE
INVARIANTS
  TypeOK
  NumbersNameKeys
  CurrentWithinDuration
  DeliveredIsBilled
  SearchComplete
