SPECIFICATION Spec
CONSTANTS
  Owner = owner
  Worker = worker
  MaxRequests = 3
  MaxEvents = 1
  MaxBody = 1
  AnswerLen = 1
  KeysAtCreation = FALSE
  FaultsHappen = FALSE
INVARIANTS
  AnswerIsMine
