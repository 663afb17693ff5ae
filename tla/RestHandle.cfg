SPECIFICATION Spec
CONSTANTS
  Owner = owner
  Worker = worker
  MaxRequests = 4
  MaxEvents = 3
  MaxBody = 2
  AnswerLen = 2
  KeysAtCreation = TRUE
  FaultsHappen = TRUE
INVARIANTS
  TypeOK
  AnswerIsMine
  SentAsSigned
  BuffersOwned
