SPECIFICATION Spec
CONSTANTS
  Grants = {0, 1, 3}
  MaxContexts = 4
  MaxChunks = 2
  ServerMayFail = TRUE
  BillingMayFail = TRUE
  CipherMayFail = TRUE
  AllocMayFail = TRUE
INVARIANTS
  TypeOK
  UsesWithinGrant
  FinishedIsBilled
  ContextOwned
  InOrder
