SPECIFICATION Spec
CONSTANTS
  Messages = {m1, m2, m3, m4, m5}
  NoMessage = NoMessage
  NoKey = NoKey
  BadVersion = {m3}
  BadHeader = {m4}
  Forged = {m5}
  KeyOf <- Keys
  BodyLen <- Lengths
  FixedLen = 2
  VarLen = 1
  TagLen = 2
  ServerMayFail = TRUE
  BillingMayFail = TRUE
  AllocMayFail = TRUE
  MaxSessions = 3
  m1 = m1
  m2 = m2
  m3 = m3
  m4 = m4
  m5 = m5
INVARIANTS
  TypeOK
  StreamKept
  TagHeldBack
  CutHeaderDecrypts
  DecryptedIsBilled
PROPERTIES
  AcceptedWhole
