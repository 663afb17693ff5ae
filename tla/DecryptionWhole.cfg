SPECIFICATION Spec
CONSTANTS
  Messages = {m1, m2}
  NoMessage = NoMessage
  NoKey = NoKey
  BadVersion = {}
  BadHeader = {}
  Forged = {}
  KeyOf <- Keys
  BodyLen <- Lengths
  FixedLen = 2
  VarLen = 1
  TagLen = 2
  ServerMayFail = FALSE
  BillingMayFail = FALSE
  AllocMayFail = FALSE
  MaxSessions = 1
  m1 = m1
  m2 = m2
  m3 = m3
  m4 = m4
  m5 = m5
INVARIANTS
  WholeMessageDecrypts
