SPECIFICATION Spec
CONSTANTS
  Input <- In
  Output <- Out
  Passthrough <- Dash
  MinLength = 2
  MaxLength = 3
  MsbEncodingBits = 1
  MaxKey = 2
  Overrun = "overrun"
  Texts <- Short
INVARIANTS
  RoundTrip
  FormatKept
  EncryptsAll
CHECK_DEADLOCK FALSE
