SPECIFICATION Spec
CONSTANTS
  Required = {papi, sapi, srsa}
  host = host
  Profile = {default, other}
  Default = default
  NoSection = none
  MaxLines = 4
  MaxNumber = 3
SYMMETRY Parts
INVARIANTS
  FromBestSource
  NeverZero
CHECK_DEADLOCK FALSE
