CONSTANTS
  Sizes = {28, 29, 58, 1000}
  MaxLive = 3
  Limit = 1000
  WordMod = 100000
  MaxCalls = 5
SPECIFICATION Spec
INVARIANTS
  TypeOK
  LiveBlocksApart
  FreesAccepted
  OnStoredValues
PROPERTY DataKept
CHECK_DEADLOCK FALSE
