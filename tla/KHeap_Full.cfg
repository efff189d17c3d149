CONSTANTS
  Sizes = {300}
  MaxLive = 1
  Limit = 1300
  WordMod = 100000
  MaxCalls = 6
SPECIFICATION Spec
PROPERTY NullMeansNoMemory
CHECK_DEADLOCK FALSE
