CONSTANTS
  Fan <- MCFan
  BootRoot <- Root
  BootMems <- MCBootMems
  PoolFrames <- Scarce
  Pools <- MCPools
  Requests <- AboveRam
SPECIFICATION FairSpec
INVARIANTS
  TypeOK
  TablesFormATree
  RecursionIsShallow
  FaultMeansNoMemory
PROPERTIES
  ImplementsSpace
  MapPageReturns
CHECK_DEADLOCK FALSE
