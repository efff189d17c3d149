CONSTANTS
  Fan <- MCFan
  BootRoot <- Root
  BootMems <- MCBootMems
  PoolFrames <- Plenty
  Pools <- PlentyPools
  Requests <- Heap
SPECIFICATION Spec
INVARIANT NullStaysUnmapped
CHECK_DEADLOCK FALSE
