CONSTANTS
  MemMaps <- MCMemMaps
  WordMod <- MCWordMod
SPECIFICATION Spec
INVARIANTS
  TypeOK
  FramesConserved
PROPERTIES
  NullMeansExhausted
  ZeroingSparesOwners
  ImplementsPool
