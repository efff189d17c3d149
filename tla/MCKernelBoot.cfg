CONSTANTS
  Machines <- MCMachines
  Stray <- MCStray
  Upsets <- MCUpsets
SPECIFICATION Spec
INVARIANTS
  TypeOK
  NeverResets
  ReportsAreTrue
  PanicIsFinal
  IncompleteMachineStops
  CompleteMachineBoots
  EachCoreInitOnce
  CountedAreStored
PROPERTIES
  CommandsDoNotMix
  BootEnds
CHECK_DEADLOCK FALSE
