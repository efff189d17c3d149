CONSTANTS
  Pins = 3
  FirmwareRows <- MCRows
  Machines <- MCMachines
SPECIFICATION Spec
INVARIANTS
  TypeOK
  TimerIsRouted
  NoStrayInterrupts
CHECK_DEADLOCK FALSE
