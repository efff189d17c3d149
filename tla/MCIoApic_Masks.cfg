CONSTANTS
  Pins = 3
  FirmwareRows <- MCRows
  Machines <- MCMachines
SPECIFICATION Spec
INVARIANT DisablesAllEntries
CHECK_DEADLOCK FALSE
