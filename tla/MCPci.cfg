CONSTANTS
  Machines <- MCMachines
  Requests <- MCRequests
SPECIFICATION Spec
INVARIANTS
  FindsFirst
  ReadsAreTheDevices
PROPERTY LocateEnds
CHECK_DEADLOCK FALSE
