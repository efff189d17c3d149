CONSTANTS
  Machines <- MCMachines
  Stray <- MCStray
SPECIFICATION Spec
INVARIANT AllCoresActive
CHECK_DEADLOCK FALSE
