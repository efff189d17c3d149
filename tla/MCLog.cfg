CONSTANTS
  IntMod = 256
  Formats <- MCFormats
  Behind <- MCBehind
SPECIFICATION Spec
INVARIANTS
  TypeOK
  PrintsWhatIsMeant
  StaysInside
CHECK_DEADLOCK FALSE
