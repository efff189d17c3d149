CONSTANTS
  TickMod = 16
  Sleeps = {0, 1, 3}
  MaxTicks = 7
SPECIFICATION FairSpec
INVARIANTS
  TypeOK
  OneUpdateAtATime
  TicksCounted
PROPERTIES
  SleepLasts
  SleepEnds
CHECK_DEADLOCK FALSE
