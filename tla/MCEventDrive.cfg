SPECIFICATION FairSpec
CONSTANTS
  Lines = 3
  Rates = {50, 60}
  Clocks <- MCClocks
  OpClocks = {1, 5}
  Scale = 2
  MaxClock = 60
  NULL = NULL
INVARIANTS
  TypeOK
  NoClockLost
  CpuSharesLine
  FrameHasItsClocks
PROPERTIES
  FrameEnds
