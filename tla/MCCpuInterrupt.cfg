SPECIFICATION FairSpec
CONSTANTS
  OpClocks = {3}
  Masks <- MCMasks
  Timers = {1}
  MaxTimer = 1
  Prescaler = 2
  BitClocks = 2
  Bits = 2
  Stacked = {"L1"}
  MaxDepth = 2
INVARIANTS
  TypeOK
  InterruptsDoNotShow
  HltIsLeft
  HandlersDoNotNest
  ProgramProgresses
PROPERTIES
  TimerRuns
  HaltEnds
