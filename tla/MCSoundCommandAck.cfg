SPECIFICATION FairSpec
CONSTANTS
  Bytes = {0, 2, 4, 31, 100, 254}
  Callers <- NoPatchedCaller
  NoiseLen = 4
  ToneLen = 3
  MaxParam = 9
  Overrun = 1
  SettingsMayChange = FALSE
  StatesAreUsed = FALSE
  NULL = NULL
INVARIANTS
  DeafOnlyUntilAck
PROPERTIES
  ListensAgain
