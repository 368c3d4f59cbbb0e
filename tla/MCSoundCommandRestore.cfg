SPECIFICATION Spec
CONSTANTS
  Bytes = {4, 31, 100}
  Callers <- NoPatchedCaller
  NoiseLen = 4
  ToneLen = 3
  MaxParam = 7
  Overrun = 0
  SettingsMayChange = FALSE
  StatesAreUsed = TRUE
  NULL = NULL
INVARIANTS
  DeafOnlyUntilAck
