SPECIFICATION Spec
CONSTANTS
  Bytes = {4, 31, 100}
  Callers <- PatchedAndNot
  NoiseLen = 4
  ToneLen = 3
  MaxParam = 7
  Overrun = 0
  SettingsMayChange = TRUE
  StatesAreUsed = TRUE
  NULL = NULL
INVARIANTS
  TypeOK
  NoOrphanAck
  CommandIsCounted
  HeldCommandStartsClean
