SPECIFICATION Spec
CONSTANTS
  Rates = {5, 6}
  Size = 6
  Ticks <- MCTicks
  States = {s1, s2}
  Lengths = {2, 3, 4, 5, 6}
  SaveSize = 4
  MaxSize = 6
  Growth = 1
  MACHINE = MACHINE
INVARIANTS
  FrameTypeOK
  WriterStaysInBuffer
  PlayedIsWhole
  NotPlayedThrice
  RestoresWhatWasGiven
PROPERTIES
  BlocksAreHeard
