SPECIFICATION FairSpec
CONSTANTS
  HostInputs <- MCHostInputs
  Unused = {"9"}
  Delay = 3
  Step = 2
  StartUp = 2
INVARIANTS
  TypeOK
  KeysAreHeld
PROPERTIES
  OverlayMutesPad
  MachineFollowsHost
