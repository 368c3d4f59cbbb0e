SPECIFICATION FairSpec
CONSTANTS
  HostInputs <- MCNineInputs
  Unused = {}
  Delay = 3
  Step = 2
  StartUp = 2
PROPERTIES
  MachineFollowsHost
