SPECIFICATION FairSpec
CONSTANTS
  Lines <- TwoLines
  Flow <- LoopFlow
  Exits <- LoopExits
  Inputs <- LiveInputs
  MaxCmds = 3
  MaxFaults = 1
PROPERTIES
  EofEndsProcess
  EveryLineAnswered
