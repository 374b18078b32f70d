SPECIFICATION SessionFairSpec
CONSTANTS
  Lines <- ThreeLines
  Flow <- BlockFlow
  Exits <- BlockExits
  PellLine <- PellLines
  Inputs <- NoInputs
  MaxCmds = 0
  MaxFaults = 0
  b1 = b1
  r1 = r1
  Bps <- OneBp
  BpLine <- OneBpLine
  LocalsReqs <- OneReq
  MaxHops = 1
  MaxActions = 1
INVARIANT PausedIsPaused
PROPERTIES
  BreakpointsAreSent
  StepsSurface
  StopEndsServe
CHECK_DEADLOCK FALSE
