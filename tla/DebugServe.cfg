SPECIFICATION Spec
CONSTANTS
  Lines <- TwoLines
  Flow <- LoopFlow
  Exits <- LoopExits
  Inputs <- AllInputs
  MaxCmds = 3
  MaxFaults = 2
INVARIANTS
  DrainsIdleTarget
  LocalsAreCurrent
  BreakpointsBeforeCode
  ReportIsTrue
  TerminatedIsLast
PROPERTIES
  TargetObeys
  ImplementsProtocol
CHECK_DEADLOCK FALSE
