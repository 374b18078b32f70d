SPECIFICATION Spec
CONSTANTS
  Lines <- ThreeLines
  UnitOf <- TwoUnits
  Flow <- CallFlow
  Exits <- CallExits
  PellLine <- PellLines
  b1 = b1
  b2 = b2
  Bps <- TwoBps
  InitialBps <- OneBp
  BpLine <- BothInBody
  MaxHops = 1
  MaxActions = 0
INVARIANTS
  NothingLeftPending
  RemovalSticks
CHECK_DEADLOCK FALSE
