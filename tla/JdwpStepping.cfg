SPECIFICATION FairSpec
CONSTANTS
  Lines <- ThreeLines
  UnitOf <- TwoUnits
  Flow <- CallFlow
  Exits <- CallExits
  PellLine <- PellLines
  b1 = b1
  b2 = b2
  Bps <- OneBp
  InitialBps <- OneBp
  BpLine <- BodyBp
  MaxHops = 1
  MaxActions = 2
INVARIANT PausedUnlessEarly
PROPERTY SuspensionsEnd
CHECK_DEADLOCK FALSE
