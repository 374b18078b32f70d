SPECIFICATION Spec
CONSTANTS
  Cells <- MyCells
  Vars <- MyVars
  Records = {"E"}
  Fields = {"f", "g"}
  MaxInputs = 4
INVARIANTS CapturedAfterSuccess UsableUnlessRetyped
PROPERTY OutputReaches
CHECK_DEADLOCK FALSE
