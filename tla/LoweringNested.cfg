SPECIFICATION Spec
CONSTANTS
  Fns <- FnNames
  Def <- Functions
  Block <- Blocks
  Mains <- NestedMains
  MaxFails = 1
INVARIANT ErrorRollsBack
