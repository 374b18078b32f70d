SPECIFICATION Spec
CONSTANTS
  Fns <- FnNames
  Def <- Functions
  Block <- Blocks
  Mains <- AllMains
  MaxFails = 3
INVARIANTS
  TransactionIsAtomic
  AttemptsStartFresh
  FinallyRuns
  AutonomousIsAtomic
