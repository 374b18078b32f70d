SPECIFICATION StatementsSpec
CONSTANTS
  BadJq = {"nonsense"}
  Lower <- MCLower
  Tables <- MCTables
  Dblinks <- MCDblinks
INVARIANT EmptyBlocksRead
CHECK_DEADLOCK FALSE
