SPECIFICATION Spec
CONSTANTS
  none = none
  shut = shut
  unscanned = unscanned
  Roots <- MCRoots
  Walk <- MCWalk
  Above <- MCAbove
  Mangled <- MCMangled
  NoModule = none
  TopLines = 5
  Files <- MCFiles
  RootOf <- MCRootOf
  Texts <- MCTexts
  Disks <- MCDisks
  NotOpen = shut
  NotScanned = unscanned
  MaxInbox = 2
  MaxEvents = 3
INVARIANTS CachesAreCurrent NavigationClosesTheLoop FixesHelp GateMatchesClause
PROPERTY SaveIsJudgedFresh
CHECK_DEADLOCK FALSE
