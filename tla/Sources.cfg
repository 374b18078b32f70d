SPECIFICATION SourcesSpec
CONSTANTS
  BadJq = {"nonsense"}
  Lower <- MCLower
  Tables <- MCTables
  Dblinks <- MCDblinks
  Words <- MCWords
  Keyword <- MCKeyword
  SqlKeywords <- MCSqlKeywords
  Files <- MCFiles
INVARIANTS
  RoundTrip NothingLost ManifestComplete
  HighlightsAgree DecodesToSpans EmbeddedSqlAgrees
CHECK_DEADLOCK FALSE
