SPECIFICATION MCSpec
CONSTANTS
  Requests = {r1, r2, r3}
  Documents = {d1, d2, d3}
  Misleading = {d3}
  Streamed = {d2}
  ParseCacheMax = 2
  Chunks <- SomeChunks
  Wide <- WideOnes
  Results <- SomeResults
  Nothing = Nothing
  MaxEntryBytes = 4
  HeadBytes = 2
  MaxChunks = 3
  ErrorLists <- SomeErrorLists
  Missing = Missing
  EmptyCode = EmptyCode
  MaxCodes = 3
  MaxMessage = 2
SYMMETRY Symmetry
INVARIANTS
  OneLineEach
  ErrorsReported
  ParseCacheIsLru
  KeepsResultsAsSent
  LogMeasuresWhatIsSent
  SummaryIsFaithful
