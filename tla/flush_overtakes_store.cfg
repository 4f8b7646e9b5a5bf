SPECIFICATION InvalidatorSpec
CONSTANTS
  Keys = {k1}
  Requests = {r1}
  MaxEntries = 1
  MaxHeight = 2
  Sessions = {s1}
  Polls = {}
  TriggerInstalled = TRUE
INVARIANT OvertakenEntriesCovered
