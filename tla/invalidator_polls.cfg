SPECIFICATION FairInvalidatorSpec
CONSTANTS
  Keys = {k1}
  Requests = {r1}
  MaxEntries = 1
  MaxHeight = 2
  Sessions = {s1}
  Polls = {p1, p2}
  TriggerInstalled = FALSE
PROPERTY PollsBoundStaleness
