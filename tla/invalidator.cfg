SPECIFICATION InvalidatorSpec
CONSTANTS
  Keys = {k1}
  Requests = {r1}
  MaxEntries = 1
  MaxHeight = 2
  Sessions = {s1, s2}
  Polls = {p1}
  TriggerInstalled = TRUE
SYMMETRY Symmetry
INVARIANTS
  InvalidatorTypeOK
  ListeningMeansFresh
  ListeningInv
  ListenerNeverGivenUp
PROPERTY ImplementsBlockCache
