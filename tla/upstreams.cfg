SPECIFICATION Spec
CONSTANTS
  Downloads = {d1, d2}
  Limit = 2
  Retries = 2
  Callers = {c1, c2, c3}
  MaxAttempts = 3
  Denoms = {1, 2, 3}
  Channels = {1, 2, 3}
  PageLimit = 2
  MaxAmount = 1
  MaxBlocks = 2
  MainClients = {m1, m2}
  CoreClients = {k1}
  MainUsers = {u1, u2}
  CoreUsers = {v1, v2}
INVARIANTS
  ArrivalsWithinRetries
  OneAttemptAtATime
  SupplyListedOnce
  EscrowsSummed
  NeverCrashes
PROPERTIES
  ImplementsSharedClient
  DownloadsEnd
  MainIsServed
