SPECIFICATION RecencySpec
CONSTANTS
  Keys = {k1, k2, k3}
  Requests = {r1, r2, r3}
  MaxEntries = 2
  MaxHeight = 2
SYMMETRY Symmetry
INVARIANTS
  TypeOK
  CacheCoversKnownBlocks
  CoverageInv
  CacheBounded
  StatisticsAddUp
  LruOrderUnlessOverwritten
