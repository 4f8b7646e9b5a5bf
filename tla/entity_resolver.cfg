SPECIFICATION MCSpec
CONSTANTS
  Nodes = {n1, n2, n3}
  Rows <- AllRows
  None = None
  Reads <- SomeReads
  MaxDepth = 2
  IpfsIds = {"ipfs"}
  Mapping = "local"
  MaxCommits = 1
  Iids = {1, 2}
  Declared <- ThreeColumns
  Sorted <- ThreeSorted
  Contents = {0, 1}
  Unread = Unread
  Operations <- SomeOperations
  MaxReads = 2
  MaxUpdates = 1
  Digits = {"0", "1", "2"}
  Wholes <- SomeWholes
  Zones <- SomeZones
  Places = 6
SYMMETRY Symmetry
INVARIANTS
  InheritsFromTwoSnapshots
  GetsWhatItReads
  ExactV4Shape
