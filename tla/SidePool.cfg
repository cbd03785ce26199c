CONSTANTS
  Blocks <- GroveBlocks
  Genesis = 1
  NoBlock = 0
  Parent <- GroveParent
  Height <- GroveHeight
  Work <- GroveWork
  Anc <- GroveAnc
  Valid <- GroveBlocks
  Peers <- TwoPeers
  Local = "local"
  NoSource = "none"
  Rank <- GroveRank
  MaxForkDepth = 2
  MaxBranch = 2
  MaxSideBlocks = 4
  MaxSideChildren = 2
  MaxPerSource = 2
  MaxPerSourceChildren = 1
  UndoRetention = 3
  MaxFaults = 1
  MaxCrashes = 1
  MaxStalePrunes = 1
  MaxUndoDeletes = 1
  SyncSaves = FALSE
  AutoReorg = TRUE
  Gates <- EitherWay
SPECIFICATION Spec
INVARIANTS
  CountersExact
  PoolBounded
  SidesApart
  UndoWithinReach
