CONSTANTS
  Blocks <- ForkBlocks
  Genesis = 1
  NoBlock = 0
  Parent <- ForkParent
  Height <- ForkHeight
  Work <- ForkWork
  Anc <- ForkAnc
  Valid <- ForkBlocks
  Peers <- OnePeer
  Local = "local"
  NoSource = "none"
  Rank <- ForkRank
  MaxForkDepth = 2
  MaxBranch = 2
  MaxSideBlocks = 8
  MaxSideChildren = 1
  MaxPerSource = 4
  MaxPerSourceChildren = 4
  UndoRetention = 4
  MaxFaults = 0
  MaxCrashes = 1
  MaxStalePrunes = 1
  MaxUndoDeletes = 1
  SyncSaves = FALSE
  AutoReorg = TRUE
  Gates <- Armed
SPECIFICATION Spec
INVARIANTS
  NeverRefused
