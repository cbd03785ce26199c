CONSTANTS
  Blocks <- TrapBlocks
  Genesis = 1
  NoBlock = 0
  Parent <- TrapParent
  Height <- TrapHeight
  Work <- TrapWork
  Anc <- TrapAnc
  Valid <- TrapValid
  Peers <- OnePeer
  Local = "local"
  NoSource = "none"
  Rank <- TrapRank
  MaxForkDepth = 3
  MaxBranch = 3
  MaxSideBlocks = 8
  MaxSideChildren = 4
  MaxPerSource = 4
  MaxPerSourceChildren = 4
  UndoRetention = 4
  MaxFaults = 1
  MaxCrashes = 2
  MaxStalePrunes = 1
  MaxUndoDeletes = 1
  SyncSaves = FALSE
  AutoReorg = TRUE
  Gates <- Armed
SPECIFICATION FairSpec
INVARIANTS
  OnlyValidConfirmed
  IdleIsClean
PROPERTIES
  LedgerImplemented
  ReorgEndsComplete
  ReorgFinishes
  StopCompletes
