CONSTANTS
  Blocks <- RaceBlocks
  Genesis = 1
  NoBlock = 0
  Parent <- RaceParent
  Height <- RaceHeight
  Work <- RaceWork
  Anc <- RaceAnc
  Valid <- RaceBlocks
  Peers <- ThreePeers
  Steady <- Two
  ChainOf <- RaceEnds
  Address <- Addresses
  Period = 6
  Claims = {6, 8}
  MaxForkDepth = 4
  MaxBranch = 6
  MaxMoves = 1
  MaxFailures = 1
  MaxDeferrals = 1
SPECIFICATION FairSpec
INVARIANTS
  FoundIsHighest
  SearchIsLogarithmic
PROPERTIES
  BeyondIsBeyond
  SyncedIsPrefix
  IntakeCompletes
  HeaviestAdopted
