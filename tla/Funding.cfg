CONSTANTS
  Txs <- FundTxs
  NoTx = "none"
  Coins <- FundCoins
  Inputs <- FundInputs
  Makes <- FundMakes
  Id <- FundId
  Rate <- FundRate
  Strangers = {}
  MaxPool = 2
  MaxQueue = 1
  MaxRetries = 0
  MaxBlocks = 2
  MaxReorgs = 2
  MaxRestarts = 1
  Threads = {t1, t2}
  Funding <- Fundings
  MaxReleases = 1
  Pays <- FundTxs
  MinConf = 2
  MaxTrouble = 2
SPECIFICATION Spec
SYMMETRY Reorder
CHECK_DEADLOCK FALSE
INVARIANTS
  ReservedForPrepared
  OneFunding
  EvidenceTrue
  NoFalseReorg
