CONSTANTS
  Txs <- FundTxs
  NoTx = "none"
  Coins <- FundCoins
  Inputs <- FundInputs
  Makes <- FundMakes
  Id <- FundId
  Rate <- FundRate
  Strangers = {}
  MaxPool = 2
  MaxQueue = 1
  MaxRetries = 1
  MaxBlocks = 1
  MaxReorgs = 0
  MaxRestarts = 0
  Threads = {t1}
  Funding <- Fundings
  MaxReleases = 0
  Pays <- FundTxs
  MinConf = 2
  MaxTrouble = 1
SPECIFICATION Spec
CHECK_DEADLOCK FALSE
PROPERTIES
  ReplayObserved
