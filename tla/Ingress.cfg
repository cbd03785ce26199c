CONSTANTS
  Txs <- PoolTxs
  NoTx = "none"
  Coins <- PoolCoins
  Inputs <- PoolInputs
  Makes <- PoolMakes
  Id <- PoolId
  Rate <- PoolRate
  Strangers <- PoolTxs
  MaxPool = 2
  MaxQueue = 2
  MaxRetries = 1
  MaxBlocks = 1
  MaxReorgs = 1
  MaxRestarts = 1
SPECIFICATION MempoolSpec
CHECK_DEADLOCK FALSE
INVARIANTS
  PoolConsistent
  QueueAccounted
PROPERTIES
  Decided
