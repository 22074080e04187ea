SPECIFICATION FairSpec
CHECK_DEADLOCK FALSE
CONSTANTS
  A = A
  S = S
  V = V
  Accounts <- MCAccounts
  Authority = A
  Txs <- RivalTxs
  Handlers = {h1}
  Pools = {p1}
  MaxNonceWindow = 1
  NonceSpace = 1
  MaxNonceSpace = 3
  FirstSolution = 2
  MaxPosts = 2
  MaxResults = 2
  MaxLosses = 1
  MaxEarlyTimeouts = 1
  MaxSaveFailures = 1
  MaxAbortFailures = 1
  MaxRedeliveries = 1
  MaxPoolDeaths = 1
  MaxCrashes = 0
  MaxFaults = 1
PROPERTIES
  PersistsAwaited
  MiningEnds
  MineableDecided
