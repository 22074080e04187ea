SPECIFICATION Spec
CHECK_DEADLOCK FALSE
CONSTANTS
  A = A
  S = S
  V = V
  Accounts <- MCAccounts
  Authority = A
  Txs <- PairTxs
  Handlers = {h1}
  Pools = {p1}
  MaxNonceWindow = 1
  NonceSpace = 1
  MaxNonceSpace = 1
  FirstSolution = 0
  MaxPosts = 2
  MaxResults = 2
  MaxLosses = 0
  MaxEarlyTimeouts = 0
  MaxSaveFailures = 0
  MaxAbortFailures = 0
  MaxRedeliveries = 0
  MaxPoolDeaths = 1
  MaxCrashes = 2
  MaxFaults = 3
INVARIANTS
  ChainValid
  NoReplay
  NonceIndexExact
PROPERTIES
  PersistsAwaited
