SPECIFICATION Spec
CHECK_DEADLOCK FALSE
CONSTANTS
  A = A
  S = S
  V = V
  Accounts <- MCAccounts
  Authority = A
  Txs <- CoreTxs
  Handlers = {h1}
  Pools = {}
  MaxNonceWindow = 1
  NonceSpace = 1
  MaxNonceSpace = 1
  FirstSolution = 0
  MaxPosts = 3
  MaxResults = 2
  MaxLosses = 1
  MaxEarlyTimeouts = 1
  MaxSaveFailures = 1
  MaxAbortFailures = 0
  MaxRedeliveries = 1
  MaxPoolDeaths = 0
  MaxCrashes = 0
  MaxFaults = 9
INVARIANTS
  ChainValid
