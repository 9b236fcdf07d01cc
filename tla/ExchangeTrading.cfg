SPECIFICATION ExchangeSpec
CONSTANTS
  alice = alice
  bob = bob
  hub = hub
  oax = oax
  weth = weth
  Scale = 10000
  Wallets <- Everyone
  Assets <- Market
  Operator = hub
  FeeAsset = oax
  FeeAmount = 1
  Approvals <- EveryApproval
  Joiners <- None
  Requests <- RequestsMade
  OrderOf <- WithRetry
  Deposits <- Funds
  Cancellable <- Orders
  Asked <- None
  Queries <- OaxOfAlice
  MaxRound = 0
  MaxCrashes = 1
INVARIANTS LocksAccounted CacheNeverAbove  
CHECK_DEADLOCK FALSE
