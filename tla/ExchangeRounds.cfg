SPECIFICATION ExchangeFairSpec
CONSTANTS
  alice = alice
  bob = bob
  hub = hub
  oax = oax
  weth = weth
  Scale = 10000
  Wallets <- Everyone
  Assets <- Market
  Operator = hub
  FeeAsset = oax
  FeeAmount = 1
  Approvals <- EveryApproval
  Joiners <- OnlyAlice
  Requests <- RequestsMade
  OrderOf <- Crossing
  Deposits <- CrossingFunds
  Cancellable <- None
  Asked <- WithdrawTwo
  Queries <- None
  MaxRound = 4
  MaxCrashes = 0
INVARIANTS WithdrawalsBooked
PROPERTIES RoundsAreApart  EveryRequestEnds
CHECK_DEADLOCK FALSE
CONSTRAINT LaterOneOrder
