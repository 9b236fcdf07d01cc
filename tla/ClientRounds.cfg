SPECIFICATION ClientFairSpec
CONSTANTS
  o1 = o1
  h1 = h1
  Orders <- OneOrder
  Handlers <- OneHandler
  MaxRound = 4
  MaxDeposits = 2
  MaxWithdrawals = 1
  Cheats <- RoundThree
  Faults <- NoFaults
  MaxFaults = 0
INVARIANTS DisputesAreRight UpToDate
PROPERTIES RoundsAreAudited
CHECK_DEADLOCK FALSE
