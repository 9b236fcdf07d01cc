SPECIFICATION ClientSpec
CONSTANTS
  o1 = o1
  h1 = h1
  Orders <- OneOrder
  Handlers <- OneHandler
  MaxRound = 2
  MaxDeposits = 1
  MaxWithdrawals = 0
  Cheats <- RoundTwo
  Faults <- Trouble
  MaxFaults = 1
INVARIANTS LedgerNeverAhead
CHECK_DEADLOCK FALSE
