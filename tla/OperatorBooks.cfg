SPECIFICATION OpSpec
CONSTANTS
  alice = alice
  gold = gold
  silver = silver
  NoRoot = NoRoot
  Clients <- Alice
  Tokens <- OneToken
  JoinRound <- JoinAtStart
  Fills <- NoFills
  Assets <- OneToken
  Approvals <- SellTwo
  Supply <- Two
  LeafSets = {}
  MaxRound = 5
  MaxDisputes = 0
  HaltDelay = 0
  MaxEvents = 3
  MaxLag = 2
  MaxCrashes = 1
  MaxLost = 0
  MaxFailures = 1
INVARIANTS UnprovableOnlyIfUnmoderated ActiveIsTracked BooksFinal DepositsNotLost CommitsKeepUpUndisturbed
CHECK_DEADLOCK FALSE
