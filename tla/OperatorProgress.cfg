SPECIFICATION OpFairSpec
CONSTANTS
  alice = alice
  gold = gold
  silver = silver
  NoRoot = NoRoot
  Clients <- Alice
  Tokens <- TwoTokens
  JoinRound <- JoinAtStart
  Fills <- NoFills
  Assets <- TwoTokens
  Approvals <- NoApprovals
  Supply <- One
  LeafSets = {}
  MaxRound = 2
  MaxDisputes = 1
  HaltDelay = 0
  MaxEvents = 2
  MaxLag = 1
  MaxCrashes = 0
  MaxLost = 1
  MaxFailures = 1
PROPERTIES BlocksAreHandled
CHECK_DEADLOCK FALSE
