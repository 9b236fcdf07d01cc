SPECIFICATION Spec
CONSTANTS
  alice = alice
  bob = bob
  gold = gold
  tin = tin
  Clients <- Both
  JoinRound <- JoinAtStart
  NoRoot = NoRoot
  Tokens <- OneToken
  Assets <- OneToken
  Approvals <- SellingApprovals
  Fills <- NoFills
  Supply <- OneOfAll
  LeafSets = {{}, {0, 1}}
  MaxRound = 5
  MaxDisputes = 0
  HaltDelay = 1
INVARIANTS TypeOK ClosedBooks NoDoublePayment NothingLost
PROPERTIES ImplementsVault
CHECK_DEADLOCK FALSE
