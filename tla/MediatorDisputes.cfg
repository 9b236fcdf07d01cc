SPECIFICATION FairSpec
CONSTANTS
    alice = alice
    bob = bob
    gold = gold
    tin = tin
    Clients <- OnlyAlice
    JoinRound <- JoinAtStart
    NoRoot = NoRoot
    Tokens <- OneToken
    Assets <- GoldAndTin
    Approvals <- FeeApprovals
    Fills <- FeeFills
    Supply <- OneOfAll
    LeafSets = {{}, {0}, {1}}
    MaxRound = 4
    MaxDisputes = 2
    HaltDelay = 2
INVARIANTS OverdueIsDue DisputeTakesOnlyApproved
PROPERTIES HaltDueIsStable NobodyWaitsForEver
CHECK_DEADLOCK FALSE
