SPECIFICATION DepositsSpec
CONSTANTS
    alice = alice
    bob = bob
    hub = hub
    k1 = k1
    k2 = k2
    Accounts <- Everybody
    Creator = alice
    InitialSupply = 0
    Wrapped = TRUE
    MaxUint = 2
    Values <- OneOrTwo
    Approvers <- Alice
    Spenders <- BobAndHub
    MaxGranted <- ThreeOrOne
    Mediator = hub
    Calls <- TwoCalls
    MaxRound = 1
SYMMETRY SameCalls
INVARIANTS NothingMadeOrLost ApprovedIsDeposited TakenWithinGranted
CHECK_DEADLOCK FALSE
