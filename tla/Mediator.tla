------------------------------ MODULE Mediator ------------------------------
(***************************************************************************)
(* The smart contract of the exchange, src/src/contracts/Mediator.sol.     *)
(*                                                                         *)
(* Every action is one transaction: the contract runs each to its end or   *)
(* reverts it, so a call whose require fails is an action that is not      *)
(* enabled.  The callers (clients, operator, anybody) call in any order.   *)
(* The block number is read only through getCurrentRound and               *)
(* getCurrentQuarter, so the clock is <<round, quarter>>.                  *)
(*                                                                         *)
(* A definition named Wrong... is the one after it with a mistake in it:   *)
(* no action uses it, and the properties of the contract do not hold with  *)
(* it (see "mutants" in PROJECT.json).                                     *)
(***************************************************************************)
EXTENDS DisputeAccounting, FiniteSets

CONSTANTS
    Clients,
    Tokens,
    Assets,       \* addresses that an approval or a fill may name as an asset
    Approvals,    \* approvals the clients have signed, or will sign
    Fills,        \* fills the operator has signed, or will sign
    JoinRound,    \* client -> round of the authorization the operator signed
    NoRoot,       \* commits[r][t] before the commit
    Supply,       \* bound: token -> client -> what it owns at the start
    LeafSets,     \* bound: the sets of balances that a root proves for a client
    MaxRound,     \* bound: the last round of the clock
    MaxDisputes,  \* bound: disputes opened in a behaviour
    HaltDelay     \* bound: round ends that may pass before somebody records
                  \*        a halt that is due

Rounds == 0..MaxRound
Quarters == 0..3

Approval == [id : Nat, client : Clients, round : Nat, intent : BOOLEAN,
             buyAsset : Assets, buyAmount : Nat,
             sellAsset : Assets, sellAmount : Nat]

Fill == [id : Nat, approvalId : Nat, client : Clients, round : Nat,
         buyAsset : Assets, buyAmount : Nat,
         sellAsset : Assets, sellAmount : Nat]

\* A root, as the balances that each client has a proof of.
Roots == [Clients -> SUBSET Nat]
Unprovable == [c \in Clients |-> {}]

ASSUME ConstantsAssumption ==
    /\ IsFiniteSet(Clients)
    /\ IsFiniteSet(Tokens)
    /\ Tokens \subseteq Assets
    /\ IsFiniteSet(Approvals)
    /\ IsFiniteSet(Fills)
    /\ Approvals \subseteq Approval
    /\ Fills \subseteq Fill
    /\ JoinRound \in [Clients -> Nat]
    /\ NoRoot \notin Roots
    /\ Supply \in [Tokens -> [Clients -> Nat]]
    /\ LeafSets \subseteq SUBSET Nat
    /\ {MaxRound, MaxDisputes, HaltDelay} \subseteq Nat

VARIABLES
    round, quarter,                         \* the clock: block.number
    halted, haltedRound, haltedQuarter,
    registeredTokens, registeredTokensIndex, tokenCount,
    clientDeposits, totalDeposits,
    clientRequestedWithdrawals, totalRequestedWithdrawals,
    activeWithdrawalRounds,
    openingBalances, commits, commitCounters, committedRounds,
    disputes, openDisputeCounters, totalDisputes,
    recovered,
    held, wallet                            \* ERC20: balance of the contract
                                            \* and of each client
clockVars == <<round, quarter>>
haltVars == <<halted, haltedRound, haltedQuarter>>
tokenVars == <<registeredTokens, registeredTokensIndex, tokenCount>>
depositVars == <<clientDeposits, totalDeposits>>
withdrawalVars == <<clientRequestedWithdrawals, totalRequestedWithdrawals,
                    activeWithdrawalRounds>>
commitVars == <<openingBalances, commits, commitCounters, committedRounds>>
disputeVars == <<disputes, openDisputeCounters, totalDisputes>>
erc20Vars == <<held, wallet>>
vars == <<clockVars, haltVars, tokenVars, depositVars, withdrawalVars,
          commitVars, disputeVars, recovered, erc20Vars>>

Dispute == [round : Rounds, quarter : Quarters, opening : [Tokens -> Nat],
            fills : SUBSET Fills, open : BOOLEAN]
NoDispute == [round |-> 0, quarter |-> 0, opening |-> [t \in Tokens |-> 0],
              fills |-> {}, open |-> FALSE]

\* Every variable holds a value of its Solidity type; in particular no SafeMath
\* subtraction has gone below zero.
TypeOK ==
    /\ round \in Rounds /\ quarter \in Quarters
    /\ halted \in BOOLEAN /\ haltedRound \in Rounds /\ haltedQuarter \in Quarters
    /\ registeredTokens \in SUBSET Tokens /\ tokenCount \in Nat
    /\ registeredTokensIndex \in [Assets -> Nat]
    /\ clientDeposits \in [Rounds -> [Tokens -> [Clients -> Nat]]]
    /\ totalDeposits \in [Rounds -> [Tokens -> Nat]]
    /\ clientRequestedWithdrawals \in
          [Rounds -> [Tokens -> [Clients -> [amount : Nat, openingBalance : Nat]]]]
    /\ totalRequestedWithdrawals \in [Rounds -> [Tokens -> Nat]]
    /\ activeWithdrawalRounds \in [Tokens -> [Clients -> Rounds]]
    /\ openingBalances \in [Rounds -> [Tokens -> Nat]]
    /\ commits \in [Rounds -> [Tokens -> Roots \cup {NoRoot}]]
    /\ commitCounters \in [Rounds -> Nat] /\ committedRounds \in Nat
    /\ disputes \in [Clients -> Dispute]
    /\ openDisputeCounters \in [Rounds -> Nat] /\ totalDisputes \in Nat
    /\ recovered \in [Tokens -> [Clients -> BOOLEAN]]
    /\ held \in [Tokens -> Nat] /\ wallet \in [Tokens -> [Clients -> Nat]]

Init ==
    /\ round = 0 /\ quarter = 0
    /\ halted = FALSE /\ haltedRound = 0 /\ haltedQuarter = 0
    /\ registeredTokens = {} /\ tokenCount = 0
    /\ registeredTokensIndex = [a \in Assets |-> 0]
    /\ clientDeposits = [r \in Rounds |-> [t \in Tokens |-> [c \in Clients |-> 0]]]
    /\ totalDeposits = [r \in Rounds |-> [t \in Tokens |-> 0]]
    /\ clientRequestedWithdrawals = [r \in Rounds |-> [t \in Tokens |->
          [c \in Clients |-> [amount |-> 0, openingBalance |-> 0]]]]
    /\ totalRequestedWithdrawals = [r \in Rounds |-> [t \in Tokens |-> 0]]
    /\ activeWithdrawalRounds = [t \in Tokens |-> [c \in Clients |-> 0]]
    /\ openingBalances = [r \in Rounds |-> [t \in Tokens |-> 0]]
    /\ commits = [r \in Rounds |-> [t \in Tokens |-> NoRoot]]
    /\ commitCounters = [r \in Rounds |-> 0] /\ committedRounds = 0
    /\ disputes = [c \in Clients |-> NoDispute]
    /\ openDisputeCounters = [r \in Rounds |-> 0] /\ totalDisputes = 0
    /\ recovered = [t \in Tokens |-> [c \in Clients |-> FALSE]]
    /\ held = [t \in Tokens |-> 0]
    /\ wallet = Supply
-----------------------------------------------------------------------------
(* The halted state. *)

\* At quarter 0 the operator still has time to commit the round, so the check
\* looks one round further back than in the quarters after it.
IsMissingCommits ==
    IF quarter = 0 THEN committedRounds < round - 1 ELSE committedRounds < round

WrongHasOpenDisputes == quarter > 0 /\ openDisputeCounters[round] > 0

HasOpenDisputes ==
    IF quarter = 0 THEN round > 1 /\ openDisputeCounters[round - 2] > 0
                   ELSE openDisputeCounters[round - 1] > 0

\* What updateHaltedState would find now.
HaltDue ==
    /\ ~halted
    /\ round > 0
    /\ tokenCount = 0 \/ IsMissingCommits \/ HasOpenDisputes

\* updateHaltedState() as the first statement of a call that then succeeds.
RecordHalt ==
    /\ halted' = (halted \/ HaltDue)
    /\ haltedRound' = IF HaltDue THEN round ELSE haltedRound
    /\ haltedQuarter' = IF HaltDue THEN quarter ELSE haltedQuarter

WrongNotHalted == ~halted /\ UNCHANGED haltVars

\* The modifier.  A halt it discovers is undone by the require that follows, so
\* a guarded call changes nothing of the halted state.
notHalted == ~halted /\ ~HaltDue /\ UNCHANGED haltVars

getCurrentRound == IF halted THEN haltedRound ELSE round
getCurrentQuarter == IF halted THEN haltedQuarter ELSE quarter

updateHaltedState ==
    /\ HaltDue
    /\ RecordHalt
    /\ UNCHANGED <<clockVars, tokenVars, depositVars, withdrawalVars, commitVars,
                   disputeVars, recovered, erc20Vars>>

\* Blocks are mined.  The clock stops at a halt because no code reads it after
\* one.  HaltDelay bounds how long nobody calls updateHaltedState: a missing
\* commit makes the halt due in round committedRounds + 1, an open dispute of
\* round d makes it due in round d + 1.
Tick ==
    /\ ~halted
    /\ \/ /\ quarter < 3
          /\ quarter' = quarter + 1
          /\ round' = round
       \/ /\ quarter = 3
          /\ round < MaxRound
          /\ quarter' = 0
          /\ round' = round + 1
          /\ round' <= committedRounds + 1 + HaltDelay
          /\ \A d \in Rounds :
                openDisputeCounters[d] > 0 => round' <= d + 1 + HaltDelay
    /\ UNCHANGED <<haltVars, tokenVars, depositVars, withdrawalVars, commitVars,
                   disputeVars, recovered, erc20Vars>>
-----------------------------------------------------------------------------
(* Tokens, deposits. *)

\* A second registration of a token returns false and changes nothing.
registerToken(t) ==
    /\ notHalted
    /\ round = 0 /\ quarter = 0
    /\ t \notin registeredTokens
    /\ registeredTokens' = registeredTokens \cup {t}
    /\ registeredTokensIndex' = [registeredTokensIndex EXCEPT ![t] = tokenCount]
    /\ tokenCount' = tokenCount + 1
    /\ UNCHANGED <<clockVars, depositVars, withdrawalVars, commitVars, disputeVars,
                   recovered, erc20Vars>>

transferTokenFromClient(t, c, amount) ==
    /\ wallet[t][c] >= amount
    /\ wallet' = [wallet EXCEPT ![t][c] = @ - amount]
    /\ held' = [held EXCEPT ![t] = @ + amount]

transferTokenToClient(t, c, amount) ==
    /\ held[t] >= amount
    /\ wallet' = [wallet EXCEPT ![t][c] = @ + amount]
    /\ held' = [held EXCEPT ![t] = @ - amount]

depositTokens(c, t, amount) ==
    /\ notHalted
    /\ t \in registeredTokens
    /\ amount > 0
    /\ transferTokenFromClient(t, c, amount)
    /\ clientDeposits' = [clientDeposits EXCEPT ![round][t][c] = @ + amount]
    /\ totalDeposits' = [totalDeposits EXCEPT ![round][t] = @ + amount]
    /\ UNCHANGED <<clockVars, tokenVars, withdrawalVars, commitVars, disputeVars,
                   recovered>>
-----------------------------------------------------------------------------
(* Commits. *)

\* The balances of t for which c has a proof that verifies at round r.  A round
\* below 0 (r is unsigned in the code) names a commit that does not exist.
Provable(c, t, r) ==
    IF r \in Rounds /\ commits[r][t] # NoRoot THEN commits[r][t][c] ELSE {}

isProofValid(c, t, r, balance) == balance \in Provable(c, t, r)

\* A proof of every registered token, in their order.
isProofArrayValid(c, r, balances) ==
    \A t \in registeredTokens : isProofValid(c, t, r, balances[t])

\* The balances that c can show with an array of proofs.
BalancesShown(c, r) ==
    {balances \in [Tokens -> {0} \cup UNION {Provable(c, t, r) : t \in registeredTokens}] :
        /\ isProofArrayValid(c, r, balances)
        /\ \A t \in Tokens \ registeredTokens : balances[t] = 0}

previousClosingBalance(t) ==
    openingBalances[round - 1][t] + totalDeposits[round - 1][t]
        - totalRequestedWithdrawals[round - 1][t]

WrongClosingIsCovered(t) == TRUE

\* SafeMath.sub reverts when more was requested than there is.
closingIsCovered(t) == previousClosingBalance(t) >= 0

nothingCommitted(t) == commits[round][t] = NoRoot

\* What a root can prove.  The hash of a node covers the sum of the node but not
\* those of its two children, and a proof adds up sums of its own choice: nothing
\* ties the leaves of a tree to each other.  A balance is only ever added to, and
\* must come to the one the contract computed, so no leaf above that has a proof.
canBeRoot(root, t) == \A c \in Clients : root[c] \subseteq 0..previousClosingBalance(t)

commit(t, root) ==
    /\ notHalted
    /\ round > 0
    /\ quarter = 0
    /\ t \in registeredTokens
    /\ nothingCommitted(t)
    /\ closingIsCovered(t)
    /\ canBeRoot(root, t)
    /\ openingBalances' =
          [openingBalances EXCEPT ![round][t] = previousClosingBalance(t)]
    /\ commits' = [commits EXCEPT ![round][t] = root]
    /\ commitCounters' = [commitCounters EXCEPT ![round] = @ + 1]
    /\ committedRounds' = IF commitCounters'[round] = tokenCount
                          THEN committedRounds + 1 ELSE committedRounds
    /\ UNCHANGED <<clockVars, tokenVars, depositVars, withdrawalVars, disputeVars,
                   recovered, erc20Vars>>
-----------------------------------------------------------------------------
(* Withdrawals. *)

initiateWithdrawal(c, t, amount) ==
    /\ notHalted
    /\ amount > 0
    /\ round > 0
    /\ activeWithdrawalRounds[t][c] = 0
    /\ \E balance \in Provable(c, t, round - 1) :
          /\ amount <= balance
          /\ clientRequestedWithdrawals' =
                [clientRequestedWithdrawals EXCEPT ![round][t][c] =
                    [amount |-> amount, openingBalance |-> balance]]
    /\ totalRequestedWithdrawals' =
          [totalRequestedWithdrawals EXCEPT ![round][t] = @ + amount]
    /\ activeWithdrawalRounds' = [activeWithdrawalRounds EXCEPT ![t][c] = round]
    /\ UNCHANGED <<clockVars, tokenVars, depositVars, commitVars, disputeVars,
                   recovered, erc20Vars>>

WrongLastConfirmedRound == getCurrentRound - 2

\* The last round whose withdrawals can be claimed; below 0 the SafeMath.sub of
\* the code reverts.  It reads the state after updateHaltedState.
lastConfirmedRoundForWithdrawals ==
    IF getCurrentQuarter = 0 \/ halted \/ HaltDue THEN getCurrentRound - 3
                                                  ELSE getCurrentRound - 2

\* The amount stays in clientRequestedWithdrawals: it has left the balances of
\* the client with the commit of the round after the request.
EndRequest(c, t) ==
    activeWithdrawalRounds' = [activeWithdrawalRounds EXCEPT ![t][c] = 0]

confirmWithdrawal(c, t) ==
    LET w == activeWithdrawalRounds[t][c]
    IN /\ w > 0
       /\ w <= lastConfirmedRoundForWithdrawals
       /\ RecordHalt
       /\ EndRequest(c, t)
       /\ transferTokenToClient(t, c, clientRequestedWithdrawals[w][t][c].amount)
       /\ UNCHANGED <<clockVars, tokenVars, depositVars, clientRequestedWithdrawals,
                      totalRequestedWithdrawals, commitVars, disputeVars, recovered>>

WrongCanCancelWithdrawal(w, t) == round \in {w, w + 1}

canCancelWithdrawal(w, t) ==
    \/ round = w
    \/ round = w + 1 /\ commits[round][t] = NoRoot

WrongClearRequest(c, t, w) ==
    /\ clientRequestedWithdrawals' =
          [clientRequestedWithdrawals EXCEPT ![w][t][c].amount = 0]
    /\ EndRequest(c, t)
    /\ UNCHANGED totalRequestedWithdrawals

ClearRequest(c, t, w) ==
    LET amount == clientRequestedWithdrawals[w][t][c].amount
    IN /\ amount <= totalRequestedWithdrawals[w][t]
       /\ clientRequestedWithdrawals' =
             [clientRequestedWithdrawals EXCEPT ![w][t][c].amount = 0]
       /\ totalRequestedWithdrawals' =
             [totalRequestedWithdrawals EXCEPT ![w][t] = @ - amount]
       /\ EndRequest(c, t)

\* Every approval that is shown has been signed, by whom it says.
checkApprovalSig(a, c) == a.client = c

\* The operator shows approvals that the client signed in the round of the proof
\* or of the request, and that sell what the client asks to withdraw.  The
\* subtraction of what they reserve reverts when they reserve more than the
\* opening balance.
cancelWithdrawal(c, t, approvals) ==
    LET w == activeWithdrawalRounds[t][c]
        withdrawal == clientRequestedWithdrawals[w][t][c]
        reserved == Sold(approvals, {t})
    IN /\ notHalted
       /\ w > 0
       /\ canCancelWithdrawal(w, t)
       /\ DistinctIds(approvals)
       /\ \A a \in approvals : checkApprovalSig(a, c) /\ a.round \in {w - 1, w}
       /\ reserved <= withdrawal.openingBalance
       /\ withdrawal.amount > withdrawal.openingBalance - reserved
       /\ ClearRequest(c, t, w)
       /\ UNCHANGED <<clockVars, tokenVars, depositVars, commitVars, disputeVars,
                      recovered, erc20Vars>>
-----------------------------------------------------------------------------
(* Disputes. *)

hasNoOpenDispute(c) == ~disputes[c].open

\* The operator has signed that c joined in the round before.
verifyAuthorizationMessage(c) == JoinRound[c] = round - 1

\* A client opens with proofs of all its balances, or, when it joined in the
\* round before and has none, with the authorization the operator signed.  While
\* it has an open dispute the call returns false.
openDispute(c, fills, byProof) ==
    /\ notHalted
    /\ hasNoOpenDispute(c)
    /\ round > 0
    /\ totalDisputes < MaxDisputes
    /\ byProof \/ verifyAuthorizationMessage(c)
    /\ DistinctIds(fills)
    /\ \A f \in fills : f.client = c /\ f.round = round - 1
    /\ \E opening \in IF byProof THEN BalancesShown(c, round - 1)
                                 ELSE {[t \in Tokens |-> 0]} :
          disputes' = [disputes EXCEPT ![c] =
             [round |-> round, quarter |-> quarter, opening |-> opening,
              fills |-> fills, open |-> TRUE]]
    /\ totalDisputes' = totalDisputes + 1
    /\ openDisputeCounters' = [openDisputeCounters EXCEPT ![round] = @ + 1]
    /\ UNCHANGED <<clockVars, tokenVars, depositVars, withdrawalVars, commitVars,
                   recovered, erc20Vars>>

hasValidOpenDispute(dispute) ==
    /\ dispute.open
    /\ (4 * round + quarter) - (4 * dispute.round + dispute.quarter) <= 1

WrongIncludesShownFills(dispute, fills) == TRUE

\* The fills the client showed, compared field by field, are among the ones the
\* operator accounts for.
includesShownFills(dispute, fills) == dispute.fills \subseteq fills

\* The index of an asset that is not registered is that of the first token, on
\* whose account it is then bought and sold.
BookedOn(t) == {a \in Assets : registeredTokensIndex[a] = registeredTokensIndex[t]}

\* The approvals and fills of the disputed round account for the balances that
\* are shown for the round after it.
Settles(c, dispute, fills, approvalOf, closing) ==
    LET disputed == dispute.round - 1
        start == [t \in registeredTokens |->
                     dispute.opening[t] + clientDeposits[disputed][t][c]]
        withdrawn == [t \in registeredTokens |->
                         clientRequestedWithdrawals[disputed][t][c].amount]
    IN /\ DistinctIds(fills)
       /\ includesShownFills(dispute, fills)
       /\ \A f \in fills : /\ f.client = c /\ f.round = disputed
                           /\ checkApprovalSig(approvalOf[f], c)
                           /\ approvalOf[f].round = disputed
                           /\ checkFillWithApproval(f, approvalOf[f])
       /\ checkDisputeAccounting(start, fills, approvalOf, withdrawn, closing,
                                 [t \in registeredTokens |-> BookedOn(t)])

closeDispute(c, fills, approvalOf) ==
    LET dispute == disputes[c]
    IN /\ notHalted
       /\ hasValidOpenDispute(dispute)
       /\ \E closing \in BalancesShown(c, dispute.round) :
             Settles(c, dispute, fills, approvalOf, closing)
       /\ openDisputeCounters[dispute.round] > 0
       /\ disputes' = [disputes EXCEPT ![c].open = FALSE]
       /\ openDisputeCounters' =
             [openDisputeCounters EXCEPT ![dispute.round] = @ - 1]
       /\ UNCHANGED <<clockVars, tokenVars, depositVars, withdrawalVars, commitVars,
                      totalDisputes, recovered, erc20Vars>>
-----------------------------------------------------------------------------
(* Recovery after a halt. *)

\* The round of the halt as the call sees it after updateHaltedState.
HaltRound == IF halted THEN haltedRound ELSE round

\* The client's own deposits of a round; there are none before round 0.
DepositedIn(c, t, r) == IF r \in Rounds THEN clientDeposits[r][t][c] ELSE 0

RecentDeposits(c, t) ==
    DepositedIn(c, t, HaltRound) + DepositedIn(c, t, HaltRound - 1)
        + DepositedIn(c, t, HaltRound - 2)

WrongNotRecovered(c, t) == TRUE

notRecovered(c, t) == ~recovered[t][c]

recoverAllFunds(c, t) ==
    /\ halted \/ HaltDue
    /\ RecordHalt
    /\ notRecovered(c, t)
    /\ recovered' = [recovered EXCEPT ![t][c] = TRUE]
    /\ \E balance \in Provable(c, t, HaltRound - 2) :
          transferTokenToClient(t, c, balance + RecentDeposits(c, t))
    /\ UNCHANGED <<clockVars, tokenVars, depositVars, withdrawalVars, commitVars,
                   disputeVars>>

recoverOnChainFundsOnly(c, t) ==
    /\ halted \/ HaltDue
    /\ RecordHalt
    /\ notRecovered(c, t)
    /\ recovered' = [recovered EXCEPT ![t][c] = TRUE]
    /\ transferTokenToClient(t, c, RecentDeposits(c, t))
    /\ UNCHANGED <<clockVars, tokenVars, depositVars, withdrawalVars, commitVars,
                   disputeVars>>
-----------------------------------------------------------------------------
\* No account owns more of a token than there is of it.
Amounts(t) == (0..SumFunction(Supply[t])) \cap Nat

\* The call that closes a dispute passes one approval per fill.
ApprovalsFor(fills) == [fills -> Approvals]

ClientStep(c) ==
    \/ \E t \in Tokens : \E amount \in Amounts(t) :
          depositTokens(c, t, amount) \/ initiateWithdrawal(c, t, amount)
    \/ \E t \in Tokens :
          confirmWithdrawal(c, t) \/ recoverAllFunds(c, t) \/ recoverOnChainFundsOnly(c, t)
    \/ \E fills \in SUBSET Fills, byProof \in BOOLEAN :
          openDispute(c, fills, byProof)

OperatorStep ==
    \/ \E t \in Tokens : registerToken(t)
    \/ \E t \in Tokens : \E root \in [Clients -> LeafSets] : commit(t, root)
    \/ \E c \in Clients, t \in Tokens, approvals \in SUBSET Approvals :
          cancelWithdrawal(c, t, approvals)
    \/ \E c \in Clients, fills \in SUBSET Fills :
          \E approvalOf \in ApprovalsFor(fills) : closeDispute(c, fills, approvalOf)

Next ==
    \/ Tick
    \/ updateHaltedState
    \/ OperatorStep
    \/ \E c \in Clients : ClientStep(c)

Spec == Init /\ [][Next]_vars

\* Blocks keep coming, a client that can claim a withdrawal claims it, and a
\* halt that is due is recorded: clients and operator call updateHaltedState.
FairSpec ==
    /\ Spec
    /\ WF_vars(Tick)
    /\ WF_vars(updateHaltedState)
    /\ \A c \in Clients, t \in Tokens : WF_vars(confirmWithdrawal(c, t))
==============================================================================
