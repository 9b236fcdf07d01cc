------------------------- MODULE MediatorProperties -------------------------
(***************************************************************************)
(* The properties of Mediator.sol.                                         *)
(***************************************************************************)
EXTENDS Mediator

(* Commits *)

\* The books of a round are closed by the commit of the next one: whatever is
\* deposited, requested or cancelled later, the opening balance that was
\* committed remains the closing balance of the round before.  A cancellation
\* comes one round after its request at the latest, and only before the commit.
ClosedBooks ==
    \A r \in 1..MaxRound, t \in Tokens : commits[r][t] # NoRoot =>
        openingBalances[r][t] = openingBalances[r - 1][t] + totalDeposits[r - 1][t]
                                    - totalRequestedWithdrawals[r - 1][t]

\* committedRounds, from which updateHaltedState decides, is the number of the
\* last round in which every registered token has a root, and there is no gap
\* before it, although the tokens are committed one by one.
CommitsComplete ==
    \A r \in 1..MaxRound :
        (tokenCount > 0 /\ \A t \in registeredTokens : commits[r][t] # NoRoot)
            <=> r <= committedRounds

(* Disputes *)

OpenDisputesOf(r) == {c \in Clients : disputes[c].open /\ disputes[c].round = r}

\* The counter that halts the contract counts the open disputes of its round,
\* over clients that open, have closed and open again.
DisputeCountersMatch ==
    \A r \in Rounds : openDisputeCounters[r] = Cardinality(OpenDisputesOf(r))

\* The assets that the contract takes for token t: itself and, for the token that
\* was registered first, all that were never registered.
CountedAs(t) ==
    {a \in Assets : a = t \/ (a \notin registeredTokens /\ registeredTokensIndex[t] = 0)}

\* Closing a dispute cannot take from the client what it did not offer, nor what
\* the fills it showed bought: of the balances it can prove at the round of its
\* dispute, one is at least what it proved at the opening, plus its deposits and
\* those purchases, less its withdrawal and all that its own approvals of the
\* disputed round would sell, where what is not registered counts as the token
\* that was registered first.
DisputeTakesOnlyApproved ==
    \A c \in Clients, t \in registeredTokens :
        LET d == disputes[c]
            sellable == {a \in Approvals : a.client = c /\ a.round = d.round - 1}
        IN (d.round > 0 /\ ~d.open) =>
              \E balance \in Provable(c, t, d.round) :
                  balance >= d.opening[t] + clientDeposits[d.round - 1][t][c]
                     - clientRequestedWithdrawals[d.round - 1][t][c].amount
                     + Bought(d.fills, CountedAs(t)) - Sold(sellable, CountedAs(t))

(* Halting *)

\* A halt that is due stays due until some call records it: neither the clock
\* entering the next quarter or round, where other rounds are checked, nor any
\* call makes the contract work again.
HaltDueIsStable == [][HaltDue => HaltDue' \/ halted']_vars

\* Nothing that should halt the contract is forgotten as the rounds go by, though
\* updateHaltedState looks at one round only: a round left uncommitted, or a
\* dispute left open one round and a quarter after its own round began, still
\* makes the halt due.
OverdueIsDue ==
    \/ halted
    \/ HaltDue
    \/ /\ round - 1 <= committedRounds
       /\ quarter = 0 \/ round <= committedRounds
       /\ \A c \in Clients : disputes[c].open =>
             \/ round <= disputes[c].round
             \/ round = disputes[c].round + 1 /\ quarter = 0

(* Money *)

\* The amount requested in round w has been paid: it is recorded and no longer
\* waiting to be confirmed (a cancellation would have cleared it).
PaidOut(w, t, c) ==
    /\ clientRequestedWithdrawals[w][t][c].amount > 0
    /\ activeWithdrawalRounds[t][c] # w

\* No client is paid twice: recoverAllFunds pays the balance at the opening of
\* two rounds before the halt, which still holds all that was requested from that
\* round on, so none of it may have been confirmed, not even in the last quarter
\* before the halt.
NoDoublePayment ==
    halted => \A w \in Rounds, t \in Tokens, c \in Clients :
                 PaidOut(w, t, c) => w < haltedRound - 2

\* The totals the contract computes closing balances from are the sums over the
\* clients, through repeated deposits, requests and cancellations.
TotalsMatch ==
    \A r \in Rounds, t \in Tokens :
        /\ totalDeposits[r][t] = SumFunction(clientDeposits[r][t])
        /\ totalRequestedWithdrawals[r][t] =
              Sum(Clients, LAMBDA c : clientRequestedWithdrawals[r][t][c].amount)

\* The round whose opening balances would be paid if the contract halted as soon
\* as it can: a contract that is sound in quarter 1 cannot halt in that round.
Horizon ==
    IF halted THEN haltedRound - 2
    ELSE IF quarter = 0 \/ HaltDue THEN round - 2 ELSE round - 1

\* What c requested before round h and has not been paid.
Waiting(h, t, c) ==
    LET w == activeWithdrawalRounds[t][c]
    IN IF w > 0 /\ w < h THEN clientRequestedWithdrawals[w][t][c].amount ELSE 0

\* What c can take out of the contract: the largest balance it has a proof of at
\* the horizon, what it deposited since, and a request old enough to be paid.
Proven(t, c) == Max({0} \cup Provable(c, t, Horizon))

Owed(t, c) ==
    Waiting(Horizon, t, c)
        + IF recovered[t][c] THEN 0
          ELSE Proven(t, c) + Sum({r \in Rounds : Horizon <= r /\ r <= HaltRound},
                                  LAMBDA r : DepositedIn(c, t, r))

owed == [t \in Tokens |-> [c \in Clients |-> Owed(t, c)]]

OpeningOf(t, r) == IF r \in Rounds THEN openingBalances[r][t] ELSE 0

ProvenOf(t) == SumFunction([c \in Clients |-> Proven(t, c)])

\* The operator's root of the horizon proves no more than there was.  The contract
\* cannot tell.
sound == [t \in Tokens |-> ProvenOf(t) <= OpeningOf(t, Horizon)]

V == INSTANCE Vault WITH pool <- held, owed <- owed, sound <- sound, frozen <- halted

\* The Mediator implements the Vault: whatever the operator commits, a payment comes
\* out of the claim of the client paid and no claim moves after the halt; and the
\* claims are covered whenever the root of the horizon proves no more than there was,
\* whatever the roots before it proved.
ImplementsVault == V!VaultSpec

\* Operator_Notes.md: "Once HALTED, all users can safely withdraw their funds".
\* What is owed is what the contract holds and, to the unit, what the operator's root
\* proves too much, or less what it proves too little, until a client has taken what
\* it wanted.
NothingStranded ==
    halted => \A t \in Tokens :
        \/ \E c \in Clients : recovered[t][c]
        \/ SumFunction(owed[t]) - held[t] = ProvenOf(t) - OpeningOf(t, Horizon)

\* The contract's books add up, and so do the claims after a halt.
NothingLost == TotalsMatch /\ NothingStranded

(* The inductive invariant: what the proofs of the properties above need to know *)

CommittedIn(r) == {t \in registeredTokens : commits[r][t] # NoRoot}

\* Roots exist for past rounds and registered tokens only, and are counted.
CommitInv ==
    /\ tokenCount = Cardinality(registeredTokens)
    /\ \A r \in Rounds : commitCounters[r] = Cardinality(CommittedIn(r))
    /\ \A r \in Rounds, t \in Tokens :
          commits[r][t] # NoRoot => r \in 1..round /\ t \in registeredTokens
    /\ committedRounds <= round
    /\ CommitsComplete

\* The tokens are numbered in the order of their registration.
IndexInv ==
    /\ \A t \in registeredTokens : registeredTokensIndex[t] < tokenCount
    /\ \A t, u \in registeredTokens :
          registeredTokensIndex[t] = registeredTokensIndex[u] => t = u
    /\ \A a \in Assets \ registeredTokens : registeredTokensIndex[a] = 0

DisputeInv ==
    /\ DisputeCountersMatch
    /\ \A c \in Clients : disputes[c].open => disputes[c].round \in 1..round

\* The clock stands still after a halt.  A round whose predecessor but one is
\* disputed cannot have been committed: the halt was due before.
HaltInv ==
    /\ halted => haltedRound = round
    /\ (quarter = 0 /\ round >= 2 /\ committedRounds = round)
          => openDisputeCounters[round - 2] = 0
    /\ OverdueIsDue

\* A request confirmed in a quarter other than 0 may be two rounds old only, which
\* is safe because a contract that is sound then stays so until the next round.
PaymentInv ==
    \A w \in Rounds, t \in Tokens, c \in Clients :
        /\ clientRequestedWithdrawals[w][t][c].amount > 0 => w \in 1..round
        /\ activeWithdrawalRounds[t][c] <= round
        /\ PaidOut(w, t, c) =>
              \/ w + 3 <= round
              \/ w + 2 <= round /\ ~halted /\ ~HaltDue /\ quarter > 0

IInv ==
    /\ TypeOK
    /\ CommitInv
    /\ ClosedBooks
    /\ DisputeInv
    /\ HaltInv
    /\ PaymentInv

\* The round a closed dispute was settled against has its roots for good, so that
\* nothing the settlement was computed from can change.
SettledInv ==
    \A c \in Clients :
        LET d == disputes[c]
        IN /\ d.round <= round
           /\ (d.round > 0 /\ ~d.open) =>
                 \A t \in registeredTokens : commits[d.round][t] # NoRoot

\* No root proves a balance above the opening one, and there is no opening balance
\* without a root.
RootInv ==
    \A r \in Rounds, t \in Tokens :
        IF commits[r][t] = NoRoot THEN openingBalances[r][t] = 0
        ELSE \A c \in Clients : commits[r][t][c] \subseteq 0..openingBalances[r][t]

\* Nothing is booked for a round to come or for a token nobody registered.
BlankInv ==
    \A r \in Rounds, t \in Tokens : (r > round \/ t \notin registeredTokens) =>
        totalDeposits[r][t] = 0 /\ totalRequestedWithdrawals[r][t] = 0

TotalDepositedIn(t, r) == IF r \in Rounds THEN totalDeposits[r][t] ELSE 0

\* What the contract should hold of t, as reckoned from round h: the opening
\* balance, the deposits since and the requests from before.  (Round h + 2 is the
\* last one that can have begun while h is at the horizon.)
Book(h, t) ==
    OpeningOf(t, h) + TotalDepositedIn(t, h) + TotalDepositedIn(t, h + 1)
        + TotalDepositedIn(t, h + 2) + SumFunction([c \in Clients |-> Waiting(h, t, c)])

NobodyRecovered(t) == \A c \in Clients : ~recovered[t][c]

\* From the horizon to the last complete round, every reckoning gives what the
\* contract holds, until the first client recovers its funds after a halt; then
\* what is left still covers the claims that are left, if the roots allow it.
PoolInv ==
    /\ round <= committedRounds + 2
    /\ \A t \in Tokens :
          /\ NobodyRecovered(t)
                => \A h \in (-2)..MaxRound : (Horizon <= h /\ h <= committedRounds)
                                             => held[t] = Book(h, t)
          /\ ~NobodyRecovered(t) =>
                halted /\ (sound[t] => SumFunction(owed[t]) <= held[t])

MoneyInv == TotalsMatch /\ RootInv /\ BlankInv /\ PoolInv

(* Liveness, under FairSpec *)

\* A halt that is due is recorded.  Only updateHaltedState, a confirmation or a
\* recovery does it: the halt found by any other call is reverted with the call.
HaltIsRecorded == HaltDue ~> halted

\* No dispute stays open: the operator closes it or the contract halts.  (The
\* clock must be able to reach the round after.)
DisputeIsResolved ==
    \A c \in Clients :
        (disputes[c].open /\ disputes[c].round < MaxRound)
            ~> (halted \/ ~disputes[c].open)

\* No request waits for ever: it is paid, the operator cancels it, or the contract
\* halts and the balance can be recovered instead.
WithdrawalIsResolved ==
    \A c \in Clients, t \in Tokens :
        (activeWithdrawalRounds[t][c] \in 1..(MaxRound - 2))
            ~> (halted \/ activeWithdrawalRounds[t][c] = 0)

\* Nobody waits for ever: a halt that is due is recorded, a dispute is closed, a
\* request is paid or cancelled, or all funds can be recovered.  (Mediator.sol:486,
\* 516, 812)
NobodyWaitsForEver == HaltIsRecorded /\ DisputeIsResolved /\ WithdrawalIsResolved
==============================================================================
