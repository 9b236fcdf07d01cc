--------------------------- MODULE OperatorInvariant ---------------------------
(***************************************************************************)
(* The inductive invariant of the operator's books: what has to hold of    *)
(* the ledger, the contract, the blocks under way and the process for the  *)
(* tree that the operator builds of a round to be the one that the         *)
(* contract has a root of.                                                 *)
(***************************************************************************)
EXTENDS OperatorProperties, MediatorProperties

\* What the books assume: every event was handled, and no crash came between the two
\* halves of a cancellation.
Whole == lost = 0 /\ CancellationsAreWhole
CrashFree == lost = 0 /\ crashes = 0

(* The order of the blocks *)

TimeOf(b) == 4 * b.round + b.quarter

BlocksInOrder ==
    /\ 4 * _round + _quarter <= 4 * round + quarter
    /\ \A i \in DOMAIN unprocessed :
          /\ TimeOf(unprocessed[i]) <= 4 * round + quarter
          /\ 4 * _round + _quarter <= TimeOf(unprocessed[i])
    /\ \A i, j \in DOMAIN unprocessed :
          i <= j => TimeOf(unprocessed[i]) <= TimeOf(unprocessed[j])

\* The work of a quarter is the work of the quarter of the block, and commits are part
\* of that of the first one only.
WorkPlaces == {"moderate", "dispute", "closed", "commit", "committing"} \cup Moderating

AtWork ==
    /\ ~up => _round = 0
    /\ pc \in WorkPlaces => /\ _round = block.round /\ _quarter = block.quarter
                            /\ _quarter = 0 => _round > 0
    /\ pc \in {"commit", "committing"} => _quarter = 0

(* Requests *)

IsRequest(i) == unprocessed[i].event.type = "withdrawal"

\* Every request has an id of its own, and is in the table when its block has passed
\* the handlers.
RequestIds ==
    /\ \A i \in DOMAIN withdrawals : withdrawals[i].id \in 1..events
    /\ \A i, j \in DOMAIN withdrawals : withdrawals[i].id = withdrawals[j].id => i = j
    /\ \A i \in DOMAIN unprocessed : IsRequest(i) => unprocessed[i].event.id \in 1..events
    /\ \A i, j \in DOMAIN unprocessed :
          (IsRequest(i) /\ IsRequest(j) /\ unprocessed[i].event.id = unprocessed[j].event.id)
              => i = j
    /\ (lost = 0 /\ pc \notin {"idle", "event"} /\ IsRequest(1))
          => ~withdrawalIsNew(block.event)

\* The requests that stand: the rows that are not canceled, on the chain or in the
\* ledger, and those of the blocks under way, of which there is no row yet.
LiveRows == {i \in DOMAIN withdrawals :
                withdrawals[i].status # "canceled" /\ (pc = "cancelled" => i # row)}

Coming == {i \in DOMAIN unprocessed : IsRequest(i) /\ withdrawalIsNew(unprocessed[i].event)}

RowOf(b) == [id |-> b.event.id, round |-> b.round, asset |-> b.event.asset,
             wallet |-> b.event.wallet, amount |-> b.event.amount, status |-> "unchecked"]

Standing == {withdrawals[i] : i \in LiveRows} \cup {RowOf(unprocessed[i]) : i \in Coming}

Requested(k, t, c) == clientRequestedWithdrawals[k][t][c].amount

Of(k, t, c) == {x \in Standing : x.round = k /\ x.asset = t /\ x.wallet = c}

Granted(x) == x.status \in {"pending", "confirmed"}

\* The contract has recorded the requests that stand, one per round and client, and
\* no others; the ledger has booked those that were granted.
RequestsStand ==
    /\ \A x \in Standing :
          /\ x.round \in 1..round /\ x.amount > 0
          /\ Requested(x.round, x.asset, x.wallet) = x.amount
          /\ x.status = "confirmed" => activeWithdrawalRounds[x.asset][x.wallet] # x.round
    /\ \A k \in Rounds, t \in Tokens, c \in Clients :
          /\ Requested(k, t, c) > 0 => Of(k, t, c) # {}
          /\ \A x, y \in Of(k, t, c) : x = y
          /\ accounts[k][t][c].withdrawn =
                IF \E x \in Of(k, t, c) : Granted(x) THEN Requested(k, t, c) ELSE 0

\* No request exceeds the balance proved for it, and none is paid, unless the contract
\* has halted, before its round has been closed.
RequestsAreCovered ==
    /\ \A k \in Rounds, t \in Tokens, c \in Clients :
          /\ Requested(k, t, c) <= clientRequestedWithdrawals[k][t][c].openingBalance
          /\ Requested(k, t, c) > 0 => t \in registeredTokens
          /\ PaidOut(k, t, c) => halted \/ k + 1 <= committedRounds
    /\ \A t \in Tokens, c \in Clients :
          LET w == activeWithdrawalRounds[t][c] IN w > 0 => Requested(w, t, c) > 0

\* An order is needed for a cancellation, and only the rows that are not moderated
\* are gone through.
Moderation ==
    /\ approvals = {} => pc # "cancelled"
    /\ pc \in {"moderate"} \cup Moderating =>
          \A i \in todo : withdrawals[i].status = "unchecked"

(* The books *)

\* The chain has no block under way that is older than a root.
CommitsFollow ==
    \A r \in 1..MaxRound, t \in Tokens : commits[r][t] # NoRoot =>
        \A i \in DOMAIN unprocessed : unprocessed[i].round >= r

Agree(k, t) ==
    \A c \in Clients : /\ accounts[k][t][c].deposited = clientDeposits[k][t][c]
                       /\ accounts[k][t][c].withdrawn = Requested(k, t, c)

\* A root that proves anything is that of the operator's tree, and the ledger has
\* booked for the rounds before just what the contract has.
ProvableIsRight ==
    \A r \in 1..MaxRound, t \in Tokens : commits[r][t] \notin {NoRoot, Unprovable} =>
        /\ commits[r][t] = Tree(getSolvencyTree(t, r))
        /\ \A k \in 0..(r - 1) : Agree(k, t)

\* The opening balance of a client, by what the contract has recorded.
ChainOpening(t, c, r) ==
    SumFunctionOnSet([k \in Rounds |-> clientDeposits[k][t][c] - Requested(k, t, c)],
                     {k \in Rounds : k < r})

OpeningsAddUp ==
    \A r \in Rounds, t \in Tokens : (r = 0 \/ commits[r][t] # NoRoot) =>
        openingBalances[r][t] =
            SumFunctionOnSet([c \in Clients |-> ChainOpening(t, c, r)], Clients)

\* Nobody has requested more than it owns.
OpeningsCovered ==
    \A r \in 0..(MaxRound + 1), t \in Tokens, c \in Clients : ChainOpening(t, c, r) >= 0

(* Commits *)

Invalid(w) == w.amount > balance(w.asset, w.wallet, w.round)

\* What was not granted of the rounds before r cannot be.
RestIsInvalid(t, r) ==
    \A i \in uncheckedWithdrawals :
        (withdrawals[i].asset = t /\ withdrawals[i].round < r) => Invalid(withdrawals[i])

\* The transaction is too late: a round has been left without a root.
Dead(tx) ==
    \E s \in 1..round : commits[s][tx.asset] = NoRoot /\ (s < round \/ quarter > 0)

\* The transaction can be mined: its tree is of the round that is now, and the process
\* has nothing left to do that could change the tree before the quarter ends.
Live(tx) ==
    /\ quarter = 0 /\ round > 0
    /\ commits[round][tx.asset] = NoRoot
    /\ tx.leaves = getSolvencyTree(tx.asset, round)
    /\ \A i \in DOMAIN unprocessed : unprocessed[i].round = round /\ unprocessed[i].quarter = 0
    /\ _quarter = 0
    /\ pc \notin {"moderate", "dispute", "closed"} \cup Moderating
    /\ pc = "commit" => tx.asset \notin todo
    /\ CrashFree => _round = round /\ RestIsInvalid(tx.asset, round)

OutboxInv ==
    \A tx \in outbox : /\ tx = [asset |-> tx.asset, leaves |-> tx.leaves]
                       /\ tx.asset \in Tokens
                       /\ Dead(tx) \/ Live(tx)

(* Without a crash *)

Unfinished(x) == x.status \in {"unchecked", "pending"}

\* A client has one request of a token at a time that is not finished, and it is the
\* active one, unless the client has claimed it before it was moderated.
OneAtATime ==
    /\ ~up => withdrawals = <<>>
    /\ \A x \in Standing : Unfinished(x) =>
          /\ activeWithdrawalRounds[x.asset][x.wallet] \in {0, x.round}
          /\ x.status = "pending" =>
                halted \/ activeWithdrawalRounds[x.asset][x.wallet] = x.round
    /\ \A x, y \in Standing :
          (Unfinished(x) /\ Unfinished(y) /\ x.asset = y.asset /\ x.wallet = y.wallet)
              => x = y
    /\ pc = "cancelled" =>
          WithdrawalsOf(request.asset, request.wallet, {"unchecked", "pending"}) = {row}

\* The rows that moderation has passed.
Passed(i) ==
    \/ pc \in {"dispute", "closed", "commit", "committing"}
    \/ pc \in {"moderate"} \cup Moderating /\ i \notin todo
    \/ pc = "cancel" /\ i = row

\* A request of a closed round that was not granted never will be.
RefusalsAreFinal ==
    /\ \A r \in 1..MaxRound, t \in Tokens : commits[r][t] # NoRoot =>
          /\ _round >= r
          /\ RestIsInvalid(t, r)
          /\ pc \in {"approve", "book"} => request.asset # t \/ request.round >= r
    /\ \A i \in uncheckedWithdrawals :
          (Passed(i) /\ withdrawals[i].round < _round) => Invalid(withdrawals[i])

\* Behind a root that proves nothing there is a request that was not granted.
UnprovableHasReason ==
    \A r \in 1..MaxRound, t \in Tokens : (Clients # {} /\ commits[r][t] = Unprovable) =>
        \E i \in LiveRows : /\ withdrawals[i].asset = t /\ withdrawals[i].round < r
                            /\ withdrawals[i].status = "unchecked"

OrderInv == BlocksInOrder /\ AtWork /\ RequestIds /\ approvals \subseteq Approvals
ContractInv == IInv /\ TotalsMatch /\ RequestsAreCovered /\ OpeningsAddUp /\ OpeningsCovered
LedgerInv == Moderation /\ RequestsStand /\ CommitsFollow /\ ProvableIsRight /\ OutboxInv
CrashFreeInv == OneAtATime /\ RefusalsAreFinal /\ UnprovableHasReason

BooksInv ==
    /\ OrderInv
    /\ Whole => ContractInv /\ LedgerInv
    /\ CrashFree => CrashFreeInv
=============================================================================
