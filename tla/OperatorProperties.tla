------------------------- MODULE OperatorProperties -------------------------
(***************************************************************************)
(* The properties of the operator and of what its ledger and the contract  *)
(* say of each other.                                                      *)
(***************************************************************************)
EXTENDS Operator

(* Types of the operator's variables, and of those of the contract it follows *)

Event == [type : {"none"}]
         \cup [type : {"deposit", "withdrawal"}, id : Nat, asset : Tokens,
               wallet : Clients, amount : Nat]
         \cup [type : {"dispute"}, id : Nat, wallet : Clients]

Block == [round : Rounds, quarter : Quarters, event : Event]

DisputeRow == [round : Rounds, wallet : Clients, open : BOOLEAN]

Moderating == {"approve", "book", "cancel", "cancelled"}

ProcessPlaces == {"idle", "event", "recordDeposit", "quarter", "moderate", "dispute",
                  "closed", "commit", "committing", "save", "failed"} \cup Moderating

\* The process goes through rows that there are.
TodoOK ==
    /\ pc \in {"moderate"} \cup Moderating => todo \subseteq DOMAIN withdrawals
    /\ pc \in Moderating \cup {"closed"} => todo # {}
    /\ pc \in {"dispute", "closed"} => todo \subseteq DOMAIN disputeRows
    /\ pc = "commit" => todo \subseteq Tokens

OperatorTypeOK ==
    /\ round \in Rounds /\ quarter \in Quarters /\ totalDisputes \in Nat
    /\ clientDeposits \in [Rounds -> [Tokens -> [Clients -> Nat]]]
    /\ unprocessed \in Seq(Block) /\ events \in Nat
    /\ accounts \in [Rounds -> [Tokens -> [Clients -> Account]]]
    /\ withdrawals \in Seq(Withdrawal) /\ disputeRows \in Seq(DisputeRow)
    /\ _round \in Rounds /\ _quarter \in Quarters
    /\ pc \in ProcessPlaces /\ TodoOK
    /\ lost \in Nat /\ crashes \in Nat

(* Books *)

\* A request that cannot be granted is canceled in two steps, on the chain and in the
\* ledger.  A crash between them leaves a row that the chain knows nothing of, which
\* may be approved in a later round.  It takes an order, for otherwise every request
\* that the contract accepts is granted.
CancellationsAreWhole == crashes = 0 \/ approvals = {}

\* A root that the operator committed leaves a client without a proof only if a
\* request of that token and an earlier round failed moderation and could not be
\* cancelled either: otherwise the ledger, which follows the chain block by block,
\* has by the commit booked exactly what the contract has counted.  An event whose
\* handler failed (lost) is
\* missing from the ledger for good.
UnprovableOnlyIfUnmoderated ==
    (crashes = 0 /\ lost = 0) =>
        \A r \in 1..MaxRound, t \in Tokens, c \in Clients :
          (commits[r][t] # NoRoot /\ Provable(c, t, r) = {}) =>
            \E i \in DOMAIN withdrawals :
                /\ withdrawals[i].asset = t /\ withdrawals[i].round < r
                /\ withdrawals[i].status = "unchecked"

\* Once a root that proves anything to a client is on the chain, the balance that
\* the operator's tree of the round has of the client, for which it serves the proof,
\* remains the one that is proved, whatever is processed, cancelled or processed
\* again after a crash, as long as the handlers of the events do not fail.
BooksFinal ==
    (lost = 0 /\ CancellationsAreWhole) =>
        \A r \in 1..MaxRound, t \in Tokens, c \in Clients :
            Provable(c, t, r) # {} => Provable(c, t, r) = {getSolvencyTree(t, r)[c]}

DepositBlocks(t, c, r) ==
    {i \in DOMAIN unprocessed :
        LET e == unprocessed[i].event
        IN e.type = "deposit" /\ unprocessed[i].round = r /\ e.asset = t /\ e.wallet = c}

AmountOfBlock ==
    [i \in DOMAIN unprocessed |->
        IF unprocessed[i].event.type = "deposit" THEN unprocessed[i].event.amount ELSE 0]

\* What the contract received and the ledger has not been shown yet.
NotProcessed(t, c, r) == SumFunctionOnSet(AmountOfBlock, DepositBlocks(t, c, r))

\* No deposit is lost, whenever the process crashes: the ledger has credited every
\* deposit of a saved block, unless its handler failed.
DepositsNotLost ==
    lost = 0 => \A r \in Rounds, t \in Tokens, c \in Clients :
        accounts[r][t][c].deposited >= clientDeposits[r][t][c] - NotProcessed(t, c, r)

(* The inductive invariant of the deposits. *)

\* The deposits that the ledger still has to credit: those of the blocks that are not
\* processed, but for the ones recorded as credited, and the one credited just now.
Uncredited(t, c, r) ==
    {i \in DepositBlocks(t, c, r) :
        (i = 1 => pc # "recordDeposit") /\ unprocessed[i].event.id \notin deposits}

NotCredited(t, c, r) == SumFunctionOnSet(AmountOfBlock, Uncredited(t, c, r))

IsDeposit(i) == unprocessed[i].event.type = "deposit"

\* Every deposit has an id of its own, which the ledger knows it by.
DepositIds ==
    /\ deposits \subseteq 1..events
    /\ \A i \in DOMAIN unprocessed :
          IsDeposit(i) => unprocessed[i].event.id \in 1..events
    /\ \A i, j \in DOMAIN unprocessed :
          (IsDeposit(i) /\ IsDeposit(j) /\ unprocessed[i].event.id = unprocessed[j].event.id)
              => i = j

\* Where the process is in its block.
AtABlock ==
    /\ pc # "idle" => up /\ unprocessed # <<>>
    /\ pc = "recordDeposit" => IsDeposit(1)
    /\ (lost = 0 /\ pc \notin {"idle", "event", "recordDeposit"} /\ IsDeposit(1))
          => block.event.id \in deposits

\* What the ledger has credited and what it has still to credit cover what the
\* contract has received; without a crash nothing is credited twice either.
DepositsCovered ==
    lost = 0 => \A r \in Rounds, t \in Tokens, c \in Clients :
        /\ accounts[r][t][c].deposited + NotCredited(t, c, r) >= clientDeposits[r][t][c]
        /\ crashes = 0 =>
              accounts[r][t][c].deposited + NotCredited(t, c, r) = clientDeposits[r][t][c]

DepositsInv == DepositIds /\ AtABlock /\ DepositsCovered

(* Withdrawals *)

RequestSeen(t, c) ==
    \A i \in DOMAIN unprocessed :
        LET e == unprocessed[i].event
        IN ~(e.type = "withdrawal" /\ e.asset = t /\ e.wallet = c)

\* A request that is active on the chain is in the ledger exactly once, as a row
\* that is neither confirmed nor canceled: for the time between the two halves of a
\* cancellation there may be a row without a request, never the reverse.
ActiveIsTracked ==
    (lost = 0 /\ CancellationsAreWhole) => \A t \in Tokens, c \in Clients :
        LET w == activeWithdrawalRounds[t][c]
        IN (w > 0 /\ RequestSeen(t, c)) =>
              Cardinality({i \in DOMAIN withdrawals :
                  /\ withdrawals[i].asset = t /\ withdrawals[i].wallet = c
                  /\ withdrawals[i].round = w
                  /\ withdrawals[i].status \in {"unchecked", "pending"}}) = 1

(* Commits *)

\* The first block of a round makes the operator commit it.  Operator_Notes.md: "if
\* any of the event processing has failed, it will retry".  So when the operator
\* has saved a block of the round as processed, the round is committed, or the
\* contract has halted before.
CommitsKeepUp ==
    \A r \in 1..MaxRound :
        (lastProcessedBlock.round >= r /\ ~halted) => r <= committedRounds

\* This holds as long as no crash, no failed transaction, no dispute and no order
\* comes in between, however far behind the chain the operator is and in whatever
\* order its transactions are mined: when it is too late the commit fails and the
\* contract halts.
CommitsKeepUpUndisturbed ==
    (crashes + failures + lost + totalDisputes = 0 /\ approvals = {}) => CommitsKeepUp

(* Disputes *)

DisputeSeen(c) ==
    \A i \in DOMAIN unprocessed :
        LET e == unprocessed[i].event IN ~(e.type = "dispute" /\ e.wallet = c)

\* Operator.ts: "A BalanceDispute object is stored to keep track of the lifecycle of
\* the dispute."  Between two blocks a row is open exactly when the dispute is.
DisputesTracked ==
    (crashes + lost = 0 /\ pc = "idle") =>
        \A c \in Clients : DisputeSeen(c) =>
            (disputes[c].open <=>
                \E i \in DOMAIN disputeRows : disputeRows[i].wallet = c /\ disputeRows[i].open)

(* Progress, under OpFairSpec *)

\* No block is begun again for ever: the block that the operator has reached is
\* saved, whatever its events are and whichever of the operator's transactions
\* revert while it is processed, or the contract halts.
BlockIsSaved ==
    \A r \in Rounds, q \in Quarters :
        (up /\ unprocessed # <<>> /\ block.round = r /\ block.quarter = q)
            ~> (\/ halted \/ ~up
                \/ 4 * lastProcessedBlock.round + lastProcessedBlock.quarter >= 4 * r + q)

\* A block is handled for good: it gets saved in the end, and between two blocks the
\* operator's rows say of the disputes what the contract says.
BlocksAreHandled == []DisputesTracked /\ BlockIsSaved
=============================================================================
