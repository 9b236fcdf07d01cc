------------------------------ MODULE Operator ------------------------------
(***************************************************************************)
(* The operator, src/src/server/operator/Operator.ts, its ledger           *)
(* (src/src/common/accounting/MetaLedger.ts) and the contract it follows.  *)
(*                                                                         *)
(* The state is in three places: on the chain (the Mediator, the blocks,   *)
(* the transactions under way), in the database of the operator (each      *)
(* action below is at most one database transaction or one statement), and *)
(* in the memory of its process, which a crash loses.  The process is a    *)
(* program counter that runs from one await to the next; the clients, the  *)
(* clock and the orders of the exchange come in between.                   *)
(*                                                                         *)
(* Nothing is traded here: orders lock a balance and may be cancelled, but *)
(* find no match.  So there are no fills, and accounts neither buy nor     *)
(* sell.                                                                   *)
(***************************************************************************)
EXTENDS Mediator, Sequences

CONSTANTS
    MaxEvents,      \* bound: client transactions that the operator must process
    MaxLag,         \* bound: blocks mined and not processed yet
    MaxCrashes,     \* bound: crashes of the operator process
    MaxFailures,    \* bound: transactions of the operator that fail
    MaxLost         \* bound: events whose handler fails in the database

\* Orders are for the listed assets.
ASSUME OperatorAssumption ==
    /\ Fills = {}
    /\ \A a \in Approvals : a.sellAsset \in Tokens
    /\ {MaxEvents, MaxLag, MaxCrashes, MaxFailures, MaxLost} \subseteq Nat

VARIABLES
    (* the chain, besides the Mediator *)
    unprocessed,    \* blocks mined since lastProcessedBlock, the oldest first
    quarterMined,   \* a block of the current quarter has been mined
    events,         \* number of client transactions that had an event
    outbox,         \* commit transactions sent and neither mined nor failed
    (* the database *)
    accounts, deposits, withdrawals, disputeRows, approvals, openApprovals,
    lastProcessedBlock,
    (* the process *)
    up, _round, _quarter, pc,
    todo,           \* rows or tokens that the process has yet to go through
    (* counters of the bounds *)
    crashes, failures, lost

mediatorVars == vars
chainVars == <<unprocessed, quarterMined, events>>
orderVars == <<approvals, openApprovals>>
tableVars == <<accounts, deposits, withdrawals, disputeRows, orderVars>>
processVars == <<up, _round, _quarter, pc, todo>>
boundVars == <<crashes, failures, lost>>
opVars == <<mediatorVars, chainVars, outbox, tableVars, lastProcessedBlock,
            processVars, boundVars>>

Account == [deposited : Nat, withdrawn : Int, locked : Int]
Withdrawal == [id : Nat, round : Rounds, asset : Tokens, wallet : Clients,
               amount : Nat, status : {"unchecked", "pending", "confirmed", "canceled"}]
OpInit ==
    /\ Init
    /\ unprocessed = <<>> /\ quarterMined = FALSE /\ events = 0
    /\ outbox = {}
    /\ accounts = [r \in Rounds |-> [t \in Tokens |-> [c \in Clients |->
                      [deposited |-> 0, withdrawn |-> 0, locked |-> 0]]]]
    /\ deposits = {} /\ withdrawals = <<>> /\ disputeRows = <<>>
    /\ approvals = {} /\ openApprovals = {}
    /\ lastProcessedBlock = [round |-> 0, quarter |-> 0]
    /\ up = FALSE /\ _round = 0 /\ _quarter = 0 /\ pc = "idle" /\ todo = {}
    /\ crashes = 0 /\ failures = 0 /\ lost = 0
-----------------------------------------------------------------------------
(* The chain: blocks and client transactions. *)

\* A block of the current quarter.  A block with several events is as many blocks.
Mine(event) ==
    /\ Len(unprocessed) < MaxLag
    /\ unprocessed' = Append(unprocessed,
          [round |-> round, quarter |-> quarter, event |-> event])
    /\ quarterMined' = TRUE

ClientTransaction(event) ==
    /\ events < MaxEvents
    /\ events' = events + 1
    /\ Mine(event)
    /\ UNCHANGED <<outbox, tableVars, lastProcessedBlock, processVars, boundVars>>

\* Every quarter has blocks; those without events are left out but for the first.
MineEmptyBlock ==
    /\ registeredTokens = Tokens
    /\ ~quarterMined
    /\ Mine([type |-> "none"])
    /\ UNCHANGED <<mediatorVars, events, outbox, tableVars, lastProcessedBlock,
                   processVars, boundVars>>

Clock ==
    /\ Tick
    /\ quarterMined
    /\ quarterMined' = FALSE
    /\ UNCHANGED <<unprocessed, events, outbox, tableVars, lastProcessedBlock,
                   processVars, boundVars>>

deposit(c, t, amount) ==
    /\ depositTokens(c, t, amount)
    /\ ClientTransaction([type |-> "deposit", id |-> events + 1, asset |-> t,
                          wallet |-> c, amount |-> amount])

requestWithdrawal(c, t, amount) ==
    /\ initiateWithdrawal(c, t, amount)
    /\ ClientTransaction([type |-> "withdrawal", id |-> events + 1, asset |-> t,
                          wallet |-> c, amount |-> amount])

dispute(c, byProof) ==
    /\ openDispute(c, {}, byProof)
    /\ ClientTransaction([type |-> "dispute", id |-> totalDisputes', wallet |-> c])

anybodyHalts ==
    /\ updateHaltedState
    /\ UNCHANGED <<chainVars, outbox, tableVars, lastProcessedBlock, processVars,
                   boundVars>>

\* The tokens are registered before the server starts for the first time, in the
\* order of a list that the deployment has.
deploy(t) ==
    /\ ~up /\ crashes = 0
    /\ t \notin registeredTokens
    /\ t = CHOOSE u \in Tokens : u \notin registeredTokens
    /\ registerToken(t)
    /\ UNCHANGED <<chainVars, outbox, tableVars, lastProcessedBlock, processVars,
                   boundVars>>
-----------------------------------------------------------------------------
(* The ledger. *)

WrongOpeningBalance(t, c, r) ==
    Sum({k \in Rounds : k <= r},
        LAMBDA k : accounts[k][t][c].deposited - accounts[k][t][c].withdrawn)

openingBalance(t, c, r) ==
    Sum({k \in Rounds : k < r},
        LAMBDA k : accounts[k][t][c].deposited - accounts[k][t][c].withdrawn)

balance(t, c, r) ==
    openingBalance(t, c, r) + accounts[r][t][c].deposited
        - accounts[r][t][c].withdrawn - accounts[r][t][c].locked

\* One leaf per client.
getSolvencyTree(t, r) == [c \in Clients |-> openingBalance(t, c, r)]

\* Queries return rows in the order of the table: the first is the one with the
\* smallest index.
uncheckedWithdrawals == {i \in DOMAIN withdrawals : withdrawals[i].status = "unchecked"}
openDisputeRows == {i \in DOMAIN disputeRows : disputeRows[i].open}

WithdrawalsOf(t, c, statuses) ==
    {i \in DOMAIN withdrawals : /\ withdrawals[i].asset = t /\ withdrawals[i].wallet = c
                                /\ withdrawals[i].status \in statuses}

validateWithdrawal(w) ==
    /\ w.amount <= balance(w.asset, w.wallet, w.round)
    /\ WithdrawalsOf(w.asset, w.wallet, {"pending"}) = {}

\* Exchange.addOrder with an order that finds no match, for a client that pays
\* no fee: the balance it sells is locked.
insertOrder(a) ==
    /\ up
    /\ a \notin approvals
    /\ a.round = _round
    /\ a.sellAmount <= balance(a.sellAsset, a.client, a.round)
    /\ accounts' = [accounts EXCEPT ![a.round][a.sellAsset][a.client].locked =
                       @ + a.sellAmount]
    /\ approvals' = approvals \cup {a}
    /\ openApprovals' = openApprovals \cup {a}
    /\ UNCHANGED <<mediatorVars, chainVars, outbox, deposits, withdrawals, disputeRows,
                   lastProcessedBlock, processVars, boundVars>>

RemoveOrder(a) == openApprovals' = openApprovals \ {a}

cancelOrder(a) ==
    /\ up
    /\ a \in openApprovals
    /\ a.round = _round
    /\ accounts' = [accounts EXCEPT ![a.round][a.sellAsset][a.client].locked =
                       @ - a.sellAmount]
    /\ RemoveOrder(a)
    /\ UNCHANGED <<mediatorVars, chainVars, outbox, approvals, deposits, withdrawals,
                   disputeRows, lastProcessedBlock, processVars, boundVars>>
-----------------------------------------------------------------------------
(* The process: processBlocksUpTo and what it calls. *)

block == Head(unprocessed)

\* The process goes on at another await, in the same block.
Goto(next) ==
    /\ pc' = next
    /\ UNCHANGED <<up, _round, _quarter, todo>>

NextItem(next, item) ==
    /\ pc' = next
    /\ todo' = todo \ {item}
    /\ UNCHANGED <<up, _round, _quarter>>

OnlyProcess == UNCHANGED <<mediatorVars, chainVars, outbox, tableVars,
                           lastProcessedBlock, boundVars>>

\* A step of the database.
InDatabase == UNCHANGED <<mediatorVars, chainVars, outbox, lastProcessedBlock, boundVars>>

\* A transaction of the operator that is sent and awaited.
OnChain == UNCHANGED <<chainVars, outbox, tableVars, lastProcessedBlock>>

\* The start of the process: its fields have their initial values.
Start ==
    /\ ~up
    /\ registeredTokens = Tokens
    /\ up' = TRUE
    /\ _round' = 0 /\ _quarter' = 0
    /\ pc' = "idle" /\ todo' = {}
    /\ OnlyProcess

Crash ==
    /\ up
    /\ crashes < MaxCrashes
    /\ crashes' = crashes + 1
    /\ up' = FALSE
    /\ _round' = 0 /\ _quarter' = 0
    /\ pc' = "idle" /\ todo' = {}
    /\ UNCHANGED <<mediatorVars, chainVars, outbox, tableVars, lastProcessedBlock,
                   failures, lost>>

\* A transaction of the operator is not mined: no ether, no network, no answer.
TxFails ==
    /\ failures < MaxFailures
    /\ failures' = failures + 1
    /\ UNCHANGED <<crashes, lost>>

processBlock ==
    /\ up /\ pc = "idle"
    /\ unprocessed # <<>>
    /\ ~halted
    /\ Goto(IF block.event.type = "none" THEN "quarter" ELSE "event")
    /\ OnlyProcess

depositIsNew(e) == e.id \notin deposits

\* The round of the event, not that of the operator.
creditedRound == block.round

onDeposit ==
    LET e == block.event
    IN /\ pc = "event" /\ e.type = "deposit"
       /\ IF depositIsNew(e)
          THEN /\ accounts' = [accounts EXCEPT
                      ![creditedRound][e.asset][e.wallet].deposited = @ + e.amount]
               /\ Goto("recordDeposit")
          ELSE UNCHANGED accounts /\ Goto("quarter")
       /\ UNCHANGED <<deposits, withdrawals, disputeRows, orderVars>>
       /\ InDatabase

saveDepositRecord ==
    /\ pc = "recordDeposit"
    /\ deposits' = deposits \cup {block.event.id}
    /\ Goto("quarter")
    /\ UNCHANGED <<accounts, withdrawals, disputeRows, orderVars>>
    /\ InDatabase

WrongWithdrawalIsNew(e) == TRUE

withdrawalIsNew(e) == \A i \in DOMAIN withdrawals : withdrawals[i].id # e.id

onInitiateWithdrawal ==
    LET e == block.event
    IN /\ pc = "event" /\ e.type = "withdrawal"
       /\ withdrawals' = IF withdrawalIsNew(e)
                         THEN Append(withdrawals,
                                [id |-> e.id, round |-> block.round, asset |-> e.asset,
                                 wallet |-> e.wallet, amount |-> e.amount,
                                 status |-> "unchecked"])
                         ELSE withdrawals
       /\ Goto("quarter")
       /\ UNCHANGED <<accounts, deposits, disputeRows, orderVars>>
       /\ InDatabase

\* The rows are numbered by the database in the order of their insertion, which is
\* the order in which the contract numbers the disputes.
onOpenDispute ==
    LET e == block.event
    IN /\ pc = "event" /\ e.type = "dispute"
       /\ disputeRows' = IF e.id \in DOMAIN disputeRows THEN disputeRows
                         ELSE Append(disputeRows, [round |-> block.round,
                                                   wallet |-> e.wallet, open |-> TRUE])
       /\ Goto("quarter")
       /\ UNCHANGED <<accounts, deposits, withdrawals, orderVars>>
       /\ InDatabase

WrongBeginQuarter == _round' = block.round /\ UNCHANGED _quarter

\* Set before the work of the quarter is done.
BeginQuarter == _round' = block.round /\ _quarter' = block.quarter

\* The handlers of processDepositCompletedEvents and the two like it log what is
\* thrown, and go on with the block: the event is lost.
eventFails ==
    /\ pc \in {"event", "recordDeposit"}
    /\ lost < MaxLost
    /\ lost' = lost + 1
    /\ Goto("quarter")
    /\ UNCHANGED <<mediatorVars, chainVars, outbox, tableVars, lastProcessedBlock,
                   crashes, failures>>

\* The quarter of the block is compared with the last one that was begun.
onNewQuarter ==
    /\ pc = "quarter"
    /\ IF block.quarter = _quarter
       THEN Goto("save")
       ELSE /\ BeginQuarter
            /\ pc' = "moderate"
            /\ todo' = uncheckedWithdrawals
            /\ UNCHANGED up
    /\ OnlyProcess

WrongRemainingBlocks == <<>>

\* The block saved is the one processed, not the last one mined.
RemainingBlocks == Tail(unprocessed)

saveLastProcessedBlock ==
    /\ pc = "save"
    /\ lastProcessedBlock' = [round |-> block.round, quarter |-> block.quarter]
    /\ unprocessed' = RemainingBlocks
    /\ Goto("idle")
    /\ UNCHANGED <<mediatorVars, quarterMined, events, outbox, tableVars, boundVars>>

\* The exception handler of processBlocksUpTo.  The block is not saved, and is
\* begun again at the next one.
onFailure ==
    /\ pc = "failed"
    /\ \/ updateHaltedState /\ UNCHANGED boundVars
       \/ ~HaltDue /\ UNCHANGED <<mediatorVars, boundVars>>
       \/ TxFails /\ UNCHANGED mediatorVars
    /\ Goto("idle")
    /\ OnChain
-----------------------------------------------------------------------------
(* Moderation of withdrawal requests. *)

row == Min(todo)
request == withdrawals[row]

\* The request is valid, and is approved in two more steps, or it is not, and is
\* to be cancelled on the chain.
moderateWithdrawalRequest ==
    /\ pc = "moderate"
    /\ todo # {}
    /\ Goto(IF validateWithdrawal(request) THEN "approve" ELSE "cancel")
    /\ OnlyProcess

\* approveWithdrawal validates again; what it throws then ends the quarter.
approveWithdrawal ==
    /\ pc = "approve"
    /\ Goto(IF validateWithdrawal(request) THEN "book" ELSE "failed")
    /\ OnlyProcess

bookWithdrawal ==
    /\ pc = "book"
    /\ withdrawals' = [withdrawals EXCEPT ![row].status = "pending"]
    /\ accounts' = [accounts EXCEPT
          ![request.round][request.asset][request.wallet].withdrawn = @ + request.amount]
    /\ NextItem("moderate", row)
    /\ UNCHANGED <<deposits, disputeRows, orderVars>>
    /\ InDatabase

\* The approvals shown are those of the round of the request, open or not.
ShownApprovals(w) == {a \in approvals : /\ a.client = w.wallet /\ a.round = w.round
                                        /\ a.sellAsset = w.asset}

WrongCancellationFailed == Goto("cancelled")

\* What the transaction throws is logged, and the row stays as it is.
CancellationFailed == NextItem("moderate", row)

requestCancellation ==
    /\ pc = "cancel"
    /\ LET Call == cancelWithdrawal(request.wallet, request.asset, ShownApprovals(request))
       IN \/ Call /\ Goto("cancelled") /\ UNCHANGED boundVars
          \/ /\ ~ENABLED Call
             /\ CancellationFailed
             /\ UNCHANGED <<mediatorVars, boundVars>>
          \/ TxFails /\ CancellationFailed /\ UNCHANGED mediatorVars
    /\ OnChain

\* The ledger cancels the first request of the client that is not finished.  If
\* there is none it throws, and the exception is only logged.
cancelWithdrawalInLedger ==
    LET live == WithdrawalsOf(request.asset, request.wallet, {"unchecked", "pending"})
        i == Min(live)
        w == withdrawals[i]
    IN /\ pc = "cancelled"
       /\ IF live = {} THEN UNCHANGED <<accounts, withdrawals>>
          ELSE /\ withdrawals' = [withdrawals EXCEPT ![i].status = "canceled"]
               /\ accounts' = IF w.status = "pending"
                     THEN [accounts EXCEPT ![w.round][w.asset][w.wallet].withdrawn =
                              @ - w.amount]
                     ELSE accounts
       /\ NextItem("moderate", row)
       /\ UNCHANGED <<deposits, disputeRows, orderVars>>
       /\ InDatabase

\* The client claims; the listener of the process, if it runs, marks the first
\* pending request of the client.  Claim and mark are one step: in the code blocks and
\* other handlers may come between them (Operator.ts:235).
claimWithdrawal(c, t) ==
    LET pending == WithdrawalsOf(t, c, {"pending"})
    IN /\ confirmWithdrawal(c, t)
       /\ withdrawals' = IF up /\ pending # {}
             THEN [withdrawals EXCEPT ![Min(pending)].status = "confirmed"]
             ELSE withdrawals
       /\ UNCHANGED <<chainVars, outbox, accounts, deposits, disputeRows, orderVars,
                      lastProcessedBlock, processVars, boundVars>>
-----------------------------------------------------------------------------
(* Disputes. *)

processOpenDisputes ==
    /\ pc = "moderate"
    /\ todo = {}
    /\ pc' = "dispute"
    /\ todo' = openDisputeRows
    /\ UNCHANGED <<up, _round, _quarter>>
    /\ OnlyProcess

disputeRow == disputeRows[row]

\* Nothing was traded, so the call shows no fills.
requestClosing ==
    /\ pc = "dispute"
    /\ todo # {}
    /\ LET Call == closeDispute(disputeRow.wallet, {}, <<>>)
       IN \/ Call /\ Goto("closed") /\ UNCHANGED boundVars
          \/ ~ENABLED Call /\ Goto("failed") /\ UNCHANGED <<mediatorVars, boundVars>>
          \/ TxFails /\ Goto("failed") /\ UNCHANGED mediatorVars
    /\ OnChain

SameDispute(i, j) ==
    /\ disputeRows[i].round = disputeRows[j].round
    /\ disputeRows[i].wallet = disputeRows[j].wallet

CloseRow(i) == disputeRows' = [disputeRows EXCEPT ![i].open = FALSE]

\* The update is keyed by round and wallet and writes the whole row, its primary
\* key included: with two rows of the same dispute it throws.
updateDispute ==
    /\ pc = "closed"
    /\ IF \E i \in DOMAIN disputeRows : i # row /\ SameDispute(i, row)
       THEN UNCHANGED disputeRows /\ Goto("failed")
       ELSE CloseRow(row) /\ NextItem("dispute", row)
    /\ UNCHANGED <<accounts, deposits, withdrawals, orderVars>>
    /\ InDatabase

WrongIsNewRound == _quarter = 1

isNewRound == _quarter = 0

\* A new round starts with the commits of the one before.
goToRound ==
    /\ pc = "dispute"
    /\ todo = {}
    /\ IF isNewRound
       THEN /\ pc' = "commit"
            /\ todo' = Tokens
            /\ UNCHANGED <<up, _round, _quarter>>
       ELSE Goto("save")
    /\ OnlyProcess
-----------------------------------------------------------------------------
(* Commits. *)

\* The root of one asset is read and its transaction sent, not awaited.
sendCommit ==
    /\ pc = "commit"
    /\ \E t \in todo :
          LET sent == [asset |-> t, leaves |-> getSolvencyTree(t, _round)]
          IN /\ outbox' = IF commits[_round][t] = NoRoot THEN outbox \cup {sent} ELSE outbox
             /\ NextItem("commit", t)
    /\ UNCHANGED <<mediatorVars, chainVars, tableVars, lastProcessedBlock, boundVars>>

awaitCommits ==
    /\ pc = "commit"
    /\ todo = {}
    /\ Goto("committing")
    /\ OnlyProcess

commitsDone ==
    /\ pc = "committing"
    /\ outbox = {}
    /\ Goto("save")
    /\ OnlyProcess

\* The tree of the leaves proves them, if they add up to the balance that the
\* contract computes, and otherwise nothing.
Tree(leaves) == [c \in Clients |-> {leaves[c]}]

Root(leaves, closing) ==
    IF SumFunction(leaves) = closing /\ \A c \in Clients : leaves[c] >= 0
    THEN Tree(leaves) ELSE Unprovable

CommitOf(tx) == commit(tx.asset, Root(tx.leaves, previousClosingBalance(tx.asset)))

commitMined(tx) ==
    /\ CommitOf(tx)
    /\ outbox' = outbox \ {tx}
    /\ UNCHANGED <<chainVars, tableVars, lastProcessedBlock, processVars, boundVars>>

\* The process learns of it when it has sent all: Promise.all rejects.
commitRejected(tx) ==
    /\ pc # "commit"
    /\ \/ ~ENABLED CommitOf(tx) /\ UNCHANGED boundVars
       \/ TxFails
    /\ outbox' = outbox \ {tx}
    /\ Goto(IF pc = "committing" THEN "failed" ELSE pc)
    /\ UNCHANGED <<mediatorVars, chainVars, tableVars, lastProcessedBlock>>
-----------------------------------------------------------------------------
OpClientStep(c) ==
    \/ \E t \in Tokens : \E amount \in Amounts(t) :
          deposit(c, t, amount) \/ requestWithdrawal(c, t, amount)
    \/ \E t \in Tokens : claimWithdrawal(c, t)
    \/ \E byProof \in BOOLEAN : dispute(c, byProof)

Process ==
    \/ processBlock \/ onDeposit \/ saveDepositRecord \/ onInitiateWithdrawal
    \/ onOpenDispute \/ eventFails \/ onNewQuarter \/ saveLastProcessedBlock \/ onFailure
    \/ moderateWithdrawalRequest \/ approveWithdrawal \/ bookWithdrawal
    \/ requestCancellation \/ cancelWithdrawalInLedger
    \/ processOpenDisputes \/ requestClosing \/ updateDispute
    \/ goToRound \/ sendCommit \/ awaitCommits \/ commitsDone

OpNext ==
    \/ Clock \/ MineEmptyBlock \/ anybodyHalts
    \/ \E t \in Tokens : deploy(t)
    \/ Start \/ Crash \/ Process
    \/ \E tx \in outbox : commitMined(tx) \/ commitRejected(tx)
    \/ \E a \in Approvals : insertOrder(a) \/ cancelOrder(a)
    \/ \E c \in Clients : OpClientStep(c)

OpSpec == OpInit /\ [][OpNext]_opVars

\* The process takes its next step when there is one, and a transaction that was
\* sent is mined or given up: submitAndWaitForTx polls and sends it again a bounded
\* number of times.
OpFairSpec ==
    /\ OpSpec
    /\ WF_opVars(Process)
    /\ WF_opVars(\E tx \in outbox : commitMined(tx) \/ commitRejected(tx))
=============================================================================
