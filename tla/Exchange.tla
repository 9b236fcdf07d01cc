------------------------------ MODULE Exchange ------------------------------
(***************************************************************************)
(* The exchange, src/src/server/exchange/Exchange.ts, on the ledger, with  *)
(* the parts of the operator that change the ledger under it.              *)
(*                                                                         *)
(* A request to add an order is a process that runs from one await to the  *)
(* next; every step below is at most one database transaction, with the    *)
(* reads of memory that follow it.  Requests take the lock of the matching *)
(* engine; cancellations, balance queries and the operator do not.         *)
(*                                                                         *)
(* A definition named Wrong... is the one after it with a mistake in it:   *)
(* TLC must find what the mistake breaks.                                  *)
(***************************************************************************)
EXTENDS MetaLedger, Matching

CONSTANTS
    Operator,       \* the wallet that receives the fees
    FeeAsset, FeeAmount,
    Requests,       \* calls of addOrder
    OrderOf,        \* request -> the approval of the order; a retry repeats one
    Joiners,        \* the wallets that are not registered at first
    Cancellable,    \* bound: the approvals somebody tries to cancel
    Deposits,       \* bound: the deposits made, [id, wallet, asset, amount]
    Asked,          \* bound: the withdrawals asked for, [id, wallet, asset, amount]
    Queries,        \* bound: the balances asked for, [wallet, asset]
    MaxCrashes      \* bound

NoOne == "nobody"

Orders == {OrderOf[r] : r \in Requests}

\* What a client may sign as an order; the id is its number and what it is for.
Order == [id : Nat \X {"order"}, client : Wallets \ {Operator}, round : Rounds,
          intent : BOOLEAN, buyAsset : Assets, buyAmount : Nat \ {0},
          sellAsset : Assets, sellAmount : Nat \ {0}]

FeeOf(order) ==
    [order EXCEPT !.id[2] = "fee", !.intent = FALSE,
                  !.buyAsset = FeeAsset, !.buyAmount = 0,
                  !.sellAsset = FeeAsset, !.sellAmount = FeeAmount]

\* The fee approval flipped, with a new id.
operatorApprovalForFee(fee) ==
    [fee EXCEPT !.id[2] = "operator", !.client = Operator, !.intent = ~fee.intent,
                !.buyAsset = fee.sellAsset, !.buyAmount = fee.sellAmount,
                !.sellAsset = fee.buyAsset, !.sellAmount = fee.buyAmount]

Fees == {FeeOf(o) : o \in Orders}

\* An id names one approval: the ids of clients are unique in the database.
ASSUME ExchangeAssumption ==
    /\ Operator \in Wallets /\ FeeAsset \in Assets /\ FeeAmount \in Nat
    /\ IsFiniteSet(Requests) /\ NoOne \notin Requests
    /\ Orders \subseteq Order /\ \A o, p \in Orders : o.id = p.id => o = p
    /\ \A o \in Orders : o.buyAsset # o.sellAsset
    /\ Approvals = Orders \cup Fees \cup {operatorApprovalForFee(f) : f \in Fees}
    /\ Joiners \subseteq Wallets \ {Operator}
    /\ Cancellable \subseteq Orders \cup Fees
    /\ \A m \in Deposits \cup Asked \cup Queries : m.wallet \in Wallets /\ m.asset \in Assets
    /\ \A m \in Deposits \cup Asked : m.amount \in Nat
    /\ MaxRound \in Nat /\ MaxCrashes \in Nat

VARIABLES
    pc,             \* request -> where it is
    matchLock,      \* the request that holds the lock of the matching engine
    todo,           \* request -> the fills it has still to add
    fillId,         \* request -> the id of the fill it is adding, 0 before it has one
    admitting,      \* wallet -> the round it is being registered in, or NotJoined
    cancelling,     \* approvals looked up by cancelOrder and not cancelled yet
    round,          \* the round of the operator, which the exchange reads
    blockRound,     \* the round of the block the operator is processing
    operatorPc,     \* where the operator is in onNewQuarter
    moderating,     \* the unchecked withdrawals it has still to moderate
    leaves,         \* the opening balances it has read for its commits
    credited,       \* deposits processed
    asked,          \* withdrawals asked for
    contract,       \* what the contract holds of each: "active", "canceled" or, once
                    \* paid, "claimed" while its event is on the way, then "paid"
    crashes

requestVars == <<pc, matchLock, todo, fillId, admitting>>
operatorVars == <<round, blockRound, operatorPc, moderating, leaves, credited, asked,
                 contract>>
exchangeVars == <<ledgerVars, requestVars, cancelling, operatorVars, crashes>>

Ended == {"done", "unmatched", "rejected", "lost"}

ExchangeInit ==
    /\ LedgerInit /\ \A w \in Wallets : joined[w] = IF w \in Joiners THEN NotJoined ELSE 0
    /\ admitting = [w \in Wallets |-> NotJoined]
    /\ pc = [r \in Requests |-> "new"] /\ matchLock = NoOne
    /\ todo = [r \in Requests |-> <<>>] /\ fillId = [r \in Requests |-> 0]
    /\ cancelling = {}
    /\ round = 0 /\ blockRound = 0 /\ operatorPc = "idle" /\ moderating = {}
    /\ leaves = {} /\ credited = {} /\ asked = {} /\ contract = <<>> /\ crashes = 0

(***************************************************************************)
(* admit: the round is read before the wallet is looked up and stored.  A  *)
(* call for a registered wallet changes nothing.                           *)
(***************************************************************************)
admit(w) ==
    /\ ~isClientRegistered(w) /\ admitting[w] = NotJoined
    /\ admitting' = [admitting EXCEPT ![w] = round]
    /\ UNCHANGED <<ledgerVars, pc, matchLock, todo, fillId, cancelling, operatorVars, crashes>>

storeWallet(w) ==
    /\ admitting[w] # NotJoined
    /\ register(w, admitting[w])
    /\ admitting' = [admitting EXCEPT ![w] = NotJoined]
    /\ UNCHANGED <<accounts, rows, fills, trades, withdrawals, cache, pc, matchLock, todo,
                   fillId, cancelling, operatorVars, crashes>>

(***************************************************************************)
(* addOrder.                                                               *)
(***************************************************************************)
Goto(r, place) == pc' = [pc EXCEPT ![r] = place]

WrongFinish(r, place) ==
    /\ Goto(r, place) /\ UNCHANGED matchLock
    /\ todo' = [todo EXCEPT ![r] = <<>>] /\ fillId' = [fillId EXCEPT ![r] = 0]

\* The end of addOrder: finally unlocks.
Finish(r, place) ==
    /\ Goto(r, place) /\ matchLock' = NoOne
    /\ todo' = [todo EXCEPT ![r] = <<>>] /\ fillId' = [fillId EXCEPT ![r] = 0]

WrongLock(r) ==
    /\ pc[r] = "new"
    /\ matchLock' = r /\ Goto(r, "check")
    /\ UNCHANGED <<ledgerVars, todo, fillId, admitting, cancelling, operatorVars, crashes>>

\* createOrder checks the market, the signatures and the precision of the
\* approvals, which holds of all in Approvals, and waits for the lock.
lock(r) ==
    /\ pc[r] = "new" /\ matchLock = NoOne
    /\ matchLock' = r /\ Goto(r, "check")
    /\ UNCHANGED <<ledgerVars, todo, fillId, admitting, cancelling, operatorVars, crashes>>

\* checkFeeApproval and checkApproval: the round and the client.  The round is
\* not looked at again before the approvals are stored.
checkApproval(r) ==
    /\ pc[r] = "check"
    /\ IF OrderOf[r].round = round /\ isClientRegistered(OrderOf[r].client)
       THEN Goto(r, "insert") /\ UNCHANGED <<matchLock, todo, fillId>>
       ELSE Finish(r, "rejected")
    /\ UNCHANGED <<ledgerVars, admitting, cancelling, operatorVars, crashes>>

storeOrder(r) ==
    /\ pc[r] = "insert"
    /\ \/ /\ insertOrder(OrderOf[r], FeeOf(OrderOf[r]))
          /\ Goto(r, "fee") /\ UNCHANGED <<matchLock, todo, fillId>>
       \/ /\ insertOrderFails(OrderOf[r], FeeOf(OrderOf[r]))
          /\ Finish(r, "rejected") /\ UNCHANGED <<accounts, rows>>
    /\ UNCHANGED <<joined, fills, trades, withdrawals, admitting, cancelling, operatorVars, crashes>>

FillOf(p) == [approval |-> p.id, buy |-> p.buyAmount, sell |-> p.sellAmount,
              round |-> p.round]

\* processFeeApproval, up to the fills: the operator's side of the fee.
storeOperatorApproval(r) ==
    LET fee == FeeOf(OrderOf[r])
        own == operatorApprovalForFee(fee)
    IN /\ pc[r] = "fee"
       /\ IF Backed(cache, own)
          THEN /\ insertApproval(own)
               /\ Goto(r, "feeFills") /\ UNCHANGED <<matchLock, fillId>>
               /\ todo' = [todo EXCEPT ![r] = <<FillOf(fee), FillOf(own)>>]
          ELSE /\ cache' = Seen(cache, own) /\ UNCHANGED <<accounts, rows>>
               /\ Finish(r, "rejected")
       /\ UNCHANGED <<joined, fills, trades, withdrawals, admitting, cancelling, operatorVars,
                      crashes>>

\* addFill reads the number of fills, then has the fill signed and inserts it.
readFillId(r) ==
    /\ pc[r] \in {"feeFills", "tradeFills"} /\ todo[r] # <<>> /\ fillId[r] = 0
    /\ fillId' = [fillId EXCEPT ![r] = getNextFillId]
    /\ UNCHANGED <<ledgerVars, pc, matchLock, todo, admitting, cancelling, operatorVars, crashes>>

ApprovalWithId(id) == CHOOSE p \in Approvals : p.id = id

\* An error while the fee is filled rejects the request, and the order stays in
\* the book; one while the trades are registered is logged only, and the fills
\* already inserted stay.
addFill(r) ==
    LET fill == Head(todo[r])
        p == ApprovalWithId(fill.approval)
        last == Len(todo[r]) = 1
    IN /\ pc[r] \in {"feeFills", "tradeFills"} /\ todo[r] # <<>> /\ fillId[r] # 0
       /\ \/ /\ insertFill(fillId[r], p, fill.buy, fill.sell, fill.round)
             /\ IF last /\ pc[r] = "tradeFills" THEN Finish(r, "done")
                ELSE /\ todo' = [todo EXCEPT ![r] = Tail(@)]
                     /\ fillId' = [fillId EXCEPT ![r] = 0]
                     /\ pc' = [pc EXCEPT ![r] = IF last THEN "match" ELSE @]
                     /\ UNCHANGED matchLock
          \/ /\ ~FillAccepted(fillId[r], p, fill.sell, fill.round)
             /\ Finish(r, IF pc[r] = "feeFills" THEN "rejected" ELSE "unmatched")
             /\ UNCHANGED <<accounts, rows, fills, cache>>
       /\ UNCHANGED <<joined, trades, withdrawals, admitting, cancelling, operatorVars, crashes>>

\* The open approvals of the current round that sell what p buys; what is left of
\* each on the side of its intent.
Remaining(p) ==
    Side(p) - (IF p.intent THEN rows[p].filledBuy ELSE rows[p].filledSell)

MakersFor(p) ==
    {mkMatch(m, Remaining(m), rows[m].priority) :
        m \in {x \in Approvals : /\ rows[x].status = "open" /\ x.round = round
                                 /\ x.buyAsset = p.sellAsset /\ x.sellAsset = p.buyAsset
                                 /\ priceMatch(p, x)}}

\* createTradesForApproval.  The makers are looked up in the round of now.  The query
\* also compares the stored prices, which are rounded (Exchange.ts:152-163); here only
\* priceMatch decides, which the engine applies again.
createTradesForApproval(r) ==
    LET p == OrderOf[r]
        taker == mkMatch(p, Side(p), rows[p].priority)
        new == createTrades(taker, MakersFor(p))
    IN /\ pc[r] = "match"
       /\ IF new = <<>>
          THEN Finish(r, IF Throws(taker, MakersFor(p)) THEN "unmatched" ELSE "done")
          ELSE /\ Goto(r, "tradeFills") /\ UNCHANGED <<matchLock, fillId>>
               /\ todo' = [todo EXCEPT ![r] = fillsOf(new)]
       /\ insertTrades(ToSet(new))
       /\ UNCHANGED <<joined, accounts, rows, fills, withdrawals, cache, admitting,
                      cancelling, operatorVars, crashes>>

addOrder(r) ==
    \/ lock(r) \/ checkApproval(r) \/ storeOrder(r) \/ storeOperatorApproval(r)
    \/ readFillId(r) \/ addFill(r) \/ createTradesForApproval(r)

(***************************************************************************)
(* cancelOrder, without the lock: the approval is looked up among those of *)
(* the round, and cancelled later in a transaction that looks at its       *)
(* status only.                                                            *)
(***************************************************************************)
findForCancel(p) ==
    /\ rows[p].status # "none" /\ p.round = round /\ p \notin cancelling
    /\ rows[p].status # "canceled"
    /\ cancelling' = cancelling \cup {p}
    /\ UNCHANGED <<ledgerVars, requestVars, operatorVars, crashes>>

cancelOrder(p) ==
    /\ p \in cancelling
    /\ cancelling' = cancelling \ {p}
    /\ IF rows[p].status = "open" THEN cancelApproval(p)
                                  ELSE UNCHANGED <<accounts, rows, cache>>
    /\ UNCHANGED <<joined, fills, trades, withdrawals, requestVars, operatorVars, crashes>>

\* balances(): reads the balance of the current round through the cache.
balances(q) ==
    /\ cache' = Remember(cache, q.asset, q.wallet, round)
    /\ UNCHANGED <<tables, requestVars, cancelling, operatorVars, crashes>>

(***************************************************************************)
(* The operator: the events of the blocks, then onNewQuarter.              *)
(***************************************************************************)
nextRound ==
    /\ operatorPc = "idle" /\ blockRound = round /\ blockRound < MaxRound
    /\ blockRound' = blockRound + 1
    /\ UNCHANGED <<ledgerVars, requestVars, cancelling, round, operatorPc, moderating,
                   leaves, credited, asked, contract, crashes>>

onDeposit(d) ==
    /\ operatorPc = "idle" /\ d \notin credited
    /\ creditDeposit(d.asset, d.wallet, d.amount, blockRound)
    /\ credited' = credited \cup {d}
    /\ UNCHANGED <<joined, rows, fills, trades, withdrawals, requestVars, cancelling, round,
                   blockRound, operatorPc, moderating, leaves, asked, contract, crashes>>

\* The contract takes a request for at most the balance at the opening of the
\* round before, and one at a time of a client and an asset.
onInitiateWithdrawal(w) ==
    /\ operatorPc = "idle" /\ w \notin asked
    /\ blockRound > 0 /\ w.amount <= openingBalance(w.asset, w.wallet, blockRound - 1)
    /\ \A i \in DOMAIN withdrawals :
          withdrawals[i].asset = w.asset /\ withdrawals[i].wallet = w.wallet =>
              contract[i] # "active"
    /\ insertWithdrawal([asset |-> w.asset, wallet |-> w.wallet, amount |-> w.amount,
                         round |-> blockRound, status |-> "unchecked"])
    /\ asked' = asked \cup {w} /\ contract' = Append(contract, "active")
    /\ UNCHANGED <<joined, accounts, rows, fills, trades, cache, requestVars, cancelling,
                   round, blockRound, operatorPc, moderating, leaves, credited, crashes>>

\* Two rounds later the client is paid.
confirmWithdrawal(i) ==
    /\ contract[i] = "active" /\ blockRound >= withdrawals[i].round + 2
    /\ contract' = [contract EXCEPT ![i] = "claimed"]
    /\ UNCHANGED <<ledgerVars, requestVars, cancelling, round, blockRound, operatorPc,
                   moderating, leaves, credited, asked, crashes>>

\* The event of the payment comes to a live listener and not with a block; when
\* no request of the client is pending, the ledger throws.
onConfirmWithdrawal(i) ==
    /\ contract[i] = "claimed"
    /\ contract' = [contract EXCEPT ![i] = "paid"]
    /\ \/ confirmWithdrawalAsync(withdrawals[i])
       \/ FirstOf(withdrawals[i], {"pending"}) = {} /\ UNCHANGED withdrawals
    /\ UNCHANGED <<joined, accounts, rows, fills, trades, cache, requestVars, cancelling,
                   round, blockRound, operatorPc, moderating, leaves, credited, asked,
                   crashes>>

Unchecked == {i \in DOMAIN withdrawals : withdrawals[i].status = "unchecked"}

AfterModeration(commits) == IF commits THEN "commit" ELSE "idle"

\* The round of the operator changes first; then the withdrawals are moderated,
\* and in quarter 0 the balances of the finished round are committed.
onNewQuarter ==
    /\ operatorPc = "idle"
    /\ round # blockRound \/ Unchecked # {}
    /\ round' = blockRound
    /\ moderating' = Unchecked
    /\ operatorPc' = IF Unchecked # {} THEN "moderate"
                     ELSE AfterModeration(round # blockRound)
    /\ UNCHANGED <<ledgerVars, requestVars, cancelling, blockRound, leaves, credited,
                   asked, contract, crashes>>

\* Whether this round has been committed follows from the leaves read.
Uncommitted == \A l \in leaves : l.round # round

\* The withdrawals are moderated in the order of their ids.
request == Min(moderating)
Moderated == withdrawals[request]

EndModeration ==
    /\ moderating' = moderating \ {request}
    /\ operatorPc' = IF moderating' # {} THEN "moderate"
                     ELSE AfterModeration(Uncommitted /\ round > 0)

\* What validateWithdrawal leaves in the cache.
SeenFor(w) == Remember(cache, w.asset, w.wallet, w.round)

\* moderateWithdrawalRequest validates the request and then, in
\* approveWithdrawal, once more; the balance goes through the cache both times.
Validate(here, next) ==
    /\ operatorPc = here /\ WithdrawalValid(Moderated)
    /\ cache' = SeenFor(Moderated)
    /\ operatorPc' = next
    /\ UNCHANGED <<tables, requestVars, cancelling, round, blockRound, moderating,
                   leaves, credited, asked, contract, crashes>>

moderateWithdrawalRequest == Validate("moderate", "validate")
validateWithdrawal == Validate("validate", "approve")

\* The second validation throws: onNewQuarter is abandoned.
moderationThrows ==
    /\ operatorPc = "validate" /\ ~WithdrawalValid(Moderated)
    /\ cache' = SeenFor(Moderated)
    /\ operatorPc' = "idle" /\ moderating' = {}
    /\ UNCHANGED <<tables, requestVars, cancelling, round, blockRound, leaves,
                   credited, asked, contract, crashes>>

approve ==
    /\ operatorPc = "approve"
    /\ approveWithdrawal(request)
    /\ EndModeration
    /\ UNCHANGED <<joined, rows, fills, trades, requestVars, cancelling, round, blockRound,
                   leaves, credited, asked, contract, crashes>>

\* The approvals of the round of the request that sell its asset, open or not,
\* are shown to the contract.
Reserved(w) ==
    MapThenSumSet(LAMBDA p : p.sellAmount,
                  {p \in Approvals : /\ rows[p].status # "none" /\ p.client = w.wallet
                                     /\ p.round = w.round /\ p.sellAsset = w.asset})

\* cancelWithdrawal of the contract: what is reserved leaves less than requested
\* of the balance that the request was proved with.  SafeMath reverts below 0.
CancelledByContract(w) ==
    LET available == openingBalance(w.asset, w.wallet, w.round - 1) - Reserved(w)
    IN 0 <= available /\ available < w.amount

\* An invalid request is cancelled on the chain, and then here; when the contract
\* reverts, the error is logged and the request stays as it is.
cancelInvalid ==
    /\ operatorPc = "moderate" /\ ~WithdrawalValid(Moderated)
    /\ IF CancelledByContract(Moderated)
       THEN /\ contract' = [contract EXCEPT ![request] = "canceled"]
            /\ cancelWithdrawalAsync(SeenFor(Moderated), Moderated)
       ELSE cache' = SeenFor(Moderated) /\ UNCHANGED <<accounts, withdrawals, contract>>
    /\ EndModeration
    /\ UNCHANGED <<joined, rows, fills, trades, requestVars, cancelling, round,
                   blockRound, leaves, credited, asked, crashes>>

\* getSolvencyTree reads one account after the other, for one asset after the
\* other, in the order of the wallets' ids; here in some fixed order.
Leaf(a, w) == [round |-> round, asset |-> a, wallet |-> w, sum |-> openingBalance(a, w, round)]

AccountsInOrder == SetToSeq(Assets \X Wallets)

Unread ==
    SelectSeq(AccountsInOrder,
              LAMBDA x : /\ joined[x[2]] < round
                         /\ \A l \in leaves : <<l.round, l.asset, l.wallet>> # <<round>> \o x)

readAccount ==
    /\ operatorPc = "commit" /\ Unread # <<>>
    /\ leaves' = leaves \cup {Leaf(Head(Unread)[1], Head(Unread)[2])}
    /\ operatorPc' = IF Len(Unread) = 1 THEN "idle" ELSE "commit"
    /\ UNCHANGED <<ledgerVars, requestVars, cancelling, round, blockRound, moderating,
                   credited, asked, contract, crashes>>

OperatorStep ==
    \/ nextRound \/ onNewQuarter
    \/ \E d \in Deposits : onDeposit(d)
    \/ \E w \in Asked : onInitiateWithdrawal(w)
    \/ \E i \in DOMAIN withdrawals : confirmWithdrawal(i) \/ onConfirmWithdrawal(i)
    \/ moderateWithdrawalRequest \/ validateWithdrawal \/ moderationThrows
    \/ approve \/ cancelInvalid \/ readAccount

(***************************************************************************)
(* A crash loses the memory: requests under way get no answer, the cache   *)
(* is empty, a tree that was being read is read again, and an event that   *)
(* only a listener hears is missed.  The round is 0 until the next new     *)
(* quarter.                                                                *)
(***************************************************************************)
Restart ==
    /\ crashes < MaxCrashes
    /\ crashes' = crashes + 1
    /\ pc' = [r \in Requests |-> IF pc[r] \in Ended \cup {"new"} THEN pc[r] ELSE "lost"]
    /\ matchLock' = NoOne
    /\ todo' = [r \in Requests |-> <<>>] /\ fillId' = [r \in Requests |-> 0]
    /\ admitting' = [w \in Wallets |-> NotJoined] /\ cancelling' = {}
    /\ cache' = [a \in Assets |-> [w \in Wallets |-> NotCached]]
    /\ round' = 0 /\ operatorPc' = "idle" /\ moderating' = {}
    /\ contract' = [i \in DOMAIN contract |->
                      IF contract[i] = "claimed" THEN "paid" ELSE contract[i]]
    /\ leaves' = {l \in leaves : operatorPc # "commit" \/ l.round # round}
    /\ UNCHANGED <<tables, blockRound, credited, asked>>

ExchangeNext ==
    \/ \E w \in Wallets : admit(w) \/ storeWallet(w)
    \/ \E r \in Requests : addOrder(r)
    \/ \E p \in Cancellable : findForCancel(p) \/ cancelOrder(p)
    \/ \E q \in Queries : balances(q)
    \/ OperatorStep
    \/ Restart

ExchangeSpec == ExchangeInit /\ [][ExchangeNext]_exchangeVars
=============================================================================
