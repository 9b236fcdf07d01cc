----------------------------- MODULE MetaLedger -----------------------------
(***************************************************************************)
(* The ledger of the hub, src/src/common/accounting/MetaLedger.ts, over    *)
(* the tables of src/src/common/persistence.                               *)
(*                                                                         *)
(* The database is SQLite behind a pool of one connection, so a            *)
(* transaction is atomic with respect to every other statement: one        *)
(* operator below describes all that a method of the ledger does in its    *)
(* transaction.  The cache of balances is in memory; a transaction that    *)
(* fails restores the tables and leaves the cache as it is.                *)
(*                                                                         *)
(* An approval stands for its row.  Approvals are records as in            *)
(* DisputeAccounting, with the row id as their priority.                   *)
(*                                                                         *)
(* A definition named Wrong... is the one after it with a mistake in it:   *)
(* TLC must find what the mistake breaks.                                  *)
(***************************************************************************)
EXTENDS Integers, Sequences, FiniteSetsExt

CONSTANTS
    Wallets,        \* the clients and the operator
    Assets,
    Approvals,      \* every approval that may be handed in
    MaxRound        \* bound

Rounds == 0 .. MaxRound

VARIABLES
    (* the database *)
    joined,         \* wallet -> the round it joined in, or NotJoined
    accounts,       \* round -> asset -> wallet -> what was booked in the round
    rows,           \* approval -> its row
    fills,          \* the fills stored
    trades,         \* the trades stored
    withdrawals,    \* the withdrawals, in the order of their ids
    (* the memory of the process *)
    cache           \* asset -> wallet -> balance in one round

tables == <<joined, accounts, rows, fills, trades, withdrawals>>
ledgerVars == <<tables, cache>>

NotJoined == MaxRound + 1
NoRow == [status |-> "none", filledBuy |-> 0, filledSell |-> 0, priority |-> 0]
NoAccount == [deposited |-> 0, withdrawn |-> 0, bought |-> 0, sold |-> 0, locked |-> 0]
NotCached == [round |-> -1, balance |-> 0]

Account == [deposited : Int, withdrawn : Int, bought : Int, sold : Int, locked : Int]
Row == [status : {"none", "open", "closed", "canceled"}, filledBuy : Nat, filledSell : Nat,
        priority : Nat]
Withdrawal == [asset : Assets, wallet : Wallets, amount : Nat, round : Rounds,
               status : {"unchecked", "pending", "confirmed", "canceled"}]

LedgerInit ==
    /\ joined \in [Wallets -> {NotJoined, 0}]
    /\ accounts = [r \in Rounds |-> [a \in Assets |-> [w \in Wallets |-> NoAccount]]]
    /\ rows = [p \in Approvals |-> NoRow]
    /\ fills = {} /\ trades = {} /\ withdrawals = <<>>
    /\ cache = [a \in Assets |-> [w \in Wallets |-> NotCached]]

isClientRegistered(w) == joined[w] # NotJoined

register(w, round) ==
    joined' = IF isClientRegistered(w) THEN joined ELSE [joined EXCEPT ![w] = round]

(***************************************************************************)
(* Balances.                                                               *)
(***************************************************************************)
Book(booked, r, a, w, field, amount) ==
    [booked EXCEPT ![r][a][w][field] = @ + amount]

Net(account) ==
    account.deposited + account.bought - account.withdrawn - account.sold

NetBefore(booked, a, w, r) ==
    SumFunctionOnSet([q \in Rounds |-> Net(booked[q][a][w])], 0 .. r - 1)

openingBalance(a, w, r) == NetBefore(accounts, a, w, r)

\* What a wallet can use in a round: everything booked so far, less what its
\* orders of this round have locked.
calculateBalance(booked, a, w, r) ==
    NetBefore(booked, a, w, r + 1) - booked[r][a][w].locked

\* balance(): the cached value if it is of this round; else it is computed and
\* cached, in place of that of another round.  Query and store are one step: what other
\* requests book during the await between them (MetaLedger.ts:282-284) is not in the
\* code's cached value and is in the one here.
Remember(cached, a, w, r) ==
    IF cached[a][w].round = r THEN cached
    ELSE [cached EXCEPT ![a][w] =
            [round |-> r, balance |-> calculateBalance(accounts, a, w, r)]]

balance(cached, a, w, r) == Remember(cached, a, w, r)[a][w].balance

updateCachedBalance(cached, a, w, r, delta) ==
    IF cached[a][w].round = r THEN [cached EXCEPT ![a][w].balance = @ + delta] ELSE cached

(***************************************************************************)
(* Deposits.                                                               *)
(***************************************************************************)
creditDeposit(a, w, amount, r) ==
    /\ isClientRegistered(w) /\ amount > 0
    /\ accounts' = Book(accounts, r, a, w, "deposited", amount)
    /\ cache' = updateCachedBalance(cache, a, w, r, amount)

(***************************************************************************)
(* Approvals.                                                              *)
(***************************************************************************)
NextRowId == Cardinality({p \in Approvals : rows[p].status # "none"}) + 1

NewRow(id) == [NoRow EXCEPT !.status = "open", !.priority = id]


Backed(cached, p) == balance(cached, p.sellAsset, p.client, p.round) >= p.sellAmount
Seen(cached, p) == Remember(cached, p.sellAsset, p.client, p.round)

Lock(booked, p) == Book(booked, p.round, p.sellAsset, p.client, "locked", p.sellAmount)
WrongDeduct(cached, p) == cached

Deduct(cached, p) ==
    updateCachedBalance(cached, p.sellAsset, p.client, p.round, -p.sellAmount)

\* validateOrder: the order and its fee are both covered by the balance as it is
\* before either is booked.
OrderBacked(order, fee) == Backed(cache, order) /\ Backed(Seen(cache, order), fee)

\* insertOrder: one transaction that locks what the two approvals sell.
insertOrder(order, fee) ==
    /\ OrderBacked(order, fee)
    /\ rows[order].status = "none" /\ rows[fee].status = "none"
    /\ accounts' = Lock(Lock(accounts, order), fee)
    /\ rows' = [rows EXCEPT ![order] = NewRow(NextRowId), ![fee] = NewRow(NextRowId + 1)]
    /\ cache' = Deduct(Deduct(Seen(Seen(cache, order), fee), order), fee)

\* It throws when one is not covered, and on the unique index of the ids: then
\* the balance has been taken off the cache already, and stays so.
insertOrderFails(order, fee) ==
    \/ /\ ~Backed(cache, order)
       /\ cache' = Seen(cache, order)
    \/ /\ Backed(cache, order) /\ ~Backed(Seen(cache, order), fee)
       /\ cache' = Seen(Seen(cache, order), fee)
    \/ /\ OrderBacked(order, fee) /\ rows[order].status # "none"
       /\ cache' = Deduct(Seen(Seen(cache, order), fee), order)

\* insertApproval; here always with a new id.
insertApproval(p) ==
    /\ Backed(cache, p)
    /\ accounts' = Lock(accounts, p)
    /\ rows' = [rows EXCEPT ![p] = NewRow(NextRowId)]
    /\ cache' = Deduct(Seen(cache, p), p)

WrongCancelApproval(p) ==
    /\ rows[p].status = "open"
    /\ rows' = [rows EXCEPT ![p].status = "canceled"]
    /\ accounts' = Book(accounts, p.round, p.sellAsset, p.client, "locked", -p.sellAmount)
    /\ cache' = updateCachedBalance(cache, p.sellAsset, p.client, p.round, p.sellAmount)

\* cancelApproval: unlocks what the approval has not sold yet.
cancelApproval(p) ==
    LET remaining == p.sellAmount - rows[p].filledSell
    IN /\ rows[p].status = "open"
       /\ rows' = [rows EXCEPT ![p].status = "canceled"]
       /\ accounts' = Book(accounts, p.round, p.sellAsset, p.client, "locked", -remaining)
       /\ cache' = updateCachedBalance(cache, p.sellAsset, p.client, p.round, remaining)

(***************************************************************************)
(* Fills and trades.                                                       *)
(***************************************************************************)
getNextFillId == Cardinality(fills) + 1

\* updateApprovalStatus: the approval is closed once the side of its intent is
\* filled.
FilledRow(p, buy, sell) ==
    LET row == [rows[p] EXCEPT !.filledBuy = @ + buy, !.filledSell = @ + sell]
        filled == IF p.intent THEN row.filledBuy >= p.buyAmount
                              ELSE row.filledSell >= p.sellAmount
    IN [row EXCEPT !.status = IF filled THEN "closed" ELSE "open"]

\* What insertFill checks of a fill of approval p, whose assets, owner and
\* instance addFill has copied from the approval.
FillAccepted(id, p, sell, round) ==
    /\ \A f \in fills : f.id # id
    /\ p \in Approvals /\ rows[p].status # "none" /\ p.round = round
    /\ accounts[round][p.sellAsset][p.client].locked >= sell
    /\ rows[p].status = "open"

insertFill(id, p, buy, sell, round) ==
    /\ FillAccepted(id, p, sell, round)
    /\ accounts' =
         Book(Book(Book(accounts, round, p.sellAsset, p.client, "sold", sell),
                   round, p.sellAsset, p.client, "locked", -sell),
              round, p.buyAsset, p.client, "bought", buy)
    /\ rows' = [rows EXCEPT ![p] = FilledRow(p, buy, sell)]
    /\ fills' = fills \cup {[id |-> id, approvalId |-> p.id, round |-> round,
                             client |-> p.client,
                             buyAsset |-> p.buyAsset, buyAmount |-> buy,
                             sellAsset |-> p.sellAsset, sellAmount |-> sell]}
    /\ cache' = updateCachedBalance(cache, p.buyAsset, p.client, round, buy)

insertTrades(new) == trades' = trades \cup new

(***************************************************************************)
(* Withdrawals.  A withdrawal is found by its asset and wallet.            *)
(***************************************************************************)
insertWithdrawal(w) ==
    withdrawals' = Append(withdrawals, [w EXCEPT !.status = "unchecked"])

\* validateWithdrawal; the balance it reads is that of the round of the request.
WithdrawalValid(w) ==
    /\ w.amount > 0 /\ w.round > 0
    /\ balance(cache, w.asset, w.wallet, w.round) >= w.amount
    /\ \A i \in DOMAIN withdrawals :
          withdrawals[i].asset = w.asset /\ withdrawals[i].wallet = w.wallet =>
              withdrawals[i].status # "pending"

WrongApproveWithdrawal(i) ==
    LET w == withdrawals[i]
    IN /\ accounts' = Book(accounts, w.round, w.asset, w.wallet, "withdrawn", w.amount)
       /\ cache' = updateCachedBalance(cache, w.asset, w.wallet, w.round, -w.amount)
       /\ UNCHANGED withdrawals

\* approveWithdrawal, after the validation.
approveWithdrawal(i) ==
    LET w == withdrawals[i]
    IN /\ withdrawals' = [withdrawals EXCEPT ![i].status = "pending"]
       /\ accounts' = Book(accounts, w.round, w.asset, w.wallet, "withdrawn", w.amount)
       /\ cache' = updateCachedBalance(cache, w.asset, w.wallet, w.round, -w.amount)

\* The first withdrawal of w's wallet and asset with one of these states.
FirstOf(w, states) ==
    LET S == {i \in DOMAIN withdrawals : /\ withdrawals[i].asset = w.asset
                                         /\ withdrawals[i].wallet = w.wallet
                                         /\ withdrawals[i].status \in states}
    IN {i \in S : \A j \in S : i <= j}

cancelWithdrawalAsync(cached, w) ==
    \E i \in FirstOf(w, {"pending", "unchecked"}) :
       LET c == withdrawals[i]
       IN /\ withdrawals' = [withdrawals EXCEPT ![i].status = "canceled"]
          /\ IF c.status = "pending"
             THEN /\ accounts' = Book(accounts, c.round, c.asset, c.wallet,
                                      "withdrawn", -c.amount)
                  /\ cache' = updateCachedBalance(cached, c.asset, c.wallet, c.round,
                                                  c.amount)
             ELSE cache' = cached /\ UNCHANGED accounts

confirmWithdrawalAsync(w) ==
    \E i \in FirstOf(w, {"pending"}) :
       withdrawals' = [withdrawals EXCEPT ![i].status = "confirmed"]

=============================================================================
