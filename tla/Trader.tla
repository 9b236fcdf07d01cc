------------------------------- MODULE Trader -------------------------------
(***************************************************************************)
(* A market as its traders see it through ExchangeClient.ts: an order that *)
(* is asked for becomes an approval (Markets.ts), passes the checks of the *)
(* server (HTTPServer.ts, Validation.ts, Exchange.ts), is matched, and is  *)
(* shown again as an order, in the order book and as trades.               *)
(*                                                                         *)
(* What is shown is read from the ledger in several steps, and the ledger  *)
(* changes between them.  The fills of one order are added one by one      *)
(* before the next order is matched.                                       *)
(*                                                                         *)
(* The amounts of approvals are in match units, of which a trader may ask  *)
(* for a fraction: an amount asked for is in units of 1/Fine of one.       *)
(*                                                                         *)
(* A definition named Wrong... is the one after it with a mistake in it:   *)
(* TLC must find what the mistake breaks.                                  *)
(***************************************************************************)
EXTENDS OrderBook, WebAPI, FiniteSetsExt

CONSTANTS
    Markets,        \* the pairs a trader may name, [base, quote]
    pairs,          \* those the exchange is configured for
    Fine,
    PriceUnit,      \* a price asked for is in units of 1/PriceUnit
    MaxApproved,    \* the largest amount of an approval (1e38 wei)
    OverHTTP,       \* whether orders pass the web server, or are given to the exchange
    AskedAmounts, AskedPrices,
    Levels,         \* the levels of market depth that are asked for
    MaxOrders, MaxRound     \* bounds

ASSUME TraderAssumption ==
    /\ pairs \subseteq Markets /\ OverHTTP \in BOOLEAN
    /\ {Fine, PriceUnit} \subseteq Nat \ {0} /\ MaxApproved \in Nat
    /\ AskedAmounts \cup AskedPrices \subseteq Nat
    /\ Levels \subseteq 1 .. 3 /\ MaxOrders \in Nat /\ MaxRound \in Nat

Ids == 1 .. MaxOrders

VARIABLES
    asked,      \* id -> what the trader asked for: [side, amount, price, market]
    rows,       \* id -> the approval, with status, filledBuy and filledSell
    todo,       \* fills that have still to be added
    trades,     \* in the order of their timestamps
    round,
    reading,    \* what the exchange is reading for an answer
    shown       \* what the client made of the last answer: an order, a book, or an error

marketVars == <<asked, rows, todo, trades, round>>
traderVars == <<marketVars, reading, shown>>

TraderInit ==
    /\ asked = <<>> /\ rows = <<>> /\ todo = <<>> /\ trades = <<>> /\ round = 0
    /\ reading = Idle /\ shown = Idle

(***************************************************************************)
(* From what is asked for to an approval.  A lot is in units of            *)
(* 1/(Fine * PriceUnit) of a match unit, in which the product is exact.    *)
(***************************************************************************)
Lot(asset, amount) == [asset |-> asset, amount |-> amount]

buy(market, amount, price) ==
    [buy |-> Lot(market.base, amount * PriceUnit), sell |-> Lot(market.quote, price * amount)]

WrongSell(market, amount, price) ==
    [buy |-> Lot(market.quote, price * PriceUnit), sell |-> Lot(market.base, amount * PriceUnit)]

sell(market, amount, price) ==
    [buy |-> Lot(market.quote, price * amount), sell |-> Lot(market.base, amount * PriceUnit)]

lots(side, market, amount, price) ==
    IF side = "buy" THEN buy(market, amount, price) ELSE sell(market, amount, price)

(***************************************************************************)
(* The checks.                                                             *)
(***************************************************************************)
Whole == Fine * PriceUnit

representable(amount) == amount % Whole = 0

verifyApprovalPrecision(l) == representable(l.buy.amount) /\ representable(l.sell.amount)

\* A sell amount of zero is not refused.
validateAmounts(l) == l.buy.amount > 0 /\ l.sell.amount >= 0

verifyPair(side, l) ==
    LET base == IF side = "buy" THEN l.buy.asset ELSE l.sell.asset
        quote == IF side = "buy" THEN l.sell.asset ELSE l.buy.asset
    IN [base |-> base, quote |-> quote] \in pairs

Accepted(side, l) ==
    /\ OverHTTP => validateSignedApproval(l, MaxApproved * Whole)
    /\ verifyPair(side, l) /\ verifyApprovalPrecision(l) /\ validateAmounts(l)

ApprovalOf(id, side, l) ==
    [id |-> id, client |-> id, round |-> round, intent |-> side = "buy",
     buyAsset |-> l.buy.asset, buyAmount |-> l.buy.amount \div Whole,
     sellAsset |-> l.sell.asset, sellAmount |-> l.sell.amount \div Whole,
     status |-> "open", filledBuy |-> 0, filledSell |-> 0]

(***************************************************************************)
(* Matching, as in Exchange: the trades are stored, then their fills.      *)
(***************************************************************************)
Filled(row) == IF row.intent THEN row.filledBuy ELSE row.filledSell
Remaining(row) == Side(row) - Filled(row)

openApprovals == {id \in DOMAIN rows : rows[id].round = round /\ rows[id].status = "open"}

MatchOf(id) == mkMatch(rows[id], Remaining(rows[id]), id)

TradesOf(approval) ==
    createTrades(mkMatch(approval, Side(approval), approval.id),
                 {MatchOf(id) : id \in openApprovals})

createOrder ==
    \E side \in {"buy", "sell"}, market \in Markets :
        \E amount \in AskedAmounts, price \in AskedPrices :
            LET l == lots(side, market, amount, price)
                id == Len(rows) + 1
                approval == ApprovalOf(id, side, l)
                new == TradesOf(approval)
            IN /\ todo = <<>> /\ id \in Ids
               /\ Accepted(side, l)
               /\ asked' = Append(asked, [side |-> side, amount |-> amount,
                                          price |-> price, market |-> market])
               /\ rows' = Append(rows, approval)
               /\ trades' = trades \o new
               /\ todo' = fillsOf(new)
               /\ UNCHANGED <<round, reading, shown>>

FilledRow(row, fill) ==
    LET bought == row.filledBuy + fill.buy
        sold == row.filledSell + fill.sell
        over == IF row.intent THEN bought >= row.buyAmount ELSE sold >= row.sellAmount
    IN [row EXCEPT !.filledBuy = bought, !.filledSell = sold,
                   !.status = IF over THEN "closed" ELSE "open"]

\* A fill of an approval that has been cancelled is refused, and those after it
\* are not added.
addFill ==
    LET fill == Head(todo)
        row == rows[fill.approval]
    IN /\ todo # <<>>
       /\ IF row.status = "open"
          THEN rows' = [rows EXCEPT ![fill.approval] = FilledRow(@, fill)] /\ todo' = Tail(todo)
          ELSE todo' = <<>> /\ UNCHANGED rows
       /\ UNCHANGED <<asked, trades, round, reading, shown>>

cancelOrder ==
    \E id \in openApprovals :
        /\ rows' = [rows EXCEPT ![id].status = "canceled"]
        /\ UNCHANGED <<asked, todo, trades, round, reading, shown>>

nextRound ==
    /\ round < MaxRound
    /\ round' = round + 1
    /\ UNCHANGED <<asked, rows, todo, trades, reading, shown>>

(***************************************************************************)
(* From an approval to an order.                                           *)
(***************************************************************************)
orderAmount(row) == IF isBidApproval(row) THEN row.buyAmount ELSE row.sellAmount

isOpenApproval(row) == row.round = round /\ row.status = "open"

side(row) == IF row.intent THEN "buy" ELSE "sell"

\* approvalToOrder reads the status, then what is filled, then what remains.
fetchOrder ==
    /\ reading = Idle
    /\ \E id \in DOMAIN rows :
          reading' = [kind |-> "order", id |-> id,
                      status |-> IF isOpenApproval(rows[id]) THEN "open" ELSE "closed"]
    /\ UNCHANGED <<marketVars, shown>>

fetchUnknownOrder ==
    /\ reading = Idle /\ DOMAIN rows # Ids
    /\ shown' = orderReceived(orderNotFound)
    /\ UNCHANGED <<marketVars, reading>>

orderFilledAmount ==
    /\ reading.kind = "order"
    /\ reading' = [reading EXCEPT !.kind = "filled"]
                      @@ [filled |-> orderAmount(rows[reading.id]) - Remaining(rows[reading.id])]
    /\ UNCHANGED <<marketVars, shown>>

approvalToOrder ==
    LET row == rows[reading.id]
        order == [kind |-> "order", id |-> reading.id, status |-> reading.status,
                  market |-> marketOf(row), side |-> side(row), price |-> orderPrice(row),
                  amount |-> orderAmount(row), filled |-> reading.filled,
                  remaining |-> Remaining(row)]
        received == orderReceived(Json(order))
    IN /\ reading.kind = "filled"
       /\ shown' = IF received = order THEN orderWeiToEther(order, Fine) ELSE received
       /\ reading' = Idle
       /\ UNCHANGED marketVars

(***************************************************************************)
(* The order book: the open orders of the market, listed at once and read  *)
(* one after the other, in any order.                                      *)
(***************************************************************************)
unlistedMarket ==
    /\ reading = Idle /\ ~ Markets \subseteq pairs
    /\ shown' = bookReceived(invalidSymbol)
    /\ UNCHANGED <<marketVars, reading>>

fetchOrderBook ==
    /\ reading = Idle
    /\ \E market \in pairs :
          reading' = [kind |-> "book", market |-> market, seen |-> <<>>,
                      listed |-> {id \in openApprovals : marketOf(rows[id]) = market}]
    /\ UNCHANGED <<marketVars, shown>>

orderRemainingAmount ==
    /\ reading.kind = "book"
    /\ \E id \in reading.listed \ DOMAIN reading.seen :
          reading' = [reading EXCEPT !.seen = (id :> MatchOf(id)) @@ @]
    /\ UNCHANGED <<marketVars, shown>>

showOrderBook ==
    /\ reading.kind = "book" /\ DOMAIN reading.seen = reading.listed
    /\ \E level \in Levels :
          LET seen == {reading.seen[id] : id \in reading.listed}
              book == [kind |-> "book", level |-> level, listed |-> reading.listed,
                       book |-> orderBook(reading.market, seen, level)]
              received == bookReceived(Json(book))
          IN shown' = IF received = book THEN [book EXCEPT !.book = bookInEther(@, Fine)]
                                         ELSE received
    /\ reading' = Idle
    /\ UNCHANGED marketVars

(***************************************************************************)
(* Trades: left is the taker and right the maker.                          *)
(***************************************************************************)
WrongFillPrice(maker, trade) == Div(Scale * trade.rightSell, trade.leftSell)

fillPrice(maker, trade) ==
    IF isBidApproval(maker) THEN Div(Scale * trade.rightSell, trade.leftSell)
                            ELSE Div(Scale * trade.leftSell, trade.rightSell)

mkTradeExternal(maker, trade) ==
    [order |-> maker.id, side |-> side(maker), price |-> fillPrice(maker, trade),
     amount |-> IF maker.sellAsset = marketOf(maker).base THEN trade.rightSell
                                                          ELSE trade.leftSell]

mkPair(approval) == {approval.buyAsset, approval.sellAsset}

fetchTradesPublic(market) ==
    LET ours == SelectSeq(trades, LAMBDA t : mkPair(rows[t.left]) = {market.base, market.quote})
    IN [i \in DOMAIN ours |-> mkTradeExternal(rows[ours[i].right], ours[i])]

\* What the client makes of them; they are read at once, for approvals do not change.
fetchTrades(market) ==
    tradesReceived(IF market \in pairs
                   THEN Json([kind |-> "trades", trades |-> fetchTradesPublic(market)])
                   ELSE invalidSymbol)

Read ==
    \/ fetchOrder \/ fetchUnknownOrder \/ orderFilledAmount \/ approvalToOrder
    \/ fetchOrderBook \/ unlistedMarket \/ orderRemainingAmount \/ showOrderBook

TraderNext == createOrder \/ addFill \/ cancelOrder \/ nextRound \/ Read

TraderSpec == TraderInit /\ [][TraderNext]_traderVars
=============================================================================
