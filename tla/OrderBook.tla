------------------------------ MODULE OrderBook ------------------------------
(***************************************************************************)
(* The order book that the exchange publishes: the views of an approval as *)
(* an order of the market (Exchange.ts) and the three levels of market     *)
(* depth over them (OrderBook.ts).  An order is on the buy side when its   *)
(* approval has the intent buyAll, and the market it belongs to has the    *)
(* asset of that side as its base.                                         *)
(*                                                                         *)
(* A definition named Wrong... is the one after it with a mistake in it:   *)
(* TLC must find what the mistake breaks.                                  *)
(***************************************************************************)
EXTENDS Matching

CONSTANT PriceScale     \* 10 to the power of the decimal places of the book (8)

ASSUME PriceScaleAssumption == PriceScale \in Nat \ {0}

marketOf(approval) ==
    IF approval.intent THEN [base |-> approval.buyAsset, quote |-> approval.sellAsset]
                       ELSE [base |-> approval.sellAsset, quote |-> approval.buyAsset]

isBidApproval(approval) ==
    [base |-> approval.buyAsset, quote |-> approval.sellAsset] = marketOf(approval)

\* Quote per base, in units of 1/Scale.
orderPrice(approval) ==
    IF isBidApproval(approval)
    THEN Div(Scale * approval.sellAmount, approval.buyAmount)
    ELSE Div(Scale * approval.buyAmount, approval.sellAmount)

\* decimalPlaces() rounds half up.
roundBidAskPrice(price) == Div(price * PriceScale, Scale)

WrongOrderToBidAsk(match) ==
    [price |-> roundBidAskPrice(orderPrice(match)), amount |-> Side(match) - match.remaining]

orderToBidAsk(match) ==
    [price |-> roundBidAskPrice(orderPrice(match)), amount |-> match.remaining]

\* Bids are sorted from the highest price down, asks from the lowest up.
Precedes(side, p, q) == IF side = "bids" THEN p > q ELSE p < q

\* The best price first, the largest order first among those of one price; the
\* sort is stable, and the rows come in the order of their ids.
sortSide(side, matches) ==
    SetToSortSeq(matches, LAMBDA a, b :
        LET p == orderPrice(a)
            q == orderPrice(b)
        IN \/ Precedes(side, p, q)
           \/ p = q /\ (\/ Side(a) > Side(b)
                        \/ Side(a) = Side(b) /\ a.priority < b.priority))

HasAmount(bidAsk) == bidAsk.amount # 0

level3(side, matches) ==
    LET sorted == sortSide(side, matches)
    IN SelectSeq([i \in DOMAIN sorted |-> orderToBidAsk(sorted[i])], HasAmount)

\* aggregateBidAsks: neighbours of one price become one entry.
AddLevel(levels, bidAsk) ==
    IF levels # <<>> /\ Last(levels).price = bidAsk.price
    THEN [levels EXCEPT ![Len(levels)].amount = @ + bidAsk.amount]
    ELSE Append(levels, bidAsk)

level2(side, matches) == FoldLeft(AddLevel, <<>>, level3(side, matches))

level1(side, matches) ==
    SubSeq(level2(side, matches), 1, IF level2(side, matches) = <<>> THEN 0 ELSE 1)

marketDepth(side, matches, level) ==
    CASE level = 1 -> level1(side, matches)
      [] level = 2 -> level2(side, matches)
      [] level = 3 -> level3(side, matches)

\* The open orders of one market, at level 1, 2 or 3.
orderBook(market, open, level) ==
    LET orders == {m \in open : marketOf(m) = market}
    IN [bids |-> marketDepth("bids", {m \in orders : m.intent}, level),
        asks |-> marketDepth("asks", {m \in orders : ~m.intent}, level)]
=============================================================================
