--------------------------- MODULE TraderProperties ---------------------------
EXTENDS Trader

\* ExchangeClient.ts:165-214 and Exchange.ts:589-606: an order comes back with the
\* market, the side, the amount and the price it was asked for with.  The price is
\* not stored: it is divided out of two amounts that were multiplied, on the side
\* the intent names, and checked for precision in between.
ShownAsAsked ==
    shown.kind = "order" =>
        LET wanted == asked[shown.id]
        IN /\ shown.market = wanted.market /\ shown.side = wanted.side
           /\ shown.amount = wanted.amount
           /\ shown.price * PriceUnit = wanted.price * Scale

\* Exchange.ts:589-617: what is filled and what remains are read one after the
\* other.  Fills that come in between may be missing from both, and are never
\* counted twice.
NeverMoreThanThere ==
    shown.kind = "order" =>
        /\ 0 <= shown.filled /\ 0 <= shown.remaining
        /\ shown.filled + shown.remaining <= shown.amount

\* Exchange.ts:589-617: nothing remains of an order that is shown as closed,
\* unless it was cancelled or has expired.
ClosedIsOver ==
    shown.kind = "order" /\ shown.status = "closed" =>
        LET row == rows[shown.id]
        IN row.status = "canceled" \/ row.round # round \/ shown.remaining = 0

\* An order is shown as it is, or was when it was read.
OrderIsShown == ShownAsAsked /\ NeverMoreThanThere /\ ClosedIsOver

\* HTTPClient.ts:139-162, 240-270, 306-321: what the server has accepted its client can
\* read.  The schemas of the client want positive prices and amounts of every order,
\* trade and level, and one number that fails them makes the whole answer fail.  A
\* price of the book is rounded, and may be rounded to nothing.
AnswersAreValid ==
    /\ \A id \in DOMAIN rows : orderPrice(rows[id]) > 0 /\ orderAmount(rows[id]) > 0
    /\ \A market \in pairs : fetchTrades(market).kind = "trades"
    /\ \A i \in DOMAIN todo : validateSignedFill(todo[i], MaxApproved)
    /\ shown = Thrown("Error") =>
          \E id \in DOMAIN rows : roundBidAskPrice(orderPrice(rows[id])) = 0

\* Exchange.ts:797-813, 868-889: the price shown for a trade is within the limits
\* of both orders, and no more is shown as traded than either of them was for.
TradesWithinLimits ==
    \A i \in DOMAIN trades :
        LET trade == mkTradeExternal(rows[trades[i].right], trades[i])
        IN \A row \in {rows[trades[i].left], rows[trades[i].right]} :
              /\ IF row.intent THEN trade.price <= orderPrice(row)
                               ELSE trade.price >= orderPrice(row)
              /\ trade.amount <= orderAmount(row)

BaseTraded(id) ==
    MapThenSumSet(LAMBDA i : mkTradeExternal(rows[trades[i].right], trades[i]).amount,
                  {i \in DOMAIN trades : id \in {trades[i].left, trades[i].right}})

TradesAreFilled ==
    todo = <<>> => \A id \in DOMAIN rows : BaseTraded(id) = Filled(rows[id])

\* Exchange.ts:406-441, 594-617: as long as nobody cancels, the trades that are
\* shown of an order add up to what is shown as filled.
TradesAddUp == (\A id \in DOMAIN rows : rows[id].status # "canceled") => TradesAreFilled

\* The trades that are shown are those that the orders have come to.
TradesAreShown == AnswersAreValid /\ TradesWithinLimits /\ TradesAddUp

\* Exchange.ts:626-654: the orders of a book are listed at one time and read at
\* others.  A level shows no less than what its orders still have when it is shown
\* (they only shrink), and no more than they were for; no price is left out but by
\* the best of them at level 1.
BookIsRecent ==
    shown.kind = "book" =>
        \A isBid \in BOOLEAN :
            LET levels == IF isBid THEN shown.book.bids ELSE shown.book.asks
                At(price) == {id \in shown.listed :
                                 /\ rows[id].intent = isBid
                                 /\ roundBidAskPrice(orderPrice(rows[id])) = price}
                Amount(price) ==
                    MapThenSumSet(LAMBDA i : levels[i].amount,
                                  {i \in DOMAIN levels : levels[i].price = price})
                Given == {levels[i].price : i \in DOMAIN levels}
                Known == {roundBidAskPrice(orderPrice(rows[id])) : id \in shown.listed}
            IN \A price \in IF shown.level = 1 /\ levels # <<>> THEN Given ELSE Given \cup Known :
                  /\ MapThenSumSet(LAMBDA id : Fine * Remaining(rows[id]), At(price)) <= Amount(price)
                  /\ Amount(price)
                       <= MapThenSumSet(LAMBDA id : Fine * orderAmount(rows[id]), At(price))
=============================================================================
