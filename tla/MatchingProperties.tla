------------------------- MODULE MatchingProperties -------------------------
(***************************************************************************)
(* What the matching engine owes to the contract, which checks its fills   *)
(* in a dispute, and to the traders.  A taker meets every book that can be *)
(* built of a set of approvals, one maker at a time.                       *)
(***************************************************************************)
EXTENDS OrderBook

CONSTANTS
    Takers,     \* the approvals that may be matched
    Makers,     \* the approvals that may be in the book
    MaxMakers   \* bound: orders in the book

\* Amounts are positive, and so small that a quotient of two of them is told apart
\* from the next whole number at the precision of the quotients.
ASSUME ApprovalAssumption ==
    \A a \in Takers \cup Makers :
        /\ {"id", "intent", "buyAsset", "buyAmount", "sellAsset", "sellAmount"}
              \subseteq DOMAIN a
        /\ a.intent \in BOOLEAN
        /\ {a.buyAmount, a.sellAmount} \subseteq 1 .. 2 * Scale - 1

\* A taker and its makers name opposite sides of one market.
ASSUME MarketAssumption ==
    \A t \in Takers, m \in Makers :
        t.buyAsset = m.sellAsset /\ t.sellAsset = m.buyAsset => t.intent # m.intent

ASSUME MaxMakersAssumption == MaxMakers \in Nat

D == INSTANCE DisputeAccounting

VARIABLES taker, book

matchingVars == <<taker, book>>

MatchingInit ==
    /\ \E a \in Takers : taker = mkMatch([a EXCEPT !.id = 0], Side(a), MaxMakers + 1)
    /\ book = <<>>

\* What can be left of a when it is placed and at most one taker has come by.
Remainders(a) ==
    LET maker == mkMatch(a, Side(a), 1)
        earlier == {t \in Takers : isMatchable(t, a)}
        Filled(t) == LET swap == matchLeftRight(mkMatch(t, Side(t), 2), maker)
                     IN IF a.intent THEN swap.fromLeft ELSE swap.fromRight
    IN {Side(a)} \cup {Side(a) - Filled(t) : t \in earlier}

\* A maker, with the next row id.
Place ==
    /\ Len(book) < MaxMakers
    /\ \E a \in Makers : \E remaining \in Remainders(a) :
          LET id == Len(book) + 1
          IN book' = Append(book, mkMatch([a EXCEPT !.id = id], remaining, id))
    /\ UNCHANGED taker

MatchingSpec == MatchingInit /\ [][Place]_matchingVars

makers == ToSet(book)
sorted == sort(filter(taker, makers))
swaps == swapsOf(taker, sorted)
real == {i \in DOMAIN swaps : IsSwap(swaps[i])}
trades == createTrades(taker, makers)
Total(S, Amount(_)) == D!Sum(S, Amount)

\* The fill of order a that an entry of createFillParams asks for.
FillOf(a, params) ==
    [approvalId |-> params.approval,
     buyAsset |-> a.buyAsset, buyAmount |-> params.buy,
     sellAsset |-> a.sellAsset, sellAmount |-> params.sell]

TakersFill(trade) == FillOf(taker, createFillParams(trade)[1])
MakersFill(trade, m) == FillOf(m, createFillParams(trade)[2])

\* Every fill of the taker keeps the limit price, and all of them stay within the
\* approval on both sides.
TakerAccepted(ts) ==
    /\ \A i \in DOMAIN ts : D!checkFillWithApproval(TakersFill(ts[i]), taker)
    /\ Total(DOMAIN ts, LAMBDA i : ts[i].leftSell) <= taker.sellAmount
    /\ taker.intent =>
          Total(DOMAIN ts, LAMBDA i : ts[i].rightSell) <= taker.buyAmount

MakerFillOk(trade, m) ==
    /\ D!checkFillWithApproval(MakersFill(trade, m), m)
    /\ (IF m.intent THEN trade.leftSell ELSE trade.rightSell) <= m.remaining
    /\ trade.rightSell <= m.sellAmount

\* As long as the swap of every maker so far is kept: a trade has a maker in the book
\* whose fill keeps the limit price and takes no more than it has left.
MakersAccepted(ts, kept) ==
    \A i \in DOMAIN ts : 1 .. i \subseteq kept =>
        \E m \in makers : m.id = ts[i].right /\ MakerFillOk(ts[i], m)

(* Safety. *)

\* The fills of the trades the engine makes, shown in a dispute.  Those of the taker
\* always pass: each keeps the limit price of the approval, and together they stay
\* within it on both sides.  Those of the makers pass as long as no swap of nothing
\* comes first: matchLeft drops it and createTrades zips what is kept with all the
\* sorted makers (Matching.ts:183, 302), so that every trade after it goes to the maker
\* before the one it was computed for, whose limits nobody compared.  Up to there each
\* fill is of an order that is in the book, keeps its limit price and takes no more than
\* it has left.  A rounding in the wrong direction, or a remaining amount that is not
\* carried on, breaks it (matchLeftRight, matchLeft).  Nor does the engine give up with
\* an error for a fractional amount: a taker and its makers name opposite sides of one
\* market.
FillsProvable ==
    /\ ~Throws(taker, makers)
    /\ TakerAccepted(trades)
    /\ MakersAccepted(trades, real)

\* The orders as they come to the engine: a taker that nobody has met, and makers
\* with at most what they offer left, in the order of their rows.
RowsOf(a, n) == {mkMatch([a EXCEPT !.id = n], remaining, n) : remaining \in 0 .. Side(a)}

Offers == UNION {RowsOf(a, n) : a \in Makers, n \in 1 .. MaxMakers}

BookInv ==
    /\ \E a \in Takers : taker = mkMatch([a EXCEPT !.id = 0], Side(a), MaxMakers + 1)
    /\ book \in Seq(Offers)
    /\ \A i \in DOMAIN book : book[i].priority = i

\* The taker gets the best prices of the book: a maker that trades leaves no
\* cheaper or older maker behind with anything left that could be exchanged with
\* what the taker had left at that point (sort, matchLeft).
BestFirst ==
    \A i \in real : \A m \in filter(taker, makers) :
        better(m, sorted[i]) =>
            \E j \in 1 .. i - 1 :
                /\ sorted[j] = m
                /\ j \in real => \/ swaps[j].fromRight = m.remaining
                                 \/ swaps[j].fromLeft = m.remaining
                                 \/ matchLeftRight(
                                      [taker EXCEPT !.remaining = @ -
                                         Total(real \cap 1 .. j, LAMBDA k :
                                             IF taker.intent THEN swaps[k].fromRight
                                                             ELSE swaps[k].fromLeft)],
                                      [m EXCEPT !.remaining = @ -
                                         (IF m.intent THEN swaps[j].fromLeft
                                                      ELSE swaps[j].fromRight)])
                                    = NoSwap

\* The published book: at level 2 every price appears once, from the best to the
\* worst, with all that the open orders of that rounded price have left, and
\* level 1 is the head of it.  A sort that disagrees with the rounding, or a
\* merge of neighbours only, could show a price twice or lose an order.
market == marketOf(taker)

DepthIsExact ==
    LET one == orderBook(market, makers, 1)
        two == orderBook(market, makers, 2)
        Exact(side, levels, S) ==
            /\ \A i \in 1 .. Len(levels) - 1 :
                  Precedes(side, levels[i].price, levels[i + 1].price)
            /\ {levels[i].price : i \in DOMAIN levels}
                 = {orderToBidAsk(m).price : m \in {x \in S : x.remaining > 0}}
            /\ \A i \in DOMAIN levels :
                  levels[i].amount
                    = Total({m \in S : orderToBidAsk(m).price = levels[i].price},
                            LAMBDA m : m.remaining)
        ours == {m \in makers : marketOf(m) = market}
    IN /\ Exact("bids", two.bids, {m \in ours : m.intent})
       /\ Exact("asks", two.asks, {m \in ours : ~m.intent})
       /\ one.bids # <<>> => one.bids[1] = two.bids[1]
       /\ one.asks # <<>> => one.asks[1] = two.asks[1]
       /\ (one.bids = <<>>) <=> (two.bids = <<>>)
       /\ (one.asks = <<>>) <=> (two.asks = <<>>)

\* Better prices come first, where orders are matched and where they are shown.
PricesInOrder == BestFirst /\ DepthIsExact
=============================================================================
