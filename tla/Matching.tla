------------------------------ MODULE Matching ------------------------------
(***************************************************************************)
(* The matching engine, src/src/server/exchange/Matching.ts: pure          *)
(* operators from a taker and the makers it may trade with to trades.      *)
(*                                                                         *)
(* An approval is a record as in DisputeAccounting; intent is TRUE for     *)
(* buyAll.  A match adds what remains to be filled on the side of the      *)
(* intent, and the priority (the id of its row).  Amounts are in match     *)
(* units, the multiples of 10^(18 - decimalPlaces) wei that                *)
(* verifyApprovalPrecision admits: createSwaps scales to them and back     *)
(* exactly.  Inside matchLeftRight amounts are fixed-point numbers, in     *)
(* units of 1/Scale, because BigNumber rounds a quotient to a number of    *)
(* decimal places.                                                         *)
(*                                                                         *)
(* A definition named Wrong... is the one after it with a mistake in it:   *)
(* TLC must find what the mistake breaks.                                  *)
(***************************************************************************)
EXTENDS Integers, Sequences, SequencesExt

CONSTANT Scale  \* 10 to the power of BigNumber's DECIMAL_PLACES (40 in the code)

ASSUME ScaleAssumption == Scale \in Nat \ {0}

\* A quotient is rounded half up to the last decimal place.
Div(x, y) == (2 * x + y) \div (2 * y)

MulByPrice(amount, offer) == Div(amount * offer.buyAmount, offer.sellAmount)
DivByPrice(amount, offer) == Div(amount * offer.sellAmount, offer.buyAmount)

Floor(x) == (x \div Scale) * Scale
WrongCeil(x) == Floor(x)

Ceil(x) == -Floor(-x)

NoSwap == [fromLeft |-> 0, fromRight |-> 0]
Fractional == [fromLeft |-> -1, fromRight |-> -1]     \* the function throws

\* What left and right exchange at the price of right.  The taker's side is
\* bounded by what either has left, the other side follows from the price and is
\* rounded in favour of right; nothing is exchanged when that breaks the limit
\* of left.  The function throws when an amount is not an integer.
matchLeftRight(left, right) ==
    LET wanted == Scale * left.remaining
        offered == Scale * right.remaining
        sellable == IF right.intent THEN DivByPrice(offered, right) ELSE offered
        buyable == IF right.intent THEN offered ELSE MulByPrice(offered, right)
        Least(x, y) == IF x <= y THEN x ELSE y
        taken == Least(wanted, IF left.intent THEN sellable ELSE buyable)
        fromRight == IF left.intent THEN taken ELSE Floor(DivByPrice(taken, right))
        fromLeft == IF left.intent THEN Ceil(MulByPrice(taken, right)) ELSE taken
    IN IF left.sellAmount * fromRight < fromLeft * left.buyAmount THEN NoSwap
       ELSE IF Floor(fromRight) # fromRight \/ Floor(fromLeft) # fromLeft
            THEN Fractional
            ELSE [fromLeft |-> fromLeft \div Scale, fromRight |-> fromRight \div Scale]

Side(approval) == IF approval.intent THEN approval.buyAmount ELSE approval.sellAmount

\* The swaps of left with the makers in rights, in this order, until left is
\* filled.  remaining[n] is what is left of left after the first n.
swapsOf(left, rights) ==
    LET Meet(remaining, right) ==
            matchLeftRight([left EXCEPT !.remaining = remaining], right)
        Filled(swap) == IF left.intent THEN swap.fromRight ELSE swap.fromLeft
        remaining[n \in 0 .. Len(rights)] ==
            IF n = 0 THEN Side(left)
            ELSE LET before == remaining[n - 1]
                 IN IF before <= 0 THEN before
                    ELSE before - Filled(Meet(before, rights[n]))
        met == {n \in 1 .. Len(rights) : remaining[n - 1] > 0}
    IN [n \in met |-> Meet(remaining[n - 1], rights[n])]

IsSwap(swap) == {swap.fromLeft, swap.fromRight} \subseteq Nat \ {0}

\* The elements of S as a sequence: the n-th is the one with n - 1 before it.
inOrder(S, before) ==
    [n \in 1 .. Cardinality(S) |->
        CHOOSE x \in S : Cardinality({y \in S : <<y, x>> \in before}) = n - 1]

Ascending(S) == inOrder(S, {x \in S \X S : x[1] < x[2]})

\* Swaps of nothing are dropped from the result; <<Fractional>> when one of them
\* throws.
matchLeft(left, rights) ==
    LET swaps == swapsOf(left, rights)
        kept == Ascending({n \in DOMAIN swaps : IsSwap(swaps[n])})
    IN IF Contains(swaps, Fractional) THEN <<Fractional>>
       ELSE [n \in DOMAIN kept |-> swaps[kept[n]]]

\* left.buy / left.sell <= right.sell / right.buy, without division.
priceMatch(left, right) ==
    left.buyAmount * right.buyAmount <= left.sellAmount * right.sellAmount

isMatchable(left, right) ==
    /\ priceMatch(left, right)
    /\ left.buyAsset = right.sellAsset
    /\ left.sellAsset = right.buyAsset

filter(left, rights) ==
    {right \in rights : /\ isMatchable(left, right)
                        /\ left.remaining >= 1 /\ right.remaining >= 1}

\* The cheapest maker first, the oldest first among those of one price.  The code
\* compares two quotients rounded to 40 decimal places (approvalToPrice), the products
\* here are exact: the two agree as long as amounts are below 10^20 match units, where
\* quotients that differ do so by more than is rounded.
comparePrice(a, b) == a.buyAmount * b.sellAmount - b.buyAmount * a.sellAmount

better(a, b) ==
    \/ comparePrice(a, b) < 0
    \/ comparePrice(a, b) = 0 /\ a.priority < b.priority

WrongSort(makers) == inOrder(makers, {x \in makers \X makers : better(x[2], x[1])})

sort(makers) == inOrder(makers, {x \in makers \X makers : better(x[1], x[2])})

createTrade(left, right, swap) ==
    [left |-> left.id, leftSell |-> swap.fromLeft,
     right |-> right.id, rightSell |-> swap.fromRight, round |-> left.round]

\* The trades of left with the makers in rights: the swaps, zipped with the
\* sorted makers.  <<>> as well when the matching throws; see Throws.
createTrades(left, rights) ==
    LET sorted == sort(filter(left, rights))
        swaps == matchLeft(left, sorted)
    IN IF Contains(swaps, Fractional) THEN <<>>
       ELSE [i \in DOMAIN swaps |-> createTrade(left, sorted[i], swaps[i])]

Throws(left, rights) ==
    Contains(matchLeft(left, sort(filter(left, rights))), Fractional)


\* The two fills of a trade, the one of the taker first: what one side buys is
\* what the other sells.
createFillParams(trade) ==
    <<[approval |-> trade.left, buy |-> trade.rightSell, sell |-> trade.leftSell,
       round |-> trade.round],
      [approval |-> trade.right, buy |-> trade.leftSell, sell |-> trade.rightSell,
       round |-> trade.round]>>

\* The fills of trades in the order in which they are added.
fillsOf(trades) ==
    [k \in 1 .. 2 * Len(trades) |->
        createFillParams(trades[(k + 1) \div 2])[IF k % 2 = 1 THEN 1 ELSE 2]]

mkMatch(approval, remaining, priority) ==
    [field \in DOMAIN approval \cup {"remaining", "priority"} |->
        CASE field = "remaining" -> remaining
          [] field = "priority" -> priority
          [] OTHER -> approval[field]]
=============================================================================
