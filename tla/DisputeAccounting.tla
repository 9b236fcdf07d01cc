-------------------------- MODULE DisputeAccounting --------------------------
(***************************************************************************)
(* The arithmetic that Mediator.sol runs when the operator closes a        *)
(* dispute: checkFillWithApproval and checkDisputeAccounting.  Pure        *)
(* operators: the arrays of the call are sets of records here, because the *)
(* contract requires their ids to be strictly ascending.                   *)
(***************************************************************************)
EXTENDS Integers, FiniteSetsExt

\* The three loops "ids are strictly ascending": an array that passes is a
\* set of records no two of which have the same id.
DistinctIds(rs) == \A x, y \in rs : x.id = y.id => x = y

Sum(rs, Amount(_)) == MapThenSumSet(Amount, rs)

\* The accounts of the contract are per token, and an account counts the amounts
\* of a set of assets: its token, and what is taken for it.
Bought(fills, assets) ==
    Sum({f \in fills : f.buyAsset \in assets}, LAMBDA f : f.buyAmount)

Sold(rs, assets) ==
    Sum({r \in rs : r.sellAsset \in assets}, LAMBDA r : r.sellAmount)

\* The price of the fill may not exceed that of its approval; an approval that
\* buys nothing (it pays a fee) restricts no price.
checkFillWithApproval(f, a) ==
    /\ f.approvalId = a.id
    /\ f.buyAsset = a.buyAsset
    /\ f.sellAsset = a.sellAsset
    /\ a.buyAmount = 0 \/ /\ f.buyAmount > 0
                          /\ f.sellAmount * a.buyAmount <= a.sellAmount * f.buyAmount

\* Bounds on the fills of one dispute.  approvalOf[f] is the approval handed in
\* with fill f.  A fill is bounded by its own approval on the side the client
\* named; the totals per account are bounded by those of the approvals used, each
\* of which counts once, with its first fill, however many fills name its id.
\* counted[t] are the assets that the account of token t counts.
WithinApprovals(fills, approvalOf, counted) ==
    LET first == {f \in fills :
                     \A g \in fills : g.approvalId = f.approvalId => f.id <= g.id}
        used == {approvalOf[f] : f \in first}
        buys(rs) == {a \in rs : a.intent}
        bought == {f \in fills : approvalOf[f].intent}
    IN /\ \A f \in fills :
             IF approvalOf[f].intent THEN f.buyAmount <= approvalOf[f].buyAmount
                                     ELSE f.sellAmount <= approvalOf[f].sellAmount
       /\ \A t \in DOMAIN counted :
             /\ Bought(bought, counted[t]) <= Bought(buys(used), counted[t])
             /\ Sold(fills, counted[t]) <= Sold(used, counted[t])

\* Balance of token t once the fills in fs have been applied to what the client
\* had at the opening of the disputed round plus what it deposited in it.
BalanceAfter(start, fs, counted, t) ==
    start[t] + Bought(fs, counted[t]) - Sold(fs, counted[t])

\* SafeMath.sub reverts in the middle of the loop over fills when a fill sells
\* what the fills before it have not brought in yet.
NeverNegative(start, fills, counted) ==
    \A f \in fills, t \in DOMAIN counted :
        f.sellAsset \in counted[t] =>
            BalanceAfter(start, {g \in fills : g.id <= f.id}, counted, t) >= 0

checkDisputeAccounting(start, fills, approvalOf, withdrawn, closing, counted) ==
    /\ WithinApprovals(fills, approvalOf, counted)
    /\ NeverNegative(start, fills, counted)
    /\ \A t \in DOMAIN counted :
          closing[t] = BalanceAfter(start, fills, counted, t) - withdrawn[t]
==============================================================================
