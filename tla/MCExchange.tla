----------------------------- MODULE MCExchange -----------------------------
(***************************************************************************)
(* Small instances of the exchange for TLC: one market, alice who sells    *)
(* oax, bob who buys it, a fee in oax.                                     *)
(***************************************************************************)
EXTENDS ExchangeProperties

CONSTANTS alice, bob, hub, oax, weth

Bid(n, who, r, buy, sell) ==
    [id |-> <<n, "order">>, client |-> who, round |-> r, intent |-> TRUE,
     buyAsset |-> oax, buyAmount |-> buy, sellAsset |-> weth, sellAmount |-> sell]
Ask(n, who, r, sell, buy) ==
    [id |-> <<n, "order">>, client |-> who, round |-> r, intent |-> FALSE,
     buyAsset |-> weth, buyAmount |-> buy, sellAsset |-> oax, sellAmount |-> sell]

Everyone == {alice, bob, hub}
Market == {oax, weth}
None == {}

ApprovalsOf(orders) ==
    orders \cup {FeeOf(o) : o \in orders}
           \cup {operatorApprovalForFee(FeeOf(o)) : o \in orders}

Gift(id, who, a, n) == [id |-> id, wallet |-> who, asset |-> a, amount |-> n]
RequestsMade == DOMAIN OrderOf
EveryApproval == ApprovalsOf(Orders)

\* Alice's two asks, bob's bid for most of both: two trades, the second partial.
TwoAsks == [first |-> Ask(1, alice, 0, 2, 2), second |-> Ask(2, alice, 0, 2, 1),
            third |-> Bid(3, bob, 0, 3, 3)]
Funds == {Gift(1, alice, oax, 6), Gift(2, bob, oax, 1), Gift(3, bob, weth, 3)}

\* The first ask is handed in twice.
WithRetry == TwoAsks @@ [again |-> TwoAsks.first]

\* An ask and a bid of round 1, and an ask of round 2 that the bid may not meet.
\* Alice has what one order and its fee take, and may ask for it.
Crossing == [first |-> Ask(1, alice, 1, 2, 1), second |-> Bid(2, bob, 1, 2, 1),
             third |-> Ask(3, alice, 2, 2, 1)]
CrossingFunds == {Gift(1, alice, oax, 3), Gift(2, bob, oax, 2), Gift(3, bob, weth, 3)}

\* Bounds: all deposits are in before the second round; and after that round, or
\* once a withdrawal is asked for, there is one order at most.
LaterOneOrder ==
    /\ blockRound > 1 \/ asked # {} => credited = Deposits
    /\ blockRound > 2 \/ asked # {} => Cardinality({r \in Requests : pc[r] # "new"}) <= 1
OaxOfAlice == {[wallet |-> alice, asset |-> oax]}
WithdrawTwo == {[id |-> 1, wallet |-> alice, asset |-> oax, amount |-> 2]}
OnlyAlice == {alice}
=============================================================================
