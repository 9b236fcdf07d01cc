----------------------------- MODULE MCMediator -----------------------------
(***************************************************************************)
(* Small instances of the Mediator for TLC.                                *)
(***************************************************************************)
EXTENDS MediatorProperties

CONSTANTS
    alice, bob,
    gold,
    tin            \* an asset that is never registered

Both == {alice, bob}
OnlyAlice == {alice}
OneToken == {gold}
GoldAndTin == {gold, tin}
NoFills == {}

\* What the clients own: one unit of gold that alice can pay.
OneOfAll == [t \in Tokens |-> [c \in Clients |-> IF <<t, c>> = <<gold, alice>> THEN 1 ELSE 0]]

\* Both clients join in round 0: the authorization opens a dispute in round 1.
JoinAtStart == [c \in Clients |-> 0]

\* One approval of a client that pays a unit of gold and buys nothing (a fee).
FeeApproval(i, c, r) ==
    [id |-> i, client |-> c, round |-> r, intent |-> TRUE,
     buyAsset |-> gold, buyAmount |-> 0, sellAsset |-> gold, sellAmount |-> 1]

\* Each client signs one in round 2, the first round a request can be made in.
SellingApprovals == {FeeApproval(1, c, 2) : c \in Clients}

\* In round 1 alice pays a unit of tin for nothing, which the contract takes for a unit
\* of gold, and is given one of gold.  The operator has also signed a second fill of what
\* she pays.
PaysFee == [FeeApproval(1, alice, 1) EXCEPT !.sellAsset = tin]
TakesFee ==
    [id |-> 2, client |-> alice, round |-> 1, intent |-> TRUE,
     buyAsset |-> gold, buyAmount |-> 1, sellAsset |-> gold, sellAmount |-> 0]
FeeFill(i, a) ==
    [id |-> i, approvalId |-> a.id, client |-> alice, round |-> 1,
     buyAsset |-> gold, buyAmount |-> a.buyAmount,
     sellAsset |-> a.sellAsset, sellAmount |-> a.sellAmount]
FeeApprovals == {PaysFee, TakesFee}
FeeFills == {FeeFill(1, PaysFee), FeeFill(2, TakesFee), FeeFill(3, PaysFee)}
=============================================================================
