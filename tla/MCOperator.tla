----------------------------- MODULE MCOperator -----------------------------
(***************************************************************************)
(* Small instances of the operator with its contract, for TLC.             *)
(***************************************************************************)
EXTENDS OperatorProperties

CONSTANTS alice, gold, silver

Alice == {alice}
OneToken == {gold}
TwoTokens == {gold, silver}
NoFills == {}
NoApprovals == {}

One == [t \in Tokens |-> [c \in Clients |-> 1]]
Two == [t \in Tokens |-> [c \in Clients |-> 2]]
JoinAtStart == [c \in Clients |-> 0]

\* Alice sells gold in round 2, the first one a request can be made in.
Sells(i, amount) ==
    [id |-> i, client |-> alice, round |-> 2, intent |-> TRUE,
     buyAsset |-> gold, buyAmount |-> 1, sellAsset |-> gold, sellAmount |-> amount]

SellTwo == {Sells(2, 2)}
=============================================================================
