------------------------------- MODULE MCTrader -------------------------------
(***************************************************************************)
(* A small instance of the market for TLC.                                 *)
(***************************************************************************)
EXTENDS TraderProperties

CONSTANTS oax, weth

OaxWeth == [base |-> oax, quote |-> weth]
Listed == {OaxWeth}
BothWays == {OaxWeth, [base |-> weth, quote |-> oax]}

\* A half, one and two match units; prices of nothing, a half and two.
Amounts == {1, 2, 4}
Prices == {0, 1, 4}
AllLevels == {1, 2, 3}

\* Bound: three orders only at one price, in amounts that trade in several steps;
\* and then nobody asks for the book.
ThirdOrder ==
    Len(asked) = 3 =>
        /\ \A i \in 1 .. 3 : asked[i].price = 4 /\ asked[i].amount \in {2, 4}
        /\ reading.kind # "book"
=============================================================================
