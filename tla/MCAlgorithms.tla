---------------------------- MODULE MCAlgorithms ----------------------------
(***************************************************************************)
(* The pure algorithms on bounded inputs for TLC: small order books of one *)
(* market, with amounts of a few match units, and trees of a few accounts. *)
(* A behaviour builds either a book or a tree; the two share nothing.      *)
(***************************************************************************)
EXTENDS MatchingProperties, SolvencyTreeProperties

CONSTANTS oax, weth, MaxAmount

\* Bids buy a named amount of the base asset, asks sell one: the orders of a
\* market OAX/WETH.
Bid(buy, sell) == [id |-> 0, client |-> 0, round |-> 0, intent |-> TRUE,
                   buyAsset |-> oax, buyAmount |-> buy,
                   sellAsset |-> weth, sellAmount |-> sell]
Ask(buy, sell) == [id |-> 0, client |-> 0, round |-> 0, intent |-> FALSE,
                   buyAsset |-> weth, buyAmount |-> buy,
                   sellAsset |-> oax, sellAmount |-> sell]

Amounts == 1 .. MaxAmount
Bids == {Bid(x, y) : x, y \in Amounts}
Asks == {Ask(x, y) : x, y \in Amounts}
Orders == Bids \cup Asks

AlgorithmsInit == MatchingInit /\ SolvencyInit

\* The tree does not depend on the taker, so one of them is enough for it.
NobodyTrades == taker = mkMatch(Bid(1, 1), 1, MaxMakers + 1) /\ book = <<>>

BuildBook == accounts = <<>> /\ Place /\ UNCHANGED accounts
BuildTree == NobodyTrades /\ AddAccount /\ UNCHANGED matchingVars

AlgorithmsSpec ==
    AlgorithmsInit /\ [][BuildBook \/ BuildTree]_<<taker, book, accounts>>
=============================================================================
