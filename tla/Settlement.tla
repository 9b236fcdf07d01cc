----------------------------- MODULE Settlement -----------------------------
(***************************************************************************)
(* What the hub promises its users: a table of who owns how much, in which *)
(* two wallets exchange in one step, nobody gives away what it does not    *)
(* have, and only the chain brings in or takes out anything.               *)
(***************************************************************************)
EXTENDS Integers

CONSTANTS Wallets, Assets

VARIABLE owned      \* asset -> wallet -> amount

SettlementInit == owned = [a \in Assets |-> [w \in Wallets |-> 0]]

\* A deposit or a withdrawal of w on the chain.
Chain(old, new, a, w) ==
    /\ new = [old EXCEPT ![a][w] = new[a][w]]
    /\ new[a][w] >= 0

\* v gives some of a to w, for some of b or for nothing.
Exchange(old, new, v, a, w, b) ==
    LET given == old[a][v] - new[a][v]
        taken == old[b][w] - new[b][w]
    IN /\ v # w /\ a # b
       /\ 0 <= given /\ given <= old[a][v]
       /\ 0 <= taken /\ taken <= old[b][w]
       /\ new = [old EXCEPT ![a] = [@ EXCEPT ![v] = @ - given, ![w] = @ + given],
                            ![b] = [@ EXCEPT ![w] = @ - taken, ![v] = @ + taken]]

Settles(old, new) ==
    \/ \E a \in Assets, w \in Wallets : Chain(old, new, a, w)
    \/ \E v, w \in Wallets, a, b \in Assets : Exchange(old, new, v, a, w, b)

\* The quantifier has TLC evaluate the two tables once.
SettlementNext == \E old \in {owned}, new \in {owned'} : Settles(old, new)

SettlementSpec == SettlementInit /\ [][SettlementNext]_owned
=============================================================================
