----------------------------- MODULE MCDeposits -----------------------------
(***************************************************************************)
(* Small instances of deposits for TLC.                                    *)
(***************************************************************************)
EXTENDS Deposits, TLC

CONSTANTS alice, bob, hub, k1, k2

Everybody == {alice, bob, hub}
Alice == {alice}
OneOrTwo == {1, 2}
BobAndHub == {bob, hub}
\* Enough for an approval that replaces a smaller one.
ThreeOrOne == [spender \in BobAndHub |-> IF spender = hub THEN 3 ELSE 1]
TwoCalls == {k1, k2}

\* Nothing tells one call from another.
SameCalls == Permutations(TwoCalls)
=============================================================================
