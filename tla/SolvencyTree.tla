---------------------------- MODULE SolvencyTree ----------------------------
(***************************************************************************)
(* The Merkle tree of balances, src/src/common/GenericMerkleTree.ts and    *)
(* src/src/common/accounting/SolvencyTree.ts, and how the Mediator checks  *)
(* a proof against its root.                                               *)
(*                                                                         *)
(* A hash is the value hashed: hash functions have no collisions here.     *)
(* Both sides sort two hashes before they combine them, so a pair is a     *)
(* set.  A liability is a hash with a sum.                                 *)
(*                                                                         *)
(* A definition named Wrong... is the one after it with a mistake in it:   *)
(* TLC must find what the mistake breaks.                                  *)
(***************************************************************************)
EXTENDS Integers, Sequences, SequencesExt

hash(account) == [hash |-> <<account>>, sum |-> account.sum]

combineHash(a, b) ==
    [hash |-> <<a.sum + b.sum, {a.hash, b.hash}>>, sum |-> a.sum + b.sum]

WrongNextLevel(level) ==
    [i \in 1 .. (Len(level) + 1) \div 2 |->
        IF 2 * i > Len(level) THEN combineHash(level[2 * i - 1], level[2 * i - 1])
                              ELSE combineHash(level[2 * i - 1], level[2 * i])]

\* Two by two; the last one of an odd number goes up as it is.
nextLevel(level) ==
    [i \in 1 .. (Len(level) + 1) \div 2 |->
        IF 2 * i > Len(level) THEN level[2 * i - 1]
                              ELSE combineHash(level[2 * i - 1], level[2 * i])]

\* Levels up to the one of a single node, which is reached in fewer steps than
\* there are leaves.
computeLevels(leaves) ==
    FoldLeft(LAMBDA levels, n : IF Len(Last(levels)) <= 1 THEN levels
                                ELSE Append(levels, nextLevel(Last(levels))),
             <<leaves>>, leaves)

tree(accounts) == computeLevels([i \in DOMAIN accounts |-> hash(accounts[i])])

\* Positions count from 1 here: 1 and 2 are siblings, and children of 1.
siblingIndex(pos) == IF pos % 2 = 1 THEN pos + 1 ELSE pos - 1
parentIndex(pos) == (pos + 1) \div 2

\* The sibling at each level, where there is one.
proofIndices(leaf, levels) ==
    FoldLeft(LAMBDA acc, level :
                [pos |-> parentIndex(acc.pos),
                 found |-> IF siblingIndex(acc.pos) <= Len(level)
                           THEN Append(acc.found, level[siblingIndex(acc.pos)])
                           ELSE acc.found],
             [pos |-> leaf, found |-> <<>>], levels).found

\* The first leaf equal to that of the account.
getLiabilities(account, levels) ==
    proofIndices(CHOOSE i \in DOMAIN levels[1] :
                    /\ levels[1][i] = hash(account)
                    /\ \A j \in 1 .. i - 1 : levels[1][j] # hash(account),
                 levels)

getRoot(levels) == Last(levels)[1]
getHeight(levels) == Len(levels)
getWidth(levels) == Len(levels[1])

\* getRootWithPadding, and what commit() of the contract stores, which knows the
\* total itself.
WithPadding(content, total, height, width) == <<<<content, total>>, height, width>>

isValidNode(node) == node.sum >= 0

\* validateProof, in the process of the client.
validateProof(proof, root, account) ==
    /\ \A i \in DOMAIN proof : isValidNode(proof[i])
    /\ isValidNode(hash(account))
    /\ FoldLeft(combineHash, hash(account), proof) = root

\* isMerkleProofValid of the contract: sums are added on the way up.
isMerkleProofValid(proof, root, account, height, width) ==
    LET top == FoldLeft(LAMBDA node, sibling :
                           [hash |-> <<node.sum + sibling.sum, {node.hash, sibling.hash}>>,
                            sum |-> node.sum + sibling.sum],
                        hash(account), proof)
    IN WithPadding(top.hash, top.sum, height, width) = root
=============================================================================
