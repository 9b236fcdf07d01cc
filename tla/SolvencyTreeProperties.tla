----------------------- MODULE SolvencyTreeProperties -----------------------
(***************************************************************************)
(* What clients, operator and contract may conclude from the root of a     *)
(* tree.  The accounts of a round are added one at a time, so that trees   *)
(* of every width are met.                                                 *)
(***************************************************************************)
EXTENDS SolvencyTree, FiniteSetsExt

CONSTANTS
    MaxWidth,   \* bound: accounts in the tree
    MaxSum      \* bound: the balance of one account

VARIABLE accounts

SolvencyInit == accounts = <<>>

\* The next client, whose address is its number here.
AddAccount ==
    /\ Len(accounts) < MaxWidth
    /\ \E sum \in 0 .. MaxSum :
          accounts' = Append(accounts, [address |-> Len(accounts) + 1, sum |-> sum])

levels == tree(accounts)
root == getRoot(levels)
committed == WithPadding(root.hash, root.sum, getHeight(levels), getWidth(levels))

Proof(account) == getLiabilities(account, levels)

\* Every account of the tree can be proved to the contract and to its owner,
\* whatever the width: odd levels, a single account.  (GenericMerkleTree.ts:66, 126)
EveryAccountProvable ==
    \A i \in DOMAIN accounts :
        LET proof == Proof(accounts[i])
        IN /\ validateProof(proof, root, accounts[i])
           /\ isMerkleProofValid(proof, committed, accounts[i], getHeight(levels),
                                 getWidth(levels))

\* The sum at the root is the one that the contract computes from deposits and
\* withdrawals, so nothing is counted twice or left out.  (SolvencyTree.ts:40)
RootSumsUp ==
    accounts # <<>> => root.sum = MapThenSumSet(LAMBDA i : accounts[i].sum, DOMAIN accounts)

\* With the nodes of the tree nobody proves another balance than its own: no
\* proof that was made for one account serves for another one.
\* (SolvencyTree.ts:26, Mediator.sol:950)
NobodyElseProvable ==
    \A i \in DOMAIN accounts : \A address \in 1 .. MaxWidth, sum \in 0 .. MaxSum :
        LET other == [address |-> address, sum |-> sum]
        IN isMerkleProofValid(Proof(accounts[i]), committed, other, getHeight(levels),
                              getWidth(levels))
           => other = accounts[i]

\* A proof is no longer than the tree is high: a client checks at most as many
\* hashes as there are levels below the root.  (GenericMerkleTree.ts:126)
ProofsAreShort ==
    \A i \in DOMAIN accounts :
        /\ Len(Proof(accounts[i])) <= getHeight(levels) - 1
        /\ 2 ^ (getHeight(levels) - 1) < 2 * Len(accounts)

\* A root says what everybody owns and nothing else.  (GenericMerkleTree.ts:66, 126;
\* SolvencyTree.ts:26, 40; Mediator.sol:950)
TreeIsSound ==
    EveryAccountProvable /\ NobodyElseProvable /\ RootSumsUp /\ ProofsAreShort
=============================================================================
