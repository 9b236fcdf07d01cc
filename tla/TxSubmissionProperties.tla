----------------------- MODULE TxSubmissionProperties -----------------------
EXTENDS TxSubmission

TransactionsOf(c) ==
    {tx \in pool : tx.call = c}
        \cup {Tx(c, i - 1, mined[i].price) : i \in {j \in DOMAIN mined : mined[j].call = c}}

\* Contracts.ts:150-191: however often a call has been repeated, all of its
\* transactions have one nonce, so that one of them at most is ever mined,
\* unless the answer to its first submission is lost.
OneNonceOfACall ==
    faults.lost = 0 => \A c \in Calls : Cardinality({tx.nonce : tx \in TransactionsOf(c)}) <= 1

\* Contracts.ts:193-213, with the test "concurrent commits do not require
\* retries" at src/tests/integration/contract/Commit.test.ts:215: while the
\* node answers in time no first submission of a call is refused, however the
\* calls interleave.
Undisturbed == \A kind \in AllFaults : faults[kind] = 0

FirstSubmissionAccepted ==
    Undisturbed => \A c \in Calls :
        calls[c].pc \in {"new", "locking", "asking", "sending"} => calls[c].sub = 0

\* A nonce is one call's, and a call has one nonce.
NoncesAreOwn == OneNonceOfACall /\ FirstSubmissionAccepted

\* Contracts.ts:226-257: a call returns for a transaction of its own that has
\* been executed, and never for a reverted one or for that of another call.
ReturnsForItsOwn ==
    \A c \in Calls : calls[c].pc = "returned" =>
        \E i \in DOMAIN mined : mined[i].call = c /\ mined[i].status

\* Operator.ts:155-211: the operator takes the commit of a round for done when
\* every token has its root on the chain, whichever run has put it there.
DoneIsCommitted == runState = "resolved" => Tokens \subseteq OnChain

\* Whoever is told that it is done finds it on the chain: a call, and the operator.
ReportsAreTrue == ReturnsForItsOwn /\ DoneIsCommitted

(* The inductive invariant: what the proofs of the properties above need to know *)

EarlyPlaces == {"new", "locking", "asking", "sending"}
LatePlaces == {"polling", "retrying", "returned", "failed"}
CommitPlaces == {"idle"} \cup EarlyPlaces \cup LatePlaces
DirectPlaces == {"idle", "direct", "directSending", "waiting", "returned", "failed"}

CallRecord ==
    [pc : CommitPlaces \cup DirectPlaces, nonce : Nat, price : Nat, attempt : Nat, sub : Nat]

SubmissionTypeOK ==
    /\ floor \in Nat
    /\ pool \in SUBSET [call : AllCalls, nonce : Nat, price : Nat] /\ IsFiniteSet(pool)
    /\ mined \in Seq([call : AllCalls, price : Nat, status : BOOLEAN])
    /\ run \in Runs /\ runState \in {"looping", "halting", "resolved", "ended"}
    /\ visited \in SUBSET Tokens
    /\ calls \in [AllCalls -> CallRecord]
    /\ faults \in [AllFaults -> Nat]

\* Which call can be where: the ones of later runs, and of the tokens that the loop
\* has not come to, have not begun; the holder of the lock is the one with a nonce
\* on the way.
PlacesInv ==
    /\ \A c \in Calls : calls[c].pc \in CommitPlaces
    /\ \A c \in HaltCalls : calls[c].pc \in DirectPlaces
    /\ \A c \in AllCalls : c.run > run => calls[c].pc = "idle"
    /\ \A t \in Tokens \ visited : calls[CallOf(t)].pc = "idle"
    /\ runState = "looping" => calls[CallOf(Halting)].pc = "idle"
    /\ runState # "looping" => visited = Tokens
    /\ \A c \in Calls : /\ state[c] = "in" <=> calls[c].pc \in {"asking", "sending"}
                        /\ state[c] = "waiting" <=> calls[c].pc = "locking"

\* A token that the loop has dealt with has its root or a call that brings it.
VisitedInv == \A t \in visited : CommitStarted(t) \/ t \in OnChain

\* The transactions of a call are those of its last nonce.
NonceInv ==
    faults.lost = 0 =>
        \A c \in Calls : \A tx \in TransactionsOf(c) :
            calls[c].pc \in LatePlaces /\ tx.nonce = calls[c].nonce

\* While the node answers in time: the pending nonces have no gap, the nonce asked
\* for is the next one when it is used, nothing that was sent is lost, ...
PoolInv ==
    /\ \A tx \in pool : Len(mined) <= tx.nonce /\ tx.nonce < PendingCount
    /\ \A tx, other \in pool : tx.nonce = other.nonce => tx = other
    /\ \A c \in Calls : calls[c].pc = "sending" => calls[c].nonce = PendingCount
    /\ \A c \in Calls : calls[c].pc \in LatePlaces => TransactionsOf(c) # {}

\* ... no call is repeated before all have been sent, nothing is sent in a later
\* run, because all is on the chain by then, and so no commit is reverted.
FirstRunInv ==
    /\ \A c \in Calls : calls[c].pc \in {"idle"} \cup EarlyPlaces => calls[c].sub = 0
    /\ \A c \in Calls : calls[c].pc \in EarlyPlaces => runState = "looping" /\ run = 1
    /\ \A c \in Calls : calls[c].pc \in {"retrying", "failed"} =>
          /\ visited = Tokens \/ run > 1
          /\ \A d \in Calls : calls[d].pc \notin EarlyPlaces
    /\ \A c \in Calls : calls[c].pc # "idle" => c.run = 1
    /\ run > 1 => Tokens \subseteq OnChain
    /\ \A i \in DOMAIN mined : mined[i].call \in Calls => mined[i].status
    /\ runState = "halting" => run = 1

\* The call of updateHaltedState waits for all of them.
DirectInv ==
    \A h \in HaltCalls :
        /\ calls[h].pc # "idle" => h.run = 1
        /\ calls[h].pc # "failed"
        /\ calls[h].pc = "directSending" => calls[h].nonce = PendingCount
        /\ calls[h].pc = "returned" => calls[h].nonce < Len(mined)
        /\ calls[h].pc \in {"waiting", "returned"} =>
              \A tx \in pool : tx.call \in Calls => tx.nonce < calls[h].nonce

CalmInv == PoolInv /\ FirstRunInv /\ DirectInv

SubmissionInv ==
    /\ SubmissionTypeOK
    /\ PlacesInv
    /\ ReportsAreTrue
    /\ VisitedInv
    /\ NonceInv
    /\ Undisturbed => CalmInv

\* Contracts.ts:178-191: a root whose first transaction offers too little is
\* committed all the same, for every price that the repetitions reach.
AllCommitted == <>(Tokens \subseteq OnChain \/ ~Undisturbed)

\* Contracts.ts:129-148: every call ends, with or without success.
CommitsEnd == \A c \in Calls : calls[c].pc = "new" ~> calls[c].pc \in {"returned", "failed"}

\* A commit comes to an end, and to a good one if the node is well.
CommitsSucceed == CommitsEnd /\ AllCommitted
=============================================================================
