------------------------- MODULE ExchangeProperties -------------------------
(***************************************************************************)
(* What the exchange and its ledger owe to their clients, to the contract  *)
(* and to each other.                                                      *)
(***************************************************************************)
EXTENDS Exchange

D == INSTANCE DisputeAccounting

(***************************************************************************)
(* Balances.                                                               *)
(***************************************************************************)
Live(p) == rows[p].status \in {"open", "closed"}

\* What each approval has locked.
Locking == [p \in Approvals |-> IF Live(p) THEN p.sellAmount - rows[p].filledSell ELSE 0]

ApprovalsFor(r, a, w) == {p \in Approvals : p.round = r /\ p.sellAsset = a /\ p.client = w}

\* What an account has locked is what the orders of its round have still to sell:
\* over retries, cancellations, crashes and fills of several matchings.
\* (MetaLedger.ts:390, 484, 562)
LocksAccounted ==
    \A r \in Rounds, a \in Assets, w \in Wallets :
        accounts[r][a][w].locked = SumFunctionOnSet(Locking, ApprovalsFor(r, a, w))

Cached(a, w) == cache[a][w].round # -1
Computed(a, w) == calculateBalance(accounts, a, w, cache[a][w].round)

Taken(account) == account.sold + account.withdrawn
Got(account) == account.deposited + account.bought

TakenBefore(a, w, r) ==
    SumFunctionOnSet([q \in Rounds |-> Taken(accounts[q][a][w])], 0 .. r - 1)

\* The cached balance never promises more than the tables hold, whatever
\* transaction has failed on the way, but for what was sold or withdrawn in
\* earlier rounds: that the cache is not told.  (MetaLedger.ts:394, 404)
CacheNeverAbove ==
    \A a \in Assets, w \in Wallets :
        Cached(a, w) =>
            cache[a][w].balance <= Computed(a, w) + TakenBefore(a, w, cache[a][w].round)

GotSoFar(a, w, r) == SumFunctionOnSet([q \in Rounds |-> Got(accounts[q][a][w])], 0 .. r)


(***************************************************************************)
(* Fills.                                                                  *)
(***************************************************************************)
FillsOf(w, r) == {f \in fills : f.client = w /\ f.round = r}
ApprovalOf(S) == [f \in S |-> ApprovalWithId(f.approvalId)]

\* Orders name registered assets only, each of which has an account of its own.
OneEach == [a \in Assets |-> {a}]

\* The contract accepts the fills of a client in a dispute of their round: each
\* within its approval, together within the approvals, and none before the
\* client had what it sells.  (Mediator.sol:655, Exchange.ts:681)
FillsProvable ==
    \A w \in Wallets, r \in Rounds :
        LET S == FillsOf(w, r)
            start == [a \in Assets |-> openingBalance(a, w, r) + accounts[r][a][w].deposited]
        IN /\ \A f \in S : D!checkFillWithApproval(f, ApprovalWithId(f.approvalId))
           /\ D!WithinApprovals(S, ApprovalOf(S), OneEach)
           /\ D!NeverNegative(start, S, OneEach)

\* Two orders of different rounds are never matched, although the exchange takes
\* the taker's round from the approval and the makers' from the operator at
\* another moment: the lock keeps the orders of a new round out of the book
\* while one of the old round is matched.  (Exchange.ts:158, 213)
NoCrossRoundTrade ==
    \A t \in trades : ApprovalWithId(t.left).round = ApprovalWithId(t.right).round

\* Once an order of a later round is in the book, no earlier round gets another
\* fill.  (Exchange.ts:213)
OldRoundsAreFinal ==
    [][\A f \in fills' \ fills :
          \A p \in Approvals : p.client # Operator /\ rows[p].status # "none"
                                   => p.round <= f.round]_exchangeVars

\* Rounds do not mix: neither in a trade nor in the order of their fills.
RoundsAreApart == []NoCrossRoundTrade /\ OldRoundsAreFinal

\* A matching fails for no other reason than a cancellation: what it computed
\* from the book fits the approvals and the locks.  (Exchange.ts:228)
OnlyCancellationUnmatches ==
    \A r \in Requests :
        pc[r] = "unmatched" => \E p \in Orders : rows[p].status = "canceled"


(***************************************************************************)
(* Withdrawals.                                                            *)
(***************************************************************************)
Booked(x) == x.status \in {"pending", "confirmed"}

\* What each withdrawal has taken off its account.
Taking == [i \in DOMAIN withdrawals |->
             IF Booked(withdrawals[i]) THEN withdrawals[i].amount ELSE 0]

WithdrawalsFrom(r, a, w) ==
    {i \in DOMAIN withdrawals :
        LET x == withdrawals[i] IN x.round = r /\ x.asset = a /\ x.wallet = w}

\* Each account has booked as withdrawn what its approved requests ask for, once,
\* over repeated moderation, cancellation and restarts.  (MetaLedger.ts:834, 897)
WithdrawalsBooked ==
    \A r \in Rounds, a \in Assets, w \in Wallets :
        accounts[r][a][w].withdrawn = SumFunctionOnSet(Taking, WithdrawalsFrom(r, a, w))

(***************************************************************************)
(* The exchange settles as Settlement says: a fill whose counterpart is    *)
(* still to be added has not happened yet.                                 *)
(***************************************************************************)
\* Of the two fills of a trade the first one is in, and nothing came after it.
HalfDone(r) == pc[r] \in {"feeFills", "tradeFills"} /\ Len(todo[r]) % 2 = 1

Gives(f, a) == IF f.sellAsset = a THEN f.sellAmount ELSE 0
Takes(f, a) == IF f.buyAsset = a THEN f.buyAmount ELSE 0

settled ==
    LET undone == {f \in fills : /\ \E r \in Requests : HalfDone(r)
                                 /\ f.id = Cardinality(fills)}
        Of(w) == {f \in undone : f.client = w}
    IN [a \in Assets |-> [w \in Wallets |->
           NetBefore(accounts, a, w, MaxRound + 1)
             - D!Sum(Of(w), LAMBDA f : Takes(f, a) - Gives(f, a))]]

Hub == INSTANCE Settlement WITH owned <- settled

(***************************************************************************)
(* Liveness: Node runs every continuation that is ready, so a request that *)
(* can take a step takes one.  This is WF_exchangeVars(addOrder(r)); Ready *)
(* says ENABLED addOrder(r) in a way that is cheap to evaluate.            *)
(***************************************************************************)
Ready(r) == pc[r] \notin Ended /\ (pc[r] = "new" => matchLock = NoOne)

ExchangeFairSpec ==
    /\ ExchangeSpec
    /\ \A r \in Requests : []<>~Ready(r) \/ []<><<addOrder(r)>>_exchangeVars

\* Every request is answered; none waits for the lock for ever.
EveryRequestEnds == \A r \in Requests : <>(pc[r] \in Ended)

(***************************************************************************)
(* What keeps LocksAccounted and WithdrawalsBooked, as an inductive        *)
(* invariant; and what keeps the rounds apart when nothing crashes.        *)
(***************************************************************************)
Places == {"new", "check", "insert", "fee", "feeFills", "match", "tradeFills"} \cup Ended
Ids == {p.id : p \in Approvals}
Fill == [approval : Ids, buy : Nat, sell : Nat, round : Rounds]

BooksTypeOK ==
    /\ accounts \in [Rounds -> [Assets -> [Wallets -> Account]]]
    /\ rows \in [Approvals -> Row]
    /\ withdrawals \in Seq(Withdrawal)
    /\ pc \in [Requests -> Places] /\ matchLock \in Requests \cup {NoOne}
    /\ todo \in [Requests -> Seq(Fill)]
    /\ round \in Rounds /\ blockRound \in Rounds
    /\ operatorPc \in {"idle", "moderate", "validate", "approve", "commit"}

Placed(p) == rows[p].status # "none"
OwnApproval(o) == operatorApprovalForFee(FeeOf(o))

\* A request between the check and its end holds the lock.
LockIsHeld == \A r \in Requests : pc[r] \notin Ended \cup {"new"} => matchLock = r

\* The operator's side of a fee is placed once, after the order it is for.
FeesComeOnce ==
    /\ \A o \in Orders : Placed(OwnApproval(o)) => Placed(o)
    /\ \A r \in Requests :
          pc[r] = "fee" => Placed(OrderOf[r]) /\ ~Placed(OwnApproval(OrderOf[r]))

\* No two rows have one id.
RowIds ==
    LET placed == {p \in Approvals : Placed(p)}
    IN /\ \A p \in placed : rows[p].priority \in 1 .. Cardinality(placed)
       /\ \A p, q \in placed : rows[p].priority = rows[q].priority => p = q

\* What the operator has still to moderate nobody else has decided on.
StillUnchecked ==
    /\ \A i \in moderating : i \in DOMAIN withdrawals /\ withdrawals[i].status = "unchecked"
    /\ operatorPc \in {"moderate", "validate", "approve"} => moderating # {}

BooksInv ==
    /\ BooksTypeOK /\ LockIsHeld /\ FeesComeOnce /\ RowIds /\ StillUnchecked
    /\ LocksAccounted /\ WithdrawalsBooked

\* What keeps CacheNeverAbove: what is sold is never taken back.
CacheInv ==
    /\ cache \in [Assets -> [Wallets -> [round : Rounds \cup {-1}, balance : Int]]]
    /\ \A r \in Rounds, a \in Assets, w \in Wallets : accounts[r][a][w].sold \in Nat
    /\ CacheNeverAbove

Accepting == {"insert", "fee", "feeFills", "match", "tradeFills"}

\* Nothing is in the book of a later round than that of the request that holds the
\* lock, and what a request fills is of the round of its order.
RoundsInOrder ==
    /\ round <= blockRound
    /\ \A p \in Approvals : Placed(p) => p.round <= round
    /\ \A r \in Requests :
          /\ \A i \in DOMAIN todo[r] : todo[r][i].round = OrderOf[r].round
          /\ pc[r] \in Accepting =>
                /\ OrderOf[r].round <= round
                /\ \A p \in Approvals : Placed(p) => p.round <= OrderOf[r].round

RoundsInv ==
    /\ crashes \in 0 .. MaxCrashes
    /\ crashes = 0 => RoundsInOrder /\ NoCrossRoundTrade
=============================================================================
