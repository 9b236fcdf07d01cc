------------------------- MODULE L2ClientProperties -------------------------
(***************************************************************************)
(* What the client does for its user: it follows the rounds without a gap, *)
(* disputes what is wrong and nothing else, and gets the funds back.       *)
(***************************************************************************)
EXTENDS L2Client

\* The client has done all there is to do, and knows what time it is.
Settled == connected /\ AllIdle /\ round = getCurrentRound /\ quarter = getCurrentQuarter

\* "Checks that the operator / mediator state is accurate else open a dispute"
\* (L2Client.ts:434): whoever disputes has been cheated.  This needs the two ledgers
\* to agree on every deposit, order, fill, withdrawal and their rounds.
OnlyCheatsAreDisputed == \A r \in disputes : CheatedIn(r)

\* However slow, late, interrupted or refused: what the client's ledger says has
\* happened.  It may miss a deposit, an order, a fill or a cancellation, it never
\* has one that the contract or the server has not, or in another round.
\* (L2Client.ts:305-326, 1021-1025, 1044-1050)
LedgerNeverAhead ==
    /\ \A r \in Rounds : credited[r] <= deposited[r]
    /\ \A o \in Orders :
          /\ known[o].status # "none" => known[o].round = placed[o].round
          /\ known[o].status \in {"filled", "canceled"} => placed[o] = known[o]

(* The inductive invariant of LedgerNeverAhead. *)

\* A flow that has fetched fills holds fills of its round; one that cancels an order
\* here has cancelled it at the server.
FlowOK(x, orders) ==
    /\ x = [pc |-> x.pc, arg |-> x.arg, got |-> x.got, then |-> x.then]
    /\ x.pc \in Places \cup Orders
    /\ x.then \in {"idle", "confirm", "synced"} \cup Orders
    /\ x.pc = "insertFills" => x.got \subseteq FillsOf(orders, x.arg)
    /\ \A o \in Orders : x.pc = o \/ x.then = o => orders[o].status = "canceled"

\* The order that the user makes is new at the server, and is there, with its round,
\* before it is stored here.
UserOK(x, orders) ==
    /\ x.pc = "sendOrder" => \A o \in Orders : o \in x.got => orders[o].status = "none"
    /\ x.pc = "insertOrder" => \A o \in Orders : o \in x.got =>
          orders[o].status # "none" /\ orders[o].round = x.arg

\* A deposit is on the chain before it is credited here.
CreditsOK ==
    \A r \in Rounds :
        credited[r] + (IF At(User, "credit") /\ flow[User].arg = r THEN 1 ELSE 0)
            <= deposited[r]

\* What is known of an order is its round, and what became of it if it is over.
OrderOK(here, there) ==
    /\ here.status # "none" => there.status # "none" /\ here.round = there.round
    /\ here.status \in {"filled", "canceled"} => there = here

IsOrderTable(orders) ==
    /\ orders = [o \in Orders |-> orders[o]]
    /\ \A o \in Orders : orders[o] = [status |-> orders[o].status, round |-> orders[o].round]

LedgerInv ==
    /\ IsOrderTable(known) /\ IsOrderTable(placed)
    /\ credited \in [Rounds -> Nat] /\ deposited \in [Rounds -> Nat]
    /\ flow = [f \in Flows |-> flow[f]]
    /\ \A f \in Flows : FlowOK(flow[f], placed)
    /\ UserOK(flow[User], placed)
    /\ CreditsOK
    /\ \A o \in Orders : OrderOK(known[o], placed[o])

\* Test "retrieves fills" (L2Client.test.ts:1391): a client that does not leave has
\* all its fills of the rounds that are over.  (L2Client.ts:364)
FillsRetrieved ==
    Settled => \A r \in 0 .. round - 1 : FillsOf(placed, r) \subseteq FillsOf(known, r)

\* The two ledgers agree on what can be used, to the last order and withdrawal of
\* the current round.  (L2Client.ts:321, 421, 1025, 1050)
LedgersAgree ==
    Settled => /\ Free(credited, booked, known, round)
                      = Free(deposited, debited, placed, round)
               /\ \A o \in Orders : placed[o].status = "canceled" => known[o].status = "canceled"

\* "Checks that the operator / mediator state is accurate else open a dispute"
\* (L2Client.ts:434): once the client has seen the second quarter of a round in
\* which it was cheated, the dispute is open.
CheatsAreDisputed ==
    Settled /\ quarter >= 1 /\ round > roundJoined /\ CheatedIn(round) /\ ~haltDue
        => round \in disputes

\* From the round after it joined the client holds a proof of every round that it
\* was there for: without it there is no withdrawal in the next round, and only
\* the last deposits come back after a halt two rounds later.
\* (L2Client.ts:404, 894)
ProofsAreHeld ==
    Settled /\ quarter >= 1 /\ ~isHalted =>
        \A r \in roundJoined + 1 .. round : CheatedIn(r) \/ proofs[r] # Never

\* After a halt nobody is left with the on-chain funds only who had anything to
\* prove.  (L2Client.ts:894)
RecoversAll ==
    recovered = "onChain" /\ getCurrentRound >= 2 => serverOpening(getCurrentRound - 2) = 0

\* A withdrawal is paid as soon as the contract lets the client have it: no
\* request is forgotten between the clocks of the two.  (L2Client.ts:768, 827)
ClaimsArePaid ==
    Settled /\ quarter >= 1 /\ round >= 4 /\ ~isHalted =>
        request = Never \/ request > round - 2

\* Disputes are about what is wrong, all of it and nothing else.
DisputesAreRight == OnlyCheatsAreDisputed /\ CheatsAreDisputed

\* A client that has done what there is to do has missed nothing.
UpToDate == FillsRetrieved /\ LedgersAgree /\ ProofsAreHeld /\ ClaimsArePaid /\ RecoversAll

\* From its second quarter on, each round after the one of joining ends up with a
\* proof, or in a dispute (open already or now), also when the client joins in the
\* middle of a round.  (L2Client.ts:404, 812)
RoundsAreAudited ==
    \A r \in Rounds \ {0} :
        connected /\ getCurrentRound = r /\ getCurrentQuarter >= 1 /\ r > roundJoined
            ~> proofs[r] # Never \/ \E q \in disputes : q <= r

\* Node runs the continuations that are ready.
ClientFairSpec ==
    /\ ClientSpec
    /\ \A f \in Flows : WF_clientVars(FlowStep(f))
    /\ WF_clientVars(UserStep)
=============================================================================
