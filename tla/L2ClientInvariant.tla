--------------------------- MODULE L2ClientInvariant ---------------------------
(***************************************************************************)
(* The inductive invariant of a client to which nothing has happened yet:  *)
(* every call was answered, the chain has waited for its handlers, and the *)
(* operator was in time.  Then each flow knows the round and the quarter,  *)
(* and the ledgers of client and server differ by what a flow is just      *)
(* about to write.                                                         *)
(***************************************************************************)
EXTENDS L2ClientProperties

\* The chain waits for the handlers, the operator for the chain, and the user for the
\* handlers.  These are not counted among the faults that have happened.
InTime == Faults \cap {"slow", "late", "hasty"} = {}

Now == time \div 4
Part == time % 4

(* The chain and the server *)

ChainOK ==
    /\ time \in 0 .. 4 * MaxRound + 3
    /\ haltedAt \in {Never, time}
    /\ haltedAt # Never => haltDue
    /\ serverRound = Now
    /\ debited \in [Rounds -> Nat] /\ booked \in [Rounds -> Nat]
    /\ \A o \in Orders :
          /\ placed[o].status \in {"none", "open", "filled", "canceled"}
          /\ placed[o].status # "none" => placed[o].round \in 0 .. Now
    /\ \A r \in Rounds : r > Now => deposited[r] = 0 /\ debited[r] = 0
    /\ serverOpening(Now) >= 0 /\ Free(deposited, debited, placed, Now) >= 0
    /\ \A r \in 0 .. Now : serverOpening(r) >= 0

(* Joining *)

Joining == {"syncTime", "admit", "validateAuthorization", "connect"}

\* Before it has joined the client has done nothing, and it joins within a block.
JoinOK ==
    LET pc == flow[User].pc
    IN ~connected =>
        /\ \A h \in Handlers : At(h, "idle")
        /\ pc \in {"idle"} \cup Joining
        /\ pc # "idle" => round = Now
        /\ pc \in {"admit", "validateAuthorization", "connect"} =>
              quarter = Part /\ roundJoined = Now
        /\ pc = "connect" => account = [roundJoined |-> Now, lastFillRound |-> Now,
                                        lastAuditRound |-> Now]
        /\ pc # "connect" => account = NoAccount
        /\ pc = "validateAuthorization" => admitted = Now
        /\ pc \in {"idle", "syncTime", "admit"} => admitted = Never
        /\ deposited = [r \in Rounds |-> 0] /\ debited = [r \in Rounds |-> 0]
        /\ \A o \in Orders : placed[o].status = "none"
        /\ disputes = {} /\ request = Never /\ ~pending
        /\ proofs = [r \in Rounds |-> Never]

JoinedOK ==
    connected =>
        /\ DOMAIN account = DOMAIN NoAccount /\ account.roundJoined = roundJoined
        /\ roundJoined \in 0 .. Now
        /\ flow[User].pc \notin Joining
        /\ flow[User].pc \in {"syncFills", "syncProofs"} =>
              /\ flow[User].got.lastFillRound = round /\ flow[User].got.lastAuditRound = round
              /\ round = Now

(* Flows *)

Asking == {"askRound", "setRound", "askQuarter", "goToQuarter"}
Fetching == {"fetch", "insertFills"}
Auditing == {"fetchProofs", "checkProofs", "openDispute", "dispute"}
Claiming == {"confirm", "confirmed"}

\* A handler works for the quarter that it is.
HandlerOK(x) ==
    /\ x.pc \in {"idle", "recoverFunds"} \cup Asking \cup Fetching \cup Auditing \cup Claiming
    /\ x.pc # "idle" => connected
    /\ x.pc = "recoverFunds" => haltedAt # Never
    /\ x.pc = "setRound" => x.got = Now
    /\ x.pc \in {"askQuarter", "goToQuarter"} \cup Fetching \cup Auditing \cup Claiming =>
          round = Now
    /\ x.pc = "goToQuarter" => x.got = Part
    /\ x.pc \in Fetching \cup Auditing \cup Claiming => quarter = Part
    /\ x.pc \in Fetching => x.arg = Now - 1 /\ x.then = "idle" /\ Part = 0
    /\ x.pc = "insertFills" => x.got = FillsOf(placed, Now - 1)
    /\ x.pc \in Auditing => /\ x.arg = Now /\ x.then = "confirm"
                            /\ Part = 1 /\ Now > roundJoined
    /\ x.pc = "checkProofs" => x.got = committedBalance(Now)
    /\ x.pc \in {"openDispute", "dispute"} => CheatedIn(Now)
    /\ x.pc = "dispute" => x.got.proof = proofs[Now - 1]
    /\ x.pc \in Claiming => Part = 1

\* What the client believes about the time is right but for a handler that is asking.
ClockOK ==
    connected => /\ round = Now \/ \E h \in Handlers : flow[h].pc \in {"askRound", "setRound"}
                 /\ quarter = Part \/ \E h \in Handlers : flow[h].pc \in Asking

UserPlaces ==
    {"idle", "syncFills", "syncProofs", "initiate", "withdraw", "credit", "sendOrder",
     "insertOrder"} \cup Joining \cup Claiming \cup Fetching

OneNew(orders) == \E o \in Orders : orders = {o} /\ known[o].status = "none"

\* The user does one thing at a time, in the round in which it is written down.
UserIsOK(x) ==
    /\ x.pc \in UserPlaces \cup Orders
    /\ x.pc \in Fetching => x.then \in Orders
    /\ x.pc = "credit" => x.arg = Now
    /\ x.pc \in {"initiate", "withdraw"} => x.arg = Now /\ Now > 0 /\ ~pending
    /\ x.pc = "initiate" => Free(deposited, debited, placed, Now) > 0
    /\ x.pc = "sendOrder" => OneNew(x.got)
    /\ x.pc = "insertOrder" => OneNew(x.got) /\ x.arg = Now

(* The ledgers *)

\* The fills of the round before are still to be fetched.
Behind ==
    \E h \in Handlers : \/ flow[h].pc \in Asking /\ Part = 0 /\ quarter # 0
                        \/ flow[h].pc \in Fetching

Canceling(x, o) == x.pc = o \/ (x.pc \in Fetching /\ x.then = o)

AmountsAgree ==
    \A r \in Rounds :
        /\ deposited[r] = credited[r] + (IF At(User, "credit") /\ r = Now THEN 1 ELSE 0)
        /\ debited[r] = booked[r] + (IF At(User, "withdraw") /\ r = Now THEN 1 ELSE 0)

OrdersAgree ==
    \A o \in Orders :
        /\ known[o].status \in {"none", "open", "filled", "canceled"}
        /\ placed[o].status # "none" /\ known[o].status = "none" =>
              At(User, "insertOrder") /\ flow[User].got = {o} /\ placed[o].round = Now
        /\ placed[o].status = "filled" /\ known[o].status = "open" =>
              placed[o].round = Now \/ (Behind /\ placed[o].round = Now - 1)
        /\ placed[o].status = "canceled" /\ known[o].status # "canceled" =>
              Canceling(flow[User], o) /\ placed[o].round = Now

NothingBefore ==
    \A r \in Rounds : r < roundJoined =>
        deposited[r] = 0 /\ debited[r] = 0 /\ FillsOf(placed, r) = {}

(* Audits, disputes, claims *)

ProofsOK ==
    /\ DOMAIN proofs = Rounds
    /\ \A r \in Rounds : proofs[r] # Never =>
          r <= Now /\ roundJoined < r /\ proofs[r] = serverOpening(r) /\ ~CheatedIn(r)

DisputesOK ==
    /\ disputes \subseteq 1 .. Now
    /\ \A r \in disputes : CheatedIn(r) /\ time <= 4 * (r + 1) + 1

AuditPending ==
    \/ Part = 0
    \/ \E h \in Handlers : \/ flow[h].pc \in Asking /\ quarter = 0 /\ Part = 1
                           \/ flow[h].pc \in Auditing

\* Every round since the one of joining is proved or disputed, but for one in which
\* the contract is to halt anyway.
Audited ==
    connected =>
        \A r \in roundJoined + 1 .. Now :
            \/ r = Now /\ AuditPending
            \/ proofs[r] # Never
            \/ CheatedIn(r) /\ (r \in disputes \/ (r = Now /\ haltDue))

ClaimsOK ==
    request # Never =>
        /\ request \in roundJoined + 2 .. Now
        /\ haltedAt = Never /\ Now >= 4 /\ request <= Now - 2 =>
              /\ request = Now - 2
              /\ AuditPending \/ \E h \in Handlers : At(h, "confirm")

Calm ==
    /\ ChainOK /\ JoinOK /\ JoinedOK /\ ClockOK
    /\ \A h \in Handlers : HandlerOK(flow[h])
    /\ UserIsOK(flow[User])
    /\ AmountsAgree /\ OrdersAgree /\ NothingBefore
    /\ ProofsOK /\ DisputesOK /\ Audited /\ ClaimsOK /\ RecoversAll
    /\ recovered = "no" \/ haltedAt # Never

CalmInv == faults \in Nat /\ (faults = 0 => Calm)
=============================================================================
