------------------------------ MODULE L2Client ------------------------------
(***************************************************************************)
(* The client of the hub, src/src/client/operator/L2Client.ts, with its    *)
(* tables, between a server that answers it and the contract.              *)
(*                                                                         *)
(* The client is one thread with several flows of control: one for the     *)
(* calls of its user and one for each block whose handler has not ended.   *)
(* A flow runs from one await to the next.  There is one asset; every      *)
(* deposit, order, fill and withdrawal is of one unit of it, so a balance  *)
(* is a number of units.  A fill has the name of its order.                *)
(*                                                                         *)
(* A definition named Wrong... is the one after it with a mistake in it:   *)
(* TLC must find what the mistake breaks.                                  *)
(***************************************************************************)
EXTENDS Integers, FiniteSetsExt

CONSTANTS
    Orders,         \* the orders the user may make; each sells one unit
    Handlers,       \* flows for the blocks; bound: handlers that overlap
    MaxRound,       \* bound
    MaxDeposits,    \* bound
    MaxWithdrawals, \* bound
    Cheats,         \* the rounds for which the operator commits one unit less
    Faults,         \* what may go wrong, of AllFaults
    MaxFaults       \* bound: how often

User == "user"
Flows == Handlers \cup {User}

\* The chain does not wait for the client; the operator enters a round late; the
\* user withdraws while a block is being handled; the client leaves; its process
\* crashes; the server refuses a request, or fails when it is asked for fills; it
\* does what it is asked to and the answer comes too late.
AllFaults == {"slow", "late", "hasty", "leave", "crash", "refuse", "noFills", "unanswered"}

\* Where a flow waits; a flow that cancels an order has the name of the order.
Places == {"idle", "askRound", "setRound", "askQuarter", "goToQuarter",
           "fetch", "insertFills", "fetchProofs", "checkProofs", "openDispute", "dispute",
           "confirm", "confirmed", "initiate", "withdraw", "recoverFunds", "credit",
           "sendOrder", "insertOrder", "syncTime", "admit", "validateAuthorization",
           "connect", "syncFills", "syncFetch", "syncProofs", "synced"}

ASSUME ClientAssumption ==
    /\ User \notin Handlers /\ MaxRound \in Nat /\ Cheats \subseteq Nat
    /\ Faults \subseteq AllFaults /\ MaxFaults \in Nat
    /\ Orders \cap Places = {} /\ IsFiniteSet(Orders)

Rounds == 0 .. MaxRound
Never == -1

VARIABLES
    (* the chain *)
    time,           \* quarters since the start
    haltedAt,       \* the time of the halt, or Never
    deposited,      \* round -> units deposited
    request,        \* the round of the active withdrawal, or Never
    debited,        \* round -> units asked for in withdrawals, which the server debits
    disputes,       \* the rounds in which the client has opened a dispute
    recovered,      \* "no", "all" or "onChain"
    (* the server *)
    serverRound,    \* its round
    admitted,       \* the round in which it registered the client, or Never
    placed,         \* order -> [status, round]
    (* the client's database *)
    account,        \* its row of the wallets, or NoAccount
    known,          \* order -> [status, round]
    credited,       \* round -> units credited
    booked,         \* round -> units booked as withdrawn
    pending,        \* a withdrawal is pending
    proofs,         \* round -> the balance proved, or Never
    (* the client's memory *)
    connected,      \* it has joined, and its listeners are registered
    round, quarter, \* what it believes
    roundJoined,
    flow,           \* flow -> [pc, arg, got, then]
    faults          \* faults that have happened

chainVars == <<time, haltedAt, deposited, request, debited, disputes, recovered>>
serverVars == <<serverRound, admitted, placed>>
databaseVars == <<account, known, credited, booked, pending, proofs>>
memoryVars == <<connected, round, quarter, roundJoined>>
clientVars == <<chainVars, serverVars, databaseVars, memoryVars, flow, faults>>

NoAccount == [roundJoined |-> Never, lastFillRound |-> Never, lastAuditRound |-> Never]
NoOrder == [status |-> "none", round |-> Never]
Idle == [pc |-> "idle", arg |-> Never, got |-> {}, then |-> "idle"]

ClientInit ==
    /\ time = 0 /\ haltedAt = Never /\ request = Never /\ recovered = "no"
    /\ deposited = [r \in Rounds |-> 0] /\ debited = [r \in Rounds |-> 0]
    /\ disputes = {}
    /\ serverRound = 0 /\ admitted = Never /\ placed = [o \in Orders |-> NoOrder]
    /\ account = NoAccount /\ known = [o \in Orders |-> NoOrder]
    /\ credited = [r \in Rounds |-> 0] /\ booked = [r \in Rounds |-> 0]
    /\ pending = FALSE /\ proofs = [r \in Rounds |-> Never]
    /\ connected = FALSE /\ round = 0 /\ quarter = 0 /\ roundJoined = Never
    /\ flow = [f \in Flows |-> Idle] /\ faults = 0

(***************************************************************************)
(* Balances: of the client at the server, and in its own ledger.           *)
(***************************************************************************)
FillsOf(orders, r) == {o \in Orders : orders[o].status = "filled" /\ orders[o].round = r}

Balance(in, out, orders, r) ==
    MapThenSumSet(LAMBDA q : in[q] - out[q] - Cardinality(FillsOf(orders, q)),
                  {q \in Rounds : q < r})

serverOpening(r) == Balance(deposited, debited, placed, r)
openingBalance(r) == Balance(credited, booked, known, r)

\* Less what the open orders of the round hold.
Free(in, out, orders, r) ==
    Balance(in, out, orders, r + 1)
      - Cardinality({o \in Orders : orders[o].status = "open" /\ orders[o].round = r})

\* The balance that the operator has committed for a round and proves.
committedBalance(r) ==
    serverOpening(r) - (IF r \in Cheats /\ serverOpening(r) > 0 THEN 1 ELSE 0)

getCurrentRound == (IF haltedAt = Never THEN time ELSE haltedAt) \div 4
getCurrentQuarter == (IF haltedAt = Never THEN time ELSE haltedAt) % 4
isHalted == haltedAt # Never

\* Commits are mined in the first quarter; round 0 has none.
isProofValid(r) == r > 0 /\ time > 4 * r

(***************************************************************************)
(* Flows.                                                                  *)
(***************************************************************************)
At(f, pc) == flow[f].pc = pc
Become(f, new) == flow' = [flow EXCEPT ![f] = new]
Go(f, pc) == Become(f, [flow[f] EXCEPT !.pc = pc])
GoWith(f, pc, got) == Become(f, [flow[f] EXCEPT !.pc = pc, !.got = got])
End(f) == Become(f, Idle)
Fetch(f, r, then) == Become(f, [pc |-> "fetch", arg |-> r, got |-> {}, then |-> then])

Fault(kind) == kind \in Faults /\ faults < MaxFaults /\ faults' = faults + 1
NoFault == UNCHANGED faults

onlyMemory == UNCHANGED <<chainVars, serverVars, databaseVars>> /\ NoFault
onlyFlow == onlyMemory /\ UNCHANGED memoryVars

\* The fills of the database after those in got, for round r, have come in: each is
\* inserted, or refused when its order is not known and open.
onReceiveFills(got, r) ==
    [o \in Orders |-> IF o \in got /\ known[o].status = "open" /\ known[o].round = r
                      THEN [known[o] EXCEPT !.status = "filled"] ELSE known[o]]

\* Whatever has been fetched or audited, the round recorded is that of now.  The row is
\* read and written back in one step, without the await between (L2Client.ts:1082-1093).
updateLastAuditOrFillRound(field) ==
    account' = IF account = NoAccount THEN account ELSE [account EXCEPT ![field] = round]

\* A proof is stored once.
storeProof(r, proof) == proofs' = [proofs EXCEPT ![r] = IF @ = Never THEN proof ELSE @]

(***************************************************************************)
(* The chain and the server.                                               *)
(***************************************************************************)
CheatedIn(r) == committedBalance(r) # serverOpening(r)

\* The operator answers every dispute it can; one about a round in which it has
\* cheated halts the contract in the second quarter of the next round.
haltDue == \E r \in disputes : CheatedIn(r) /\ time > 4 * (r + 1)

AllIdle == \A f \in Flows : At(f, "idle")

\* The event of a block, or of the halt, to the listeners of the client.
Notify(h, pc) ==
    IF connected THEN At(h, "idle") /\ Go(h, pc) ELSE UNCHANGED flow

\* A block, in the same quarter or the first of the next one.
NewBlock(h, quarters) ==
    /\ ~isHalted /\ ~haltDue /\ time + quarters < 4 * (MaxRound + 1)
    /\ "slow" \in Faults \/ AllIdle
    /\ time' = time + quarters
    /\ serverRound' = IF "late" \in Faults THEN serverRound ELSE time' \div 4
    /\ Notify(h, "askRound")
    /\ UNCHANGED <<haltedAt, deposited, request, debited, disputes, recovered, admitted,
                   placed, databaseVars, memoryVars, faults>>

Halt(h) ==
    /\ ~isHalted /\ haltDue
    /\ haltedAt' = time
    /\ Notify(h, "recoverFunds")
    /\ UNCHANGED <<time, deposited, request, debited, disputes, recovered, serverVars,
                   databaseVars, memoryVars, faults>>

enterRound ==
    /\ serverRound # time \div 4
    /\ serverRound' = time \div 4
    /\ UNCHANGED <<chainVars, admitted, placed, databaseVars, memoryVars, flow, faults>>

fill(o) ==
    /\ placed[o].status = "open" /\ placed[o].round = serverRound
    /\ placed' = [placed EXCEPT ![o].status = "filled"]
    /\ UNCHANGED <<chainVars, serverRound, admitted, databaseVars, memoryVars, flow, faults>>

\* The server, or the way to it, fails; the flow goes on at pc.
Refuse(f, pc) ==
    /\ Fault("refuse")
    /\ IF pc = "idle" THEN End(f) ELSE Go(f, pc)
    /\ UNCHANGED <<chainVars, serverVars, databaseVars, memoryVars>>

\* HTTPClient.fetchFills takes an answer that is an error for no fills at all.
FillsGiven(r, given) ==
    \/ given = FillsOf(placed, r) /\ NoFault
    \/ given = {} /\ Fault("noFills")

\* The answer to what the user has sent, or no answer in time: then the call throws.
Answered(pc) ==
    \/ Go(User, pc) /\ NoFault
    \/ End(User) /\ Fault("unanswered")

(***************************************************************************)
(* A new block: ensureRound and ensureQuarter.                             *)
(***************************************************************************)
askRound(f) == At(f, "askRound") /\ GoWith(f, "setRound", getCurrentRound) /\ onlyFlow

setRound(f) ==
    /\ At(f, "setRound") /\ round' = flow[f].got
    /\ Go(f, "askQuarter")
    /\ UNCHANGED <<connected, quarter, roundJoined>> /\ onlyMemory

askQuarter(f) ==
    At(f, "askQuarter") /\ GoWith(f, "goToQuarter", getCurrentQuarter) /\ onlyFlow

WrongGoToQuarter(f) ==
    LET new == flow[f].got
    IN /\ At(f, "goToQuarter")
       /\ quarter' = new
       /\ IF new # quarter /\ new = 0 THEN Fetch(f, round, "idle")
          ELSE IF new # quarter /\ new = 2 /\ round > roundJoined
          THEN Become(f, [pc |-> "fetchProofs", arg |-> round, got |-> {},
                          then |-> "confirm"])
          ELSE End(f)
       /\ UNCHANGED <<connected, round, roundJoined>> /\ onlyMemory

\* goToQuarter: fills in quarter 0; in quarter 1 the audit, then the withdrawals.
\* audit() ends at once in the round of joining.
goToQuarter(f) ==
    LET new == flow[f].got
    IN /\ At(f, "goToQuarter")
       /\ quarter' = new
       /\ IF new # quarter /\ new = 0 THEN Fetch(f, round - 1, "idle")
          ELSE IF new # quarter /\ new = 1 /\ round > roundJoined
          THEN Become(f, [pc |-> "fetchProofs", arg |-> round, got |-> {},
                          then |-> "confirm"])
          ELSE End(f)
       /\ UNCHANGED <<connected, round, roundJoined>> /\ onlyMemory

(***************************************************************************)
(* fetchFills.                                                             *)
(***************************************************************************)
fetchFills(f) ==
    /\ At(f, "fetch")
    /\ \/ /\ \E given \in SUBSET Orders :
                FillsGiven(flow[f].arg, given) /\ GoWith(f, "insertFills", given)
          /\ UNCHANGED <<chainVars, serverVars, databaseVars, memoryVars>>
       \/ Refuse(f, "idle")

insertFills(f) ==
    /\ At(f, "insertFills")
    /\ known' = onReceiveFills(flow[f].got, flow[f].arg)
    /\ updateLastAuditOrFillRound("lastFillRound")
    /\ IF flow[f].then = "idle" THEN End(f) ELSE Go(f, flow[f].then)
    /\ UNCHANGED <<chainVars, serverVars, credited, booked, pending, proofs, memoryVars>>
    /\ NoFault

(***************************************************************************)
(* audit: flow[f].arg is the round.                                        *)
(***************************************************************************)
fetchProofs(f) ==
    /\ At(f, "fetchProofs")
    /\ \/ GoWith(f, "checkProofs", committedBalance(flow[f].arg)) /\ onlyFlow
       \/ Refuse(f, "openDispute")

\* Against the own ledger, then against the commit on the chain.
auditPasses(proof, r) == proof = openingBalance(r) /\ (r = 0 \/ isProofValid(r))

WrongCheckProofs(f) ==
    LET r == flow[f].arg
    IN /\ At(f, "checkProofs")
       /\ IF r = 0 \/ isProofValid(r)
          THEN /\ storeProof(r, flow[f].got)
               /\ updateLastAuditOrFillRound("lastAuditRound")
               /\ Go(f, flow[f].then)
          ELSE Go(f, "openDispute") /\ UNCHANGED <<proofs, account>>
       /\ UNCHANGED <<chainVars, serverVars, known, credited, booked, pending, memoryVars>>
       /\ NoFault

checkProofs(f) ==
    LET r == flow[f].arg
    IN /\ At(f, "checkProofs")
       /\ IF auditPasses(flow[f].got, r)
          THEN /\ storeProof(r, flow[f].got)
               /\ updateLastAuditOrFillRound("lastAuditRound")
               /\ Go(f, flow[f].then)
          ELSE Go(f, "openDispute") /\ UNCHANGED <<proofs, account>>
       /\ UNCHANGED <<chainVars, serverVars, known, credited, booked, pending, memoryVars>>
       /\ NoFault

\* openBalanceDispute collects the proofs and the fills of the round before; the
\* contract takes a dispute with these of its own round before only, and one
\* without proofs only of a client that joined then.  It ends here also when
\* the contract has halted or reverts.
Evidence(f) == [proof |-> proofs[flow[f].arg - 1], fills |-> FillsOf(known, flow[f].arg - 1)]

openBalanceDispute(f) ==
    /\ At(f, "openDispute")
    /\ GoWith(f, "dispute", Evidence(f))
    /\ onlyFlow

openDispute(f) ==
    LET now == getCurrentRound
        current == flow[f].arg = now
        evidence == flow[f].got
        accepted == /\ ~isHalted /\ now \notin disputes
                    /\ \A r \in disputes : ~CheatedIn(r)
                    /\ IF evidence.proof # Never THEN current
                       ELSE account.roundJoined = now - 1
                    /\ evidence.fills # {} => current
    IN /\ At(f, "dispute")
       /\ disputes' = IF accepted THEN disputes \cup {now} ELSE disputes
       /\ Go(f, flow[f].then)
       /\ UNCHANGED <<time, haltedAt, deposited, request, debited, recovered, serverVars,
                      databaseVars, memoryVars, faults>>

(***************************************************************************)
(* Withdrawals.                                                            *)
(***************************************************************************)
\* confirmWithdrawal, called by the user or after an audit, asks the contract for
\* a payment when its own clock says that it is due; the contract decides by its.
\* The client's reads before the transaction (L2Client.ts:751-789) are one step with it.
userConfirms == At(User, "idle") /\ connected /\ Go(User, "confirm") /\ onlyFlow

WrongConfirmable(r, q) == r - 3

confirmable(r, q) == IF q = 0 \/ isHalted THEN r - 3 ELSE r - 2

confirmWithdrawal(f) ==
    /\ At(f, "confirm")
    /\ IF /\ f = User \/ round >= 4
          /\ request # Never
          /\ confirmable(round, quarter) >= request
          /\ confirmable(getCurrentRound, getCurrentQuarter) >= request
       THEN request' = Never /\ Go(f, "confirmed")
       ELSE End(f) /\ UNCHANGED request
    /\ UNCHANGED <<time, haltedAt, deposited, debited, disputes, recovered, serverVars,
                   databaseVars, memoryVars, faults>>

\* In the ledger; it throws when no withdrawal is pending.
confirmWithdrawalAsync(f) ==
    /\ At(f, "confirmed")
    /\ pending' = FALSE
    /\ End(f)
    /\ UNCHANGED <<chainVars, serverVars, account, known, credited, booked, proofs,
                   memoryVars, faults>>

\* withdraw(): with the proof of the round before, first at the contract, and
\* then in the ledger, in the round in which the call began.
validateWithdrawal(r) == r > 0 /\ Free(credited, booked, known, r) > 0 /\ ~pending

withdraw ==
    /\ At(User, "idle") /\ connected /\ ~isHalted
    /\ Cardinality({r \in Rounds : debited[r] > 0}) < MaxWithdrawals
    /\ validateWithdrawal(round) /\ proofs[round - 1] # Never
    /\ "hasty" \in Faults \/ AllIdle
    /\ Become(User, [Idle EXCEPT !.pc = "initiate", !.arg = round])
    /\ onlyFlow

initiateWithdrawal ==
    LET now == getCurrentRound
        r == flow[User].arg
    IN /\ At(User, "initiate")
       /\ IF ~isHalted /\ r = now /\ proofs[r - 1] >= 1 /\ request = Never
          THEN Go(User, "withdraw") ELSE End(User)
       /\ IF flow'[User].pc = "withdraw" /\ Free(deposited, debited, placed, now) > 0
          THEN request' = now /\ debited' = [debited EXCEPT ![now] = @ + 1]
          ELSE UNCHANGED <<request, debited>>
       /\ UNCHANGED <<time, haltedAt, deposited, disputes, recovered, serverVars,
                      databaseVars, memoryVars, faults>>

bookWithdrawal ==
    LET r == flow[User].arg
    IN /\ At(User, "withdraw")
       /\ IF validateWithdrawal(r)
          THEN booked' = [booked EXCEPT ![r] = @ + 1] /\ pending' = TRUE
          ELSE UNCHANGED <<booked, pending>>
       /\ End(User)
       /\ UNCHANGED <<chainVars, serverVars, account, known, credited, proofs, memoryVars,
                      faults>>

\* recoverFunds, with the proof of two rounds before the halt if there is one; the halt
\* stands, so the reads of the round and of the proof are one step with the recovery.
recoverFunds(f) ==
    LET r == getCurrentRound - 2
    IN /\ At(f, "recoverFunds")
       /\ recovered' = IF recovered # "no" THEN recovered
                       ELSE IF r >= 0 /\ proofs[r] # Never THEN "all" ELSE "onChain"
       /\ End(f)
       /\ UNCHANGED <<time, haltedAt, deposited, request, debited, disputes, serverVars,
                      databaseVars, memoryVars, faults>>

(***************************************************************************)
(* deposit: on the chain, then in the ledger in the round of its block.    *)
(***************************************************************************)
hasAuthorization == roundJoined # Never /\ account # NoAccount

depositsToken ==
    LET now == getCurrentRound
    IN /\ At(User, "idle") /\ hasAuthorization /\ ~isHalted
       /\ MapThenSumSet(LAMBDA r : deposited[r], Rounds) < MaxDeposits
       /\ deposited' = [deposited EXCEPT ![now] = @ + 1]
       /\ Become(User, [Idle EXCEPT !.pc = "credit", !.arg = now])
       /\ UNCHANGED <<time, haltedAt, request, debited, disputes, recovered, serverVars,
                      databaseVars, memoryVars, faults>>

creditDeposit ==
    /\ At(User, "credit")
    /\ credited' = [credited EXCEPT ![flow[User].arg] = @ + 1]
    /\ End(User)
    /\ UNCHANGED <<chainVars, serverVars, account, known, booked, pending, proofs,
                   memoryVars, faults>>

(***************************************************************************)
(* createOrder: validated, sent to the server, then stored here.           *)
(* flow[User].got is the order.                                            *)
(***************************************************************************)
validateOrder(r) == Free(credited, booked, known, r) > 0

createOrder(o) ==
    /\ At(User, "idle") /\ connected /\ ~isHalted
    /\ placed[o].status = "none" /\ known[o].status = "none" /\ validateOrder(round)
    /\ Become(User, [Idle EXCEPT !.pc = "sendOrder", !.arg = round, !.got = {o}])
    /\ onlyFlow

WrongSendOrder ==
    /\ At(User, "sendOrder") /\ Go(User, "insertOrder")
    /\ UNCHANGED <<chainVars, serverVars, databaseVars, memoryVars, faults>>

sendOrder ==
    LET r == flow[User].arg
    IN \/ /\ At(User, "sendOrder")
          /\ IF r = serverRound /\ Free(deposited, debited, placed, r) > 0
             THEN /\ placed' = [o \in Orders |-> IF o \in flow[User].got
                                                 THEN [status |-> "open", round |-> r]
                                                 ELSE placed[o]]
                  /\ Answered("insertOrder")
             ELSE End(User) /\ UNCHANGED <<placed, faults>>
          /\ UNCHANGED <<chainVars, serverRound, admitted, databaseVars, memoryVars>>
       \/ At(User, "sendOrder") /\ Refuse(User, "idle")

insertOrder ==
    LET r == flow[User].arg
    IN /\ At(User, "insertOrder")
       /\ known' = [o \in Orders |-> IF o \in flow[User].got /\ validateOrder(r)
                                     THEN [status |-> "open", round |-> r] ELSE known[o]]
       /\ End(User)
       /\ UNCHANGED <<chainVars, serverVars, account, credited, booked, pending, proofs,
                      memoryVars, faults>>

\* cancelOrder: at the server, which takes open orders of its round only; then
\* the fills of the current round are fetched, and the order is cancelled here.
cancelOrder(o) ==
    /\ At(User, "idle") /\ connected /\ known[o].status # "none"
    /\ IF placed[o].status = "open" /\ placed[o].round = serverRound
       THEN /\ placed' = [placed EXCEPT ![o].status = "canceled"]
            /\ \/ Fetch(User, round, o) /\ NoFault
               \/ End(User) /\ Fault("unanswered")
       ELSE UNCHANGED <<placed, flow, faults>>
    /\ UNCHANGED <<chainVars, serverRound, admitted, databaseVars, memoryVars>>

cancelApproval(o) ==
    /\ At(User, o)
    /\ known' = IF known[o].status = "open" THEN [known EXCEPT ![o].status = "canceled"]
                ELSE known
    /\ End(User)
    /\ UNCHANGED <<chainVars, serverVars, account, credited, booked, pending, proofs,
                   memoryVars, faults>>

(***************************************************************************)
(* join: syncTime, the account or a new authorization, the listeners, and  *)
(* the rounds that were missed.                                            *)
(***************************************************************************)
join ==
    /\ At(User, "idle") /\ ~connected /\ ~isHalted
    /\ round' = getCurrentRound
    /\ Go(User, "syncTime")
    /\ UNCHANGED <<connected, quarter, roundJoined>> /\ onlyMemory

syncTime ==
    /\ At(User, "syncTime")
    /\ quarter' = getCurrentQuarter
    /\ IF account # NoAccount
       THEN roundJoined' = account.roundJoined /\ Go(User, "connect")
       ELSE roundJoined' = round /\ Go(User, "admit")
    /\ UNCHANGED <<connected, round>> /\ onlyMemory

\* The server registers a wallet once, in its round then, and answers with that
\* round also later.
admit ==
    \/ /\ At(User, "admit")
       /\ admitted' = IF admitted = Never THEN serverRound ELSE admitted
       /\ Answered("validateAuthorization")
       /\ UNCHANGED <<chainVars, serverRound, placed, databaseVars, memoryVars>>
    \/ At(User, "admit") /\ Refuse(User, "idle")

validateAuthorization ==
    /\ At(User, "validateAuthorization")
    /\ IF admitted = roundJoined
       THEN /\ account' = [roundJoined |-> roundJoined, lastFillRound |-> roundJoined,
                           lastAuditRound |-> roundJoined]
            /\ Go(User, "connect")
       ELSE UNCHANGED account /\ End(User)
    /\ UNCHANGED <<chainVars, serverVars, known, credited, booked, pending, proofs,
                   memoryVars, faults>>

\* The listeners are registered; what has to be caught up with is what the
\* account says now.  got is [fills, audits], the last rounds of each.
connect ==
    /\ At(User, "connect")
    /\ connected' = TRUE
    /\ Become(User, [Idle EXCEPT !.pc = "syncFills", !.arg = account.lastFillRound + 1,
                                 !.got = account])
    /\ UNCHANGED <<round, quarter, roundJoined>> /\ onlyMemory

\* The fills of every round after the last one, to the current round.
syncFills ==
    LET last == flow[User].got
        r == flow[User].arg
    IN /\ At(User, "syncFills")
       /\ IF round > last.lastFillRound /\ r <= round
          THEN Go(User, "syncFetch")
          ELSE Become(User, [flow[User] EXCEPT !.pc = "syncProofs",
                                               !.arg = last.lastAuditRound + 1])
       /\ onlyFlow

\* One round of them: fetchFills, in one step.
syncFetch ==
    LET r == flow[User].arg
    IN \/ /\ At(User, "syncFetch")
          /\ \E given \in SUBSET Orders :
                FillsGiven(r, given) /\ known' = onReceiveFills(given, r)
          /\ updateLastAuditOrFillRound("lastFillRound")
          /\ Become(User, [flow[User] EXCEPT !.pc = "syncFills", !.arg = r + 1])
          /\ UNCHANGED <<chainVars, serverVars, credited, booked, pending, proofs,
                         memoryVars>>
       \/ At(User, "syncFetch") /\ Refuse(User, "idle")

\* The proofs of the rounds between, which nobody checks; the current round is
\* audited when it is time.
syncProofs ==
    LET r == flow[User].arg
        behind == round > flow[User].got.lastAuditRound
    IN \/ /\ At(User, "syncProofs") /\ behind /\ r < round
          /\ storeProof(r, committedBalance(r))
          /\ Become(User, [flow[User] EXCEPT !.arg = r + 1])
          /\ UNCHANGED <<chainVars, serverVars, account, known, credited, booked, pending,
                         memoryVars, faults>>
       \/ /\ At(User, "syncProofs") /\ behind /\ r < round
          /\ Refuse(User, "idle")
       \/ /\ At(User, "syncProofs") /\ behind /\ r >= round
          /\ IF quarter >= 1 /\ round # roundJoined
             THEN Become(User, [pc |-> "fetchProofs", arg |-> round, got |-> {},
                                then |-> "synced"])
             ELSE Go(User, "synced")
          /\ onlyFlow
       \/ /\ At(User, "syncProofs") /\ ~behind
          /\ End(User) /\ onlyFlow

synced ==
    /\ At(User, "synced")
    /\ updateLastAuditOrFillRound("lastAuditRound")
    /\ End(User)
    /\ UNCHANGED <<chainVars, serverVars, known, credited, booked, pending, proofs,
                   memoryVars, faults>>

leave ==
    /\ At(User, "idle") /\ connected /\ Fault("leave")
    /\ connected' = FALSE
    /\ UNCHANGED <<chainVars, serverVars, databaseVars, round, quarter, roundJoined, flow>>

\* A new process begins with what the database holds.
crash ==
    /\ Fault("crash")
    /\ flow' = [f \in Flows |-> Idle]
    /\ connected' = FALSE /\ round' = 0 /\ quarter' = 0 /\ roundJoined' = Never
    /\ UNCHANGED <<chainVars, serverVars, databaseVars>>

Environment ==
    \/ \E h \in Handlers : Halt(h) \/ \E quarters \in {0, 1} : NewBlock(h, quarters)
    \/ enterRound \/ \E o \in Orders : fill(o)

FlowStep(f) ==
    \/ askRound(f) \/ setRound(f) \/ askQuarter(f) \/ goToQuarter(f)
    \/ fetchFills(f) \/ insertFills(f)
    \/ fetchProofs(f) \/ checkProofs(f) \/ openBalanceDispute(f) \/ openDispute(f)
    \/ confirmWithdrawal(f) \/ confirmWithdrawalAsync(f) \/ recoverFunds(f)

UserStep ==
    \/ join \/ syncTime \/ admit \/ validateAuthorization \/ connect
    \/ syncFills \/ syncFetch \/ syncProofs \/ synced
    \/ depositsToken \/ creditDeposit
    \/ userConfirms \/ withdraw \/ initiateWithdrawal \/ bookWithdrawal
    \/ \E o \in Orders : createOrder(o) \/ cancelOrder(o) \/ cancelApproval(o)
    \/ sendOrder \/ insertOrder

ClientNext ==
    \/ Environment \/ UserStep \/ \E f \in Flows : FlowStep(f)
    \/ leave \/ crash

ClientSpec == ClientInit /\ [][ClientNext]_clientVars
=============================================================================
