------------------------------ MODULE Deposits ------------------------------
(***************************************************************************)
(* deposit of L2Client.ts: the allowance is asked for and raised, the      *)
(* contract takes the tokens, and the own ledger is credited; four awaits, *)
(* between which other deposits, the clock and the halt come.              *)
(*                                                                         *)
(* A definition named Wrong... is the one after it with a mistake in it:   *)
(* TLC must find what the mistake breaks.                                  *)
(***************************************************************************)
EXTENDS Token

CONSTANTS
    Mediator,       \* its address
    Calls,          \* calls of deposit that may go on at once
    MaxRound        \* bound

ASSUME DepositsAssumption ==
    Mediator \in Accounts \ Approvers /\ IsFiniteSet(Calls) /\ MaxRound \in Nat

Rounds == 0 .. MaxRound

VARIABLES
    round, halted,  \* the clock and the state of the contract
    deposited,      \* clientDeposits of the contract: round -> client -> amount
    credited,       \* the ledgers of the clients: round -> client -> amount
    calls,          \* call -> [pc, client, amount, approve, round]
    disturbed       \* history: the calls whose allowance others have changed meanwhile

depositVars == <<tokenVars, round, halted, deposited, credited, calls, disturbed>>
contractVars == <<round, halted, deposited>>

NoCall == [pc |-> "idle", client |-> Creator, amount |-> 0, approve |-> FALSE, round |-> 0]

DepositsInit ==
    /\ TokenInit
    /\ round = 0 /\ halted = FALSE
    /\ deposited = [r \in Rounds |-> [c \in Approvers |-> 0]] /\ credited = deposited
    /\ calls = [k \in Calls |-> NoCall] /\ disturbed = {}

At(k, pc) == calls[k].pc = pc
Ended(k) == calls[k].pc \in {"idle", "done", "failed", "unapproved"}
Goto(k, pc) == calls' = [calls EXCEPT ![k].pc = pc]
Allowance(k) == allowances[calls[k].client][Mediator]

\* By a client that has joined.  A call that has ended may be made again.
deposit(k) ==
    /\ Ended(k) /\ ~halted
    /\ \E client \in Approvers, amount \in Values \ {0}, approve_ \in BOOLEAN :
          calls' = [calls EXCEPT ![k] = [pc |-> IF approve_ THEN "asking" ELSE "depositing",
                                         client |-> client, amount |-> amount,
                                         approve |-> approve_, round |-> 0]]
    /\ UNCHANGED <<tokenVars, contractVars, credited>>

WrongAllowance(k) ==
    /\ At(k, "asking")
    /\ Goto(k, IF Allowance(k) = 0 THEN "approving" ELSE "depositing")
    /\ UNCHANGED <<tokenVars, contractVars, credited>>

allowance(k) ==
    /\ At(k, "asking")
    /\ Goto(k, IF Allowance(k) < calls[k].amount THEN "approving" ELSE "depositing")
    /\ UNCHANGED <<tokenVars, contractVars, credited>>

\* approve has been mined.
raise(k) ==
    /\ At(k, "approving")
    /\ approve(calls[k].client, Mediator, calls[k].amount)
    /\ Goto(k, "depositing")
    /\ UNCHANGED <<contractVars, credited>>

WrongDepositsToken(k) ==
    LET call == calls[k]
    IN /\ At(k, "depositing")
       /\ ~halted
       /\ transferFrom(Mediator, call.client, Mediator, call.amount)
       /\ deposited' = [deposited EXCEPT ![round][call.client] = @ + call.amount]
       /\ calls' = [calls EXCEPT ![k].pc = "crediting", ![k].round = 0]
       /\ UNCHANGED <<round, halted, credited>>

\* depositTokens is mined, in a round of its own.
depositsToken(k) ==
    LET call == calls[k]
    IN /\ At(k, "depositing")
       /\ ~halted
       /\ transferFrom(Mediator, call.client, Mediator, call.amount)
       /\ deposited' = [deposited EXCEPT ![round][call.client] = @ + call.amount]
       /\ calls' = [calls EXCEPT ![k].pc = "crediting", ![k].round = round]
       /\ UNCHANGED <<round, halted, credited>>

\* It reverts: the contract has halted, the client has not so much, or the
\* contract may not take it.
depositReverts(k) ==
    /\ At(k, "depositing")
    /\ halted \/ balances[calls[k].client] < calls[k].amount \/ Allowance(k) < calls[k].amount
    /\ Goto(k, IF ~halted /\ balances[calls[k].client] >= calls[k].amount
               THEN "unapproved" ELSE "failed")
    /\ UNCHANGED <<tokenVars, contractVars, credited>>

creditDeposit(k) ==
    /\ At(k, "crediting")
    /\ credited' = [credited EXCEPT ![calls[k].round][calls[k].client] = @ + calls[k].amount]
    /\ Goto(k, "done")
    /\ UNCHANGED <<tokenVars, contractVars>>

\* The contract goes on, or halts; or a token is used elsewhere, which the contract
\* itself does only in depositTokens and to pay out withdrawals.
Others ==
    /\ \/ /\ ~halted /\ round < MaxRound /\ round' = round + 1
          /\ UNCHANGED <<halted, tokenVars>>
       \/ /\ ~halted /\ halted' = TRUE
          /\ UNCHANGED <<round, tokenVars>>
       \/ /\ \E caller \in Accounts \ {Mediator} : TokenStep(caller)
          /\ UNCHANGED <<round, halted>>
    /\ UNCHANGED <<deposited, credited, calls>>

DepositStep(k) ==
    \/ deposit(k) \/ allowance(k) \/ raise(k) \/ depositsToken(k) \/ depositReverts(k)
    \/ creditDeposit(k)

\* Every step but the own ones of a call may change what the call has read.
ChangedFor(S) == {k \in S : ~Ended(k) /\ allowances'[calls[k].client][Mediator] # Allowance(k)}

DepositsNext ==
    \/ Others /\ disturbed' = disturbed \cup ChangedFor(Calls)
    \/ \E k \in Calls :
          /\ DepositStep(k)
          /\ disturbed' = (IF Ended(k) THEN disturbed \ {k} ELSE disturbed)
                            \cup ChangedFor(Calls \ {k})

DepositsSpec == DepositsInit /\ [][DepositsNext]_depositVars

(***************************************************************************)
(* Properties.                                                             *)
(***************************************************************************)
\* L2Client.ts:305-326: whatever overlaps, what the contract has and the ledger has
\* not is what is being credited, in the round in which the contract booked it.
Flying(r, c) ==
    [k \in Calls |-> IF At(k, "crediting") /\ calls[k].round = r /\ calls[k].client = c
                     THEN calls[k].amount ELSE 0]

DepositsInFlight ==
    \A r \in Rounds, c \in Approvers :
        deposited[r][c] = credited[r][c] + SumFunction(Flying(r, c))

\* Between the accounts of the token, the contract and the ledgers nothing is made or
\* lost.
NothingMadeOrLost == SupplyIsOwned /\ DepositsInFlight

\* "Whether to call ERC20.approve before doing the token transfer" (L2Client.ts:275):
\* a deposit that asks for it and has the tokens is not refused for the allowance,
\* whatever was allowed before, unless somebody else changes the allowance between
\* its awaits.
ApprovedIsDeposited ==
    \A k \in Calls : At(k, "unapproved") => ~calls[k].approve \/ k \in disturbed
=============================================================================
