---------------------------- MODULE TxSubmission ----------------------------
(***************************************************************************)
(* How the operator gets its commits mined: commit of Operator.ts, the     *)
(* submission and repetition of transactions in Contracts.ts, and the node *)
(* with its pool of transactions.                                          *)
(*                                                                         *)
(* All commits of a round are called at once, and each call runs from one  *)
(* await to the next, taking the lock of Mutex around the request for a    *)
(* nonce and its use.  When one of them is rejected the whole commit is,   *)
(* the others go on, and the contract is asked to update its state.  The   *)
(* code does not commit the round again: onNewQuarter has set _round and   *)
(* _quarter before.  Here the operator may have further runs, for what is  *)
(* not on the chain: later calls that compete with those still under way,  *)
(* as the commits of the next round do.  That is more than the code does,  *)
(* so what holds of every run holds of its only one.                       *)
(*                                                                         *)
(* A definition named Wrong... is the one after it with a mistake in it:   *)
(* TLC must find what the mistake breaks.                                  *)
(***************************************************************************)
EXTENDS Mutex, FiniteSets

CONSTANTS
    Tokens,         \* the assets of the exchange
    BasePrice,      \* the gas price of a first transaction
    Floors,         \* the lowest price for which transactions are mined: one of these
    retryLimit,
    MaxRuns,        \* bound: how often the operator commits
    Faults,         \* what may go wrong, of AllFaults
    MaxFaults       \* bound: how often something does

Halting == "updateHaltedState"

\* The node cannot be reached; the answer of the node is lost; the operator has
\* polled for a transaction long enough before the node answers the other calls.
AllFaults == {"refuse", "lost", "slow"}

\* A transaction has a destination and the run in which it is first sent.
Runs == 1 .. MaxRuns
Calls == [token : Tokens, run : Runs]
HaltCalls == [token : {Halting}, run : Runs]
AllCalls == Calls \cup HaltCalls

ASSUME SubmissionAssumption ==
    /\ Halting \notin Tokens /\ BasePrice \in Nat \ {0} /\ Floors \subseteq Nat
    /\ retryLimit \in Nat \ {0} /\ MaxRuns \in Nat \ {0}
    /\ Faults \subseteq AllFaults /\ MaxFaults \in Nat
    /\ Callers = Calls /\ retryLimit <= MaxCalls

VARIABLES
    (* the node *)
    floor,      \* the lowest price that is mined
    pool,       \* pending transactions [call, nonce, price], one of a nonce
    mined,      \* the transactions of the operator, by nonce, with their status
    (* the operator *)
    run,        \* how often it has committed
    runState,   \* "looping", "halting", "resolved" or "ended"
    visited,    \* the tokens the loop of this run has dealt with
    calls,      \* call -> [pc, nonce, price, attempt, sub]
    faults      \* kind -> how often it has happened

nodeVars == <<floor, pool, mined>>
runVars == <<run, runState, visited>>
submissionVars == <<nodeVars, runVars, mutexVars, calls, faults>>

SubmissionInit ==
    /\ floor \in Floors /\ pool = {} /\ mined = <<>>
    /\ run = 1 /\ runState = "looping" /\ visited = {} /\ MutexInit
    /\ calls = [c \in AllCalls |->
                    [pc |-> "idle", nonce |-> 0, price |-> BasePrice, attempt |-> 0, sub |-> 0]]
    /\ faults = [kind \in AllFaults |-> 0]

Fault(kind) ==
    /\ kind \in Faults /\ faults.refuse + faults.lost + faults.slow < MaxFaults
    /\ faults' = [faults EXCEPT ![kind] = @ + 1]

Goto(c, place) == calls' = [calls EXCEPT ![c].pc = place]

(***************************************************************************)
(* The node.                                                               *)
(***************************************************************************)
Tx(c, nonce, price) == [call |-> c, nonce |-> nonce, price |-> price]

OnChain == {mined[i].call.token : i \in {j \in DOMAIN mined : mined[j].status}}

\* A nonce is used once; a transaction of a pending nonce has to offer a tenth more.
Accepts(nonce, price) ==
    /\ nonce >= Len(mined)
    /\ \A tx \in pool : tx.nonce = nonce => 10 * price >= 11 * tx.price

Receive(tx) == pool' = {other \in pool : other.nonce # tx.nonce} \cup {tx}

\* Of getTransactionCount with 'pending'.
PendingCount == Len(mined) + Cardinality(pool)

\* Transactions are mined in the order of their nonces.  The contract takes one
\* commit of a token for a round.
Mine ==
    \E tx \in pool :
        /\ tx.nonce = Len(mined) /\ tx.price >= floor
        /\ pool' = pool \ {tx}
        /\ mined' = Append(mined, [call |-> tx.call, price |-> tx.price,
                                   status |-> tx.call.token \notin OnChain \ {Halting}])
        /\ UNCHANGED <<floor, runVars, mutexVars, calls, faults>>

(***************************************************************************)
(* submitAndWaitForTx.  attempt counts the transactions polled for, sub    *)
(* the refusals since the last one that was accepted.                      *)
(***************************************************************************)
\* The catch of submitTxWithRetry: submit once more, or throw.
Refused(c, again) ==
    calls' = [calls EXCEPT ![c].sub = @ + 1,
                           ![c].pc = IF calls[c].sub + 1 < retryLimit THEN again ELSE "failed"]

Sent(c, nonce, price) ==
    calls' = [calls EXCEPT ![c] = [@ EXCEPT !.pc = "polling", !.nonce = nonce,
                                            !.price = price, !.sub = 0]]

\* What comes of a submission: the node takes it or not, or something fails.
Submit(c, nonce, price, again) ==
    \/ /\ Accepts(nonce, price)
       /\ Receive(Tx(c, nonce, price)) /\ Sent(c, nonce, price)
       /\ UNCHANGED faults
    \/ /\ ~Accepts(nonce, price)
       /\ Refused(c, again) /\ UNCHANGED <<pool, faults>>
    \/ /\ Fault("refuse")
       /\ Refused(c, again) /\ UNCHANGED pool
    \/ /\ Fault("lost") /\ Accepts(nonce, price)
       /\ Receive(Tx(c, nonce, price)) /\ Refused(c, again)

\* newTx, up to the await of the lock.
lockNonce(c) ==
    /\ calls[c].pc = "new"
    /\ lockAsync(c)
    /\ Goto(c, IF state'[c] = "in" THEN "asking" ELSE "locking")
    /\ UNCHANGED <<nodeVars, runVars, faults>>

\* A call that waits for the lock goes on, and may have to wait again.
resumeNonce ==
    /\ resume
    /\ calls' = [c \in AllCalls |-> IF c = Head(woken) /\ state'[c] = "in"
                                   THEN [calls[c] EXCEPT !.pc = "asking"] ELSE calls[c]]
    /\ UNCHANGED <<nodeVars, runVars, faults>>

\* "Need to await to not unlock too early": of the two moments it is the second.
UnlockNonce(c, moment) == IF moment = "answered" THEN unlock(c) ELSE UNCHANGED mutexVars

getTransactionCount(c) ==
    /\ calls[c].pc = "asking"
    /\ calls' = [calls EXCEPT ![c].nonce = PendingCount, ![c].pc = "sending"]
    /\ UnlockNonce(c, "sent")
    /\ UNCHANGED <<nodeVars, runVars, faults>>

newTx(c) ==
    /\ calls[c].pc = "sending"
    /\ Submit(c, calls[c].nonce, BasePrice, "new")
    /\ UnlockNonce(c, "answered")
    /\ UNCHANGED <<floor, mined, runVars>>

WrongRetryPrice(price) == price

\* Math.ceil(1.1 * price)
RetryPrice(price) == (11 * price + 9) \div 10

WrongRetryTx(c) ==
    /\ calls[c].pc = "retrying"
    /\ Submit(c, PendingCount, RetryPrice(calls[c].price), "retrying")
    /\ UNCHANGED <<floor, mined, runVars, mutexVars>>

\* The same nonce at a higher price, without the lock.
retryTx(c) ==
    /\ calls[c].pc = "retrying"
    /\ Submit(c, calls[c].nonce, RetryPrice(calls[c].price), "retrying")
    /\ UNCHANGED <<floor, mined, runVars, mutexVars>>

\* getTransactionReceipt of the last transaction of the call, by its hash.
HasReceipt(c) ==
    /\ calls[c].nonce < Len(mined)
    /\ mined[calls[c].nonce + 1].call = c
    /\ mined[calls[c].nonce + 1].price = calls[c].price

Succeeded(c) == mined[calls[c].nonce + 1].status

\* The catch of submitAndWaitForTx, which the last attempt is outside of.
MiningFails(c) ==
    calls' = [calls EXCEPT ![c].attempt = @ + 1,
                           ![c].pc = IF calls[c].attempt + 1 < retryLimit THEN "retrying"
                                                                          ELSE "failed"]

\* It polls twenty times as long as it sleeps between two submissions, which is
\* longer than the node takes to answer the calls before, unless the node is slow.
OthersAnswered ==
    /\ visited = Tokens
    /\ \A c \in Calls : calls[c].pc \notin {"new", "locking", "asking", "sending"}

TimePasses == IF OthersAnswered THEN UNCHANGED faults ELSE Fault("slow")

WrongPollForMining(c) ==
    /\ calls[c].pc = "polling"
    /\ IF HasReceipt(c) THEN Goto(c, "returned") /\ UNCHANGED faults
                        ELSE MiningFails(c) /\ TimePasses
    /\ UNCHANGED <<nodeVars, runVars, mutexVars>>

\* Polls until there is a receipt or too much time has passed.
pollForMining(c) ==
    /\ calls[c].pc = "polling"
    /\ IF HasReceipt(c)
       THEN (IF Succeeded(c) THEN Goto(c, "returned") ELSE MiningFails(c)) /\ UNCHANGED faults
       ELSE MiningFails(c) /\ TimePasses
    /\ UNCHANGED <<nodeVars, runVars, mutexVars>>

(***************************************************************************)
(* waitForMiningAndLog: every other transaction is sent once, with the     *)
(* nonce that the wallet asks for, and waited for.  updateHaltedState of   *)
(* the catch of processBlocksUpTo stands for them; the lock on the blocks  *)
(* is held while it waits.                                                 *)
(***************************************************************************)
askNonce(c) ==
    /\ calls[c].pc = "direct"
    /\ calls' = [calls EXCEPT ![c].nonce = PendingCount, ![c].pc = "directSending"]
    /\ UNCHANGED <<nodeVars, runVars, mutexVars, faults>>

sendDirectly(c) ==
    /\ calls[c].pc = "directSending"
    /\ IF Accepts(calls[c].nonce, BasePrice)
       THEN Receive(Tx(c, calls[c].nonce, BasePrice)) /\ Goto(c, "waiting")
       ELSE Goto(c, "failed") /\ UNCHANGED pool
    /\ UNCHANGED <<floor, mined, runVars, mutexVars, faults>>

waitForMining(c) ==
    /\ calls[c].pc = "waiting" /\ HasReceipt(c)
    /\ Goto(c, "returned")
    /\ UNCHANGED <<nodeVars, runVars, mutexVars, faults>>

(***************************************************************************)
(* Operator.commit, and a further run of it.                               *)
(***************************************************************************)
CallOf(t) == [token |-> t, run |-> run]

CommitStarted(t) == CallOf(t) \in AllCalls /\ calls[CallOf(t)].pc # "idle"

\* One turn of the loop: a root that is on the chain is left alone, for another
\* one a call is started and not waited for.
commit(t) ==
    /\ runState = "looping" /\ t \notin visited
    /\ visited' = visited \cup {t}
    /\ IF t \in OnChain THEN UNCHANGED calls ELSE Goto(CallOf(t), "new")
    /\ UNCHANGED <<nodeVars, run, runState, mutexVars, faults>>

\* Promise.all of the calls of this run.
resolves ==
    /\ runState = "looping" /\ visited = Tokens
    /\ \A t \in Tokens : CommitStarted(t) => calls[CallOf(t)].pc = "returned"
    /\ runState' = "resolved"
    /\ UNCHANGED <<nodeVars, run, visited, mutexVars, calls, faults>>

rejects ==
    /\ runState = "looping" /\ visited = Tokens
    /\ \E t \in Tokens : CommitStarted(t) /\ calls[CallOf(t)].pc = "failed"
    /\ runState' = "halting" /\ Goto(CallOf(Halting), "direct")
    /\ UNCHANGED <<nodeVars, run, visited, mutexVars, faults>>

\* A further run, when the lock on the blocks is given back.  Not of this round in the
\* code: until the next one the blocks find _round and _quarter set (Operator.ts:356,
\* 719).
nextRun ==
    /\ runState = "halting" /\ calls[CallOf(Halting)].pc \in {"returned", "failed"}
    /\ IF run < MaxRuns THEN run' = run + 1 /\ runState' = "looping" /\ visited' = {}
                        ELSE runState' = "ended" /\ UNCHANGED <<run, visited>>
    /\ UNCHANGED <<nodeVars, mutexVars, calls, faults>>

CommitStep(c) ==
    \/ lockNonce(c) \/ getTransactionCount(c) \/ newTx(c) \/ retryTx(c) \/ pollForMining(c)

DirectStep(c) == askNonce(c) \/ sendDirectly(c) \/ waitForMining(c)

OperatorStep == (\E t \in Tokens : commit(t)) \/ resolves \/ rejects \/ nextRun

SubmissionNext ==
    \/ Mine \/ resumeNonce
    \/ OperatorStep
    \/ \E c \in Calls : CommitStep(c)
    \/ \E c \in HaltCalls : DirectStep(c)

\* Every call goes on when it can, and what is paid for is mined.
SubmissionFairness ==
    /\ WF_submissionVars(Mine) /\ WF_submissionVars(OperatorStep)
    /\ WF_submissionVars(resumeNonce)
    /\ \A c \in Calls : WF_submissionVars(CommitStep(c))
    /\ \A c \in HaltCalls : WF_submissionVars(DirectStep(c))

SubmissionSpec == SubmissionInit /\ [][SubmissionNext]_submissionVars
FairSubmissionSpec == SubmissionSpec /\ SubmissionFairness
=============================================================================
