--------------------------- MODULE MediatorProofs ---------------------------
(***************************************************************************)
(* What TLAPS proves of the Mediator, for every set of clients and tokens, *)
(* every set of approvals and fills and every bound: first what its state  *)
(* is and what a step may do, then its money, that is, its books add up,   *)
(* what it holds is what it owes, and it implements the Vault.             *)
(***************************************************************************)
EXTENDS MediatorProperties, Sums, FiniteSetTheorems, TLAPS

-----------------------------------------------------------------------------
(* Types. *)

\* The tokens the contract pays or takes are natural numbers and so is what is left.
LEMMA TransferType ==
    ASSUME TypeOK, NEW t \in Tokens, NEW c \in Clients, NEW amount \in Nat,
           transferTokenFromClient(t, c, amount) \/ transferTokenToClient(t, c, amount)
    PROVE  held' \in [Tokens -> Nat] /\ wallet' \in [Tokens -> [Clients -> Nat]]
<1>1. held \in [Tokens -> Nat] /\ wallet \in [Tokens -> [Clients -> Nat]]
  BY DEF TypeOK
<1>2. CASE transferTokenFromClient(t, c, amount)
  BY <1>1, <1>2 DEF transferTokenFromClient
<1>3. CASE transferTokenToClient(t, c, amount)
  BY <1>1, <1>3 DEF transferTokenToClient
<1> QED
  BY <1>2, <1>3

\* A halt is recorded with the round and quarter of the clock.
LEMMA RecordHaltType ==
    ASSUME TypeOK, RecordHalt
    PROVE  halted' \in BOOLEAN /\ haltedRound' \in Rounds /\ haltedQuarter' \in Quarters
BY DEF TypeOK, RecordHalt, HaltDue

\* Deposits of the last rounds add up to a natural number.
LEMMA RecentDepositsType ==
    ASSUME TypeOK, NEW c \in Clients, NEW t \in Tokens
    PROVE  RecentDeposits(c, t) \in Nat
<1>1. ASSUME NEW r PROVE DepositedIn(c, t, r) \in Nat
  BY DEF TypeOK, DepositedIn
<1> QED
  BY <1>1 DEF RecentDeposits

\* What a cancellation does to the requests keeps their types.
LEMMA ClearRequestType ==
    ASSUME TypeOK, NEW c \in Clients, NEW t \in Tokens, NEW w \in Rounds,
           0 \in Rounds, ClearRequest(c, t, w)
    PROVE  /\ clientRequestedWithdrawals' \in
                [Rounds -> [Tokens -> [Clients -> [amount : Nat, openingBalance : Nat]]]]
           /\ totalRequestedWithdrawals' \in [Rounds -> [Tokens -> Nat]]
           /\ activeWithdrawalRounds' \in [Tokens -> [Clients -> Rounds]]
<1> DEFINE request == clientRequestedWithdrawals[w][t][c]
           cleared == [request EXCEPT !.amount = 0]
<1>1. /\ clientRequestedWithdrawals \in
            [Rounds -> [Tokens -> [Clients -> [amount : Nat, openingBalance : Nat]]]]
      /\ totalRequestedWithdrawals \in [Rounds -> [Tokens -> Nat]]
      /\ activeWithdrawalRounds \in [Tokens -> [Clients -> Rounds]]
  BY DEF TypeOK
<1>2. request \in [amount : Nat, openingBalance : Nat]
  BY <1>1
<1>3. cleared \in [amount : Nat, openingBalance : Nat]
  BY <1>2
<1>4. clientRequestedWithdrawals' = [clientRequestedWithdrawals EXCEPT ![w][t][c] = cleared]
  BY DEF ClearRequest, EndRequest
<1>5. totalRequestedWithdrawals'
        = [totalRequestedWithdrawals EXCEPT ![w][t] = @ - request.amount]
      /\ request.amount <= totalRequestedWithdrawals[w][t]
  BY DEF ClearRequest, EndRequest
<1>6. activeWithdrawalRounds' = [activeWithdrawalRounds EXCEPT ![t][c] = 0]
  BY DEF ClearRequest, EndRequest
<1> HIDE DEF request, cleared
<1>7. request.amount \in Nat
  BY <1>2
<1>8. clientRequestedWithdrawals' \in
        [Rounds -> [Tokens -> [Clients -> [amount : Nat, openingBalance : Nat]]]]
  BY <1>1, <1>3, <1>4
<1>9. totalRequestedWithdrawals' \in [Rounds -> [Tokens -> Nat]]
  BY <1>1, <1>5, <1>7
<1> QED
  BY <1>1, <1>6, <1>8, <1>9

(* The steps that the lemmas are about.  TLC takes the roots that are committed from a
   small set; the lemmas hold of the contract whatever root is committed, that of the
   operator, which computes it from its own books, included. *)

AnyNext == Next \/ \E t \in Tokens : \E root \in Roots : commit(t, root)

LEMMA SmallRoots == [Clients -> LeafSets] \subseteq Roots
BY ConstantsAssumption DEF Roots

LEMMA ProvableType ==
    ASSUME TypeOK, NEW c \in Clients, NEW t \in Tokens, NEW r
    PROVE  Provable(c, t, r) \subseteq Nat
BY DEF Provable, TypeOK, Roots

LEMMA ShownType ==
    ASSUME TypeOK, NEW c \in Clients, NEW r
    PROVE  /\ BalancesShown(c, r) \subseteq [Tokens -> Nat]
           /\ \A shown \in BalancesShown(c, r), t \in registeredTokens :
                 shown[t] \in Provable(c, t, r)
<1>1. registeredTokens \subseteq Tokens
  BY DEF TypeOK
<1>2. {0} \cup UNION {Provable(c, t, r) : t \in registeredTokens} \subseteq Nat
  BY <1>1, ProvableType
<1> QED
  BY <1>2 DEF BalancesShown, isProofArrayValid, isProofValid

LEMMA NextIsAnyNext == [Next]_vars => [AnyNext]_vars
BY DEF AnyNext

\* A step is one transaction, a tick of the clock or none of them.
LEMMA Steps ==
    ASSUME [AnyNext]_vars
    PROVE  \/ Tick
           \/ updateHaltedState
           \/ \E t \in Tokens : registerToken(t)
           \/ \E t \in Tokens : \E root \in Roots : commit(t, root)
           \/ \E c \in Clients, t \in Tokens, approvals \in SUBSET Approvals :
                 cancelWithdrawal(c, t, approvals)
           \/ \E c \in Clients, fills \in SUBSET Fills :
                 \E approvalOf \in ApprovalsFor(fills) : closeDispute(c, fills, approvalOf)
           \/ \E c \in Clients, t \in Tokens : \E amount \in Amounts(t) :
                 depositTokens(c, t, amount)
           \/ \E c \in Clients, t \in Tokens : \E amount \in Amounts(t) :
                 initiateWithdrawal(c, t, amount)
           \/ \E c \in Clients, t \in Tokens : confirmWithdrawal(c, t)
           \/ \E c \in Clients, t \in Tokens : recoverAllFunds(c, t)
           \/ \E c \in Clients, t \in Tokens : recoverOnChainFundsOnly(c, t)
           \/ \E c \in Clients, fills \in SUBSET Fills, byProof \in BOOLEAN :
                 openDispute(c, fills, byProof)
           \/ UNCHANGED vars
<1>1. Next \/ UNCHANGED vars \/ \E t \in Tokens : \E root \in Roots : commit(t, root)
  BY DEF AnyNext
<1>2. CASE OperatorStep
  BY <1>2, SmallRoots DEF OperatorStep
<1>3. ASSUME NEW c \in Clients, ClientStep(c)
      PROVE  \/ \E t \in Tokens : \E amount \in Amounts(t) : depositTokens(c, t, amount)
             \/ \E t \in Tokens : \E amount \in Amounts(t) : initiateWithdrawal(c, t, amount)
             \/ \E t \in Tokens : confirmWithdrawal(c, t)
             \/ \E t \in Tokens : recoverAllFunds(c, t)
             \/ \E t \in Tokens : recoverOnChainFundsOnly(c, t)
             \/ \E fills \in SUBSET Fills, byProof \in BOOLEAN :
                   openDispute(c, fills, byProof)
  BY <1>3 DEF ClientStep
<1> QED
  BY <1>1, <1>2, <1>3 DEF Next

\* Every variable has its type after every step.
LEMMA TypeStep == TypeOK /\ [AnyNext]_vars => TypeOK'
<1> SUFFICES ASSUME TypeOK, [AnyNext]_vars PROVE TypeOK'
  OBVIOUS
<1> USE ConstantsAssumption
<1>1. CASE Tick
  <2>1. round' \in Rounds /\ quarter' \in Quarters
    <3>1. round \in Rounds /\ quarter \in Quarters /\ MaxRound \in Nat
      BY DEF TypeOK
    <3> QED
      BY <1>1, <3>1 DEF Tick, Rounds, Quarters
  <2>2. UNCHANGED <<haltVars, tokenVars, depositVars, withdrawalVars, commitVars,
                    disputeVars, recovered, erc20Vars>>
    BY <1>1 DEF Tick
  <2> QED
    BY <2>1, <2>2 DEF TypeOK, haltVars, tokenVars, depositVars, withdrawalVars, commitVars,
       disputeVars, erc20Vars
<1>2. CASE updateHaltedState
  BY <1>2, RecordHaltType DEF updateHaltedState, TypeOK, clockVars, tokenVars, depositVars,
     withdrawalVars, commitVars, disputeVars, erc20Vars
<1>3. ASSUME NEW t \in Tokens, registerToken(t) PROVE TypeOK'
  <2>1. registeredTokensIndex' \in [Assets -> Nat]
    BY <1>3 DEF registerToken, TypeOK
  <2> QED
  BY <1>3, <2>1 DEF registerToken, notHalted, TypeOK, clockVars, haltVars, depositVars,
     withdrawalVars, commitVars, disputeVars, erc20Vars
<1>4. ASSUME NEW t \in Tokens, NEW root \in Roots, commit(t, root)
      PROVE  TypeOK'
  <2>2. previousClosingBalance(t) \in Nat
    <3>1. round - 1 \in Rounds /\ previousClosingBalance(t) >= 0
      BY <1>4 DEF commit, closingIsCovered, TypeOK, Rounds
    <3>2. /\ openingBalances[round - 1][t] \in Nat
          /\ totalDeposits[round - 1][t] \in Nat
          /\ totalRequestedWithdrawals[round - 1][t] \in Nat
      BY <3>1 DEF TypeOK
    <3> QED
      BY <3>1, <3>2 DEF previousClosingBalance
  <2>4. commits' \in [Rounds -> [Tokens -> Roots \cup {NoRoot}]]
    BY <1>4 DEF commit, TypeOK
  <2>5. openingBalances' \in [Rounds -> [Tokens -> Nat]]
    BY <1>4, <2>2 DEF commit, TypeOK
  <2>6. commitCounters' \in [Rounds -> Nat] /\ committedRounds' \in Nat
    BY <1>4 DEF commit, TypeOK
  <2> QED
    BY <1>4, <2>4, <2>5, <2>6 DEF commit, notHalted, TypeOK, clockVars, haltVars, tokenVars,
       depositVars, withdrawalVars, disputeVars, erc20Vars
<1>5. ASSUME NEW c \in Clients, NEW t \in Tokens, NEW approvals \in SUBSET Approvals,
             cancelWithdrawal(c, t, approvals)
      PROVE  TypeOK'
  <2> DEFINE w == activeWithdrawalRounds[t][c]
  <2>1. w \in Rounds /\ 0 \in Rounds
    BY DEF TypeOK, Rounds
  <2>2. ClearRequest(c, t, w)
    BY <1>5 DEF cancelWithdrawal
  <2> HIDE DEF w
  <2> QED
    BY <1>5, <2>1, <2>2, ClearRequestType DEF cancelWithdrawal, notHalted, TypeOK, clockVars,
       haltVars, tokenVars, depositVars, commitVars, disputeVars, erc20Vars
<1>6. ASSUME NEW c \in Clients, NEW fills \in SUBSET Fills,
             NEW approvalOf \in ApprovalsFor(fills), closeDispute(c, fills, approvalOf)
      PROVE  TypeOK'
  <2> DEFINE d == disputes[c]
             closed == [d EXCEPT !.open = FALSE]
  <2>1. disputes \in [Clients -> Dispute] /\ openDisputeCounters \in [Rounds -> Nat]
    BY DEF TypeOK
  <2>2. d \in Dispute
    BY <2>1
  <2>3. closed \in Dispute /\ d.round \in Rounds
    BY <2>2 DEF Dispute
  <2>4. disputes' = [disputes EXCEPT ![c] = closed]
    BY <1>6 DEF closeDispute
  <2>5. /\ openDisputeCounters[d.round] > 0
        /\ openDisputeCounters' = [openDisputeCounters EXCEPT ![d.round] = @ - 1]
    BY <1>6 DEF closeDispute
  <2> HIDE DEF d, closed
  <2>6. disputes' \in [Clients -> Dispute]
    BY <2>1, <2>3, <2>4
  <2>7. openDisputeCounters' \in [Rounds -> Nat]
    BY <2>1, <2>3, <2>5
  <2> QED
    BY <1>6, <2>6, <2>7 DEF closeDispute, notHalted, TypeOK, clockVars, haltVars, tokenVars,
       depositVars, withdrawalVars, commitVars, erc20Vars
<1>7. ASSUME NEW c \in Clients, NEW t \in Tokens, NEW amount \in Amounts(t),
             depositTokens(c, t, amount)
      PROVE  TypeOK'
  <2>1. amount \in Nat
    BY DEF Amounts
  <2>2. held' \in [Tokens -> Nat] /\ wallet' \in [Tokens -> [Clients -> Nat]]
    BY <1>7, <2>1, TransferType DEF depositTokens
  <2>3. clientDeposits' \in [Rounds -> [Tokens -> [Clients -> Nat]]]
    BY <1>7, <2>1 DEF depositTokens, TypeOK
  <2>4. totalDeposits' \in [Rounds -> [Tokens -> Nat]]
    BY <1>7, <2>1 DEF depositTokens, TypeOK
  <2>5. UNCHANGED <<clockVars, haltVars, tokenVars, withdrawalVars, commitVars, disputeVars,
                    recovered>>
    BY <1>7 DEF depositTokens, notHalted
  <2> QED
    BY <2>2, <2>3, <2>4, <2>5 DEF TypeOK, clockVars, haltVars, tokenVars, withdrawalVars,
       commitVars, disputeVars
<1>8. ASSUME NEW c \in Clients, NEW t \in Tokens, NEW amount \in Amounts(t),
             initiateWithdrawal(c, t, amount)
      PROVE  TypeOK'
  <2>1. amount \in Nat
    BY DEF Amounts
  <2>2. clientRequestedWithdrawals' \in
            [Rounds -> [Tokens -> [Clients -> [amount : Nat, openingBalance : Nat]]]]
    <3>1. PICK balance \in Provable(c, t, round - 1) :
             clientRequestedWithdrawals' =
                [clientRequestedWithdrawals EXCEPT ![round][t][c] =
                    [amount |-> amount, openingBalance |-> balance]]
      BY <1>8 DEF initiateWithdrawal
    <3>2. balance \in Nat
      BY ProvableType
    <3> QED
      BY <2>1, <3>1, <3>2 DEF TypeOK
  <2>3. totalRequestedWithdrawals' \in [Rounds -> [Tokens -> Nat]]
    BY <1>8, <2>1 DEF initiateWithdrawal, TypeOK
  <2>4. activeWithdrawalRounds' \in [Tokens -> [Clients -> Rounds]]
    BY <1>8 DEF initiateWithdrawal, TypeOK
  <2> QED
    BY <1>8, <2>2, <2>3, <2>4 DEF initiateWithdrawal, notHalted, TypeOK, clockVars, haltVars,
       tokenVars, depositVars, commitVars, disputeVars, erc20Vars
<1>9. ASSUME NEW c \in Clients, NEW t \in Tokens, confirmWithdrawal(c, t)
      PROVE  TypeOK'
  <2> DEFINE w == activeWithdrawalRounds[t][c]
  <2>0. w \in Rounds
    BY DEF TypeOK
  <2>1. clientRequestedWithdrawals[w][t][c].amount \in Nat
    <3>1. clientRequestedWithdrawals[w][t][c] \in [amount : Nat, openingBalance : Nat]
      BY <2>0 DEF TypeOK
    <3> QED
      BY <3>1
  <2>2. held' \in [Tokens -> Nat] /\ wallet' \in [Tokens -> [Clients -> Nat]]
    BY <1>9, <2>1, TransferType DEF confirmWithdrawal
  <2>3. activeWithdrawalRounds' \in [Tokens -> [Clients -> Rounds]]
    <3>1. EndRequest(c, t)
      BY <1>9 DEF confirmWithdrawal
    <3>2. 0 \in Rounds /\ activeWithdrawalRounds \in [Tokens -> [Clients -> Rounds]]
      BY DEF TypeOK, Rounds
    <3> QED
      BY <3>1, <3>2 DEF EndRequest
  <2> QED
    BY <1>9, <2>2, <2>3, RecordHaltType DEF confirmWithdrawal, TypeOK,
       clockVars, tokenVars, depositVars, commitVars, disputeVars
<1>10. ASSUME NEW c \in Clients, NEW t \in Tokens, recoverAllFunds(c, t)
       PROVE  TypeOK'
  <2>1. PICK balance \in Provable(c, t, HaltRound - 2) :
           transferTokenToClient(t, c, balance + RecentDeposits(c, t))
    BY <1>10 DEF recoverAllFunds
  <2>2. balance + RecentDeposits(c, t) \in Nat
    BY ProvableType, RecentDepositsType
  <2>3. held' \in [Tokens -> Nat] /\ wallet' \in [Tokens -> [Clients -> Nat]]
    BY <2>1, <2>2, TransferType
  <2> QED
    BY <1>10, <2>3, RecordHaltType DEF recoverAllFunds, TypeOK, clockVars,
       tokenVars, depositVars, withdrawalVars, commitVars, disputeVars
<1>11. ASSUME NEW c \in Clients, NEW t \in Tokens, recoverOnChainFundsOnly(c, t)
       PROVE  TypeOK'
  <2>1. held' \in [Tokens -> Nat] /\ wallet' \in [Tokens -> [Clients -> Nat]]
    BY <1>11, RecentDepositsType, TransferType DEF recoverOnChainFundsOnly
  <2> QED
    BY <1>11, <2>1, RecordHaltType DEF recoverOnChainFundsOnly, TypeOK, clockVars, tokenVars, depositVars, withdrawalVars, commitVars, disputeVars
<1>12. ASSUME NEW c \in Clients, NEW fills \in SUBSET Fills, NEW byProof \in BOOLEAN,
              openDispute(c, fills, byProof)
       PROVE  TypeOK'
  <2>1. PICK opening \in [Tokens -> Nat] :
           disputes' = [disputes EXCEPT ![c] =
              [round |-> round, quarter |-> quarter, opening |-> opening,
               fills |-> fills, open |-> TRUE]]
    <3>1. [u \in Tokens |-> 0] \in [Tokens -> Nat]
      OBVIOUS
    <3> QED
      BY <1>12, <3>1, ShownType DEF openDispute
  <2>2. fills \in SUBSET Fills
    OBVIOUS
  <2> DEFINE d == [round |-> round, quarter |-> quarter, fills |-> fills, open |-> TRUE,
                   opening |-> opening]
  <2>3. round \in Rounds /\ quarter \in Quarters
    BY DEF TypeOK
  <2>4. d \in Dispute
    BY <2>1, <2>2, <2>3 DEF Dispute
  <2>5. disputes' = [disputes EXCEPT ![c] = d]
    BY <2>1
  <2> HIDE DEF d
  <2>6. disputes' \in [Clients -> Dispute]
    BY <2>4, <2>5 DEF TypeOK
  <2>7. openDisputeCounters' \in [Rounds -> Nat] /\ totalDisputes' \in Nat
    BY <1>12, <2>3 DEF openDispute, TypeOK
  <2> QED
    BY <1>12, <2>6, <2>7 DEF openDispute, notHalted, TypeOK, clockVars, haltVars,
       tokenVars, depositVars, withdrawalVars, commitVars, erc20Vars
<1>13. CASE UNCHANGED vars
  BY <1>13 DEF TypeOK, vars, clockVars, haltVars, tokenVars, depositVars, withdrawalVars,
     commitVars, disputeVars, erc20Vars
<1> QED
  BY <1>1, <1>2, <1>3, <1>4, <1>5, <1>6, <1>7, <1>8, <1>9, <1>10, <1>11, <1>12, <1>13,
     Steps

\* The constructor leaves every variable with a value of its type.
LEMMA TypeCorrectAtStart == Init => TypeOK
<1>1. 0 \in Rounds /\ 0 \in Quarters
  BY ConstantsAssumption DEF Rounds, Quarters
<1>2. NoDispute \in Dispute
  BY <1>1 DEF NoDispute, Dispute
<1>3. Supply \in [Tokens -> [Clients -> Nat]]
  BY ConstantsAssumption
<1>4. ASSUME Init PROVE TypeOK
  BY <1>1, <1>2, <1>3, <1>4 DEF Init, TypeOK
<1> QED
  BY <1>4

\* The contract never leaves the types of its variables; no subtraction wraps.
THEOREM TypeCorrect == Spec => []TypeOK
BY TypeCorrectAtStart, TypeStep, NextIsAnyNext, PTL DEF Spec

-----------------------------------------------------------------------------
(* What each group of variables can undergo in a step. *)

\* Roots, registrations: only commit and registerToken touch them.
LEMMA CommitFootprint ==
    ASSUME [AnyNext]_vars
    PROVE  \/ \E t \in Tokens : registerToken(t)
           \/ \E t \in Tokens : \E root \in Roots : commit(t, root)
           \/ UNCHANGED <<tokenVars, commitVars>>
<1>1. CASE Tick
  BY <1>1 DEF Tick
<1>2. CASE updateHaltedState
  BY <1>2 DEF updateHaltedState
<1>3. ASSUME NEW c \in Clients, NEW t \in Tokens, NEW approvals \in SUBSET Approvals,
             cancelWithdrawal(c, t, approvals)
      PROVE  UNCHANGED <<tokenVars, commitVars>>
  BY <1>3 DEF cancelWithdrawal
<1>4. ASSUME NEW c \in Clients, NEW fills \in SUBSET Fills,
             NEW approvalOf \in ApprovalsFor(fills), closeDispute(c, fills, approvalOf)
      PROVE  UNCHANGED <<tokenVars, commitVars>>
  BY <1>4 DEF closeDispute
<1>5. ASSUME NEW c \in Clients, NEW t \in Tokens, NEW amount \in Amounts(t),
             depositTokens(c, t, amount)
      PROVE  UNCHANGED <<tokenVars, commitVars>>
  BY <1>5 DEF depositTokens
<1>6. ASSUME NEW c \in Clients, NEW t \in Tokens, NEW amount \in Amounts(t),
             initiateWithdrawal(c, t, amount)
      PROVE  UNCHANGED <<tokenVars, commitVars>>
  BY <1>6 DEF initiateWithdrawal
<1>7. ASSUME NEW c \in Clients, NEW t \in Tokens, confirmWithdrawal(c, t)
      PROVE  UNCHANGED <<tokenVars, commitVars>>
  BY <1>7 DEF confirmWithdrawal
<1>8. ASSUME NEW c \in Clients, NEW t \in Tokens, recoverAllFunds(c, t)
      PROVE  UNCHANGED <<tokenVars, commitVars>>
  BY <1>8 DEF recoverAllFunds
<1>9. ASSUME NEW c \in Clients, NEW t \in Tokens, recoverOnChainFundsOnly(c, t)
      PROVE  UNCHANGED <<tokenVars, commitVars>>
  BY <1>9 DEF recoverOnChainFundsOnly
<1>10. ASSUME NEW c \in Clients, NEW fills \in SUBSET Fills, NEW byProof \in BOOLEAN,
              openDispute(c, fills, byProof)
       PROVE  UNCHANGED <<tokenVars, commitVars>>
  BY <1>10 DEF openDispute
<1>11. CASE UNCHANGED vars
  BY <1>11 DEF vars
<1> QED
  BY <1>1, <1>2, <1>3, <1>4, <1>5, <1>6, <1>7, <1>8, <1>9, <1>10, <1>11, Steps

\* Time: only Tick changes the clock, and never after a halt.
LEMMA ClockFootprint ==
    ASSUME [AnyNext]_vars
    PROVE  Tick \/ UNCHANGED clockVars
<1>1. CASE updateHaltedState
  BY <1>1 DEF updateHaltedState
<1>2. ASSUME NEW t \in Tokens, registerToken(t)
      PROVE  UNCHANGED clockVars
  BY <1>2 DEF registerToken
<1>3. ASSUME NEW t \in Tokens, NEW root \in Roots,
             commit(t, root)
      PROVE  UNCHANGED clockVars
  BY <1>3 DEF commit
<1>4. ASSUME NEW c \in Clients, NEW t \in Tokens, NEW approvals \in SUBSET Approvals,
             cancelWithdrawal(c, t, approvals)
      PROVE  UNCHANGED clockVars
  BY <1>4 DEF cancelWithdrawal
<1>5. ASSUME NEW c \in Clients, NEW fills \in SUBSET Fills,
             NEW approvalOf \in ApprovalsFor(fills), closeDispute(c, fills, approvalOf)
      PROVE  UNCHANGED clockVars
  BY <1>5 DEF closeDispute
<1>6. ASSUME NEW c \in Clients, NEW t \in Tokens, NEW amount \in Amounts(t),
             depositTokens(c, t, amount)
      PROVE  UNCHANGED clockVars
  BY <1>6 DEF depositTokens
<1>7. ASSUME NEW c \in Clients, NEW t \in Tokens, NEW amount \in Amounts(t),
             initiateWithdrawal(c, t, amount)
      PROVE  UNCHANGED clockVars
  BY <1>7 DEF initiateWithdrawal
<1>8. ASSUME NEW c \in Clients, NEW t \in Tokens, confirmWithdrawal(c, t)
      PROVE  UNCHANGED clockVars
  BY <1>8 DEF confirmWithdrawal
<1>9. ASSUME NEW c \in Clients, NEW t \in Tokens, recoverAllFunds(c, t)
      PROVE  UNCHANGED clockVars
  BY <1>9 DEF recoverAllFunds
<1>10. ASSUME NEW c \in Clients, NEW t \in Tokens, recoverOnChainFundsOnly(c, t)
       PROVE  UNCHANGED clockVars
  BY <1>10 DEF recoverOnChainFundsOnly
<1>11. ASSUME NEW c \in Clients, NEW fills \in SUBSET Fills, NEW byProof \in BOOLEAN,
              openDispute(c, fills, byProof)
       PROVE  UNCHANGED clockVars
  BY <1>11 DEF openDispute
<1>12. CASE UNCHANGED vars
  BY <1>12 DEF vars
<1> QED
  BY <1>1, <1>2, <1>3, <1>4, <1>5, <1>6, <1>7, <1>8, <1>9, <1>10, <1>11, <1>12, Steps

\* The halted state: recorded or unchanged.
LEMMA HaltFootprint ==
    ASSUME [AnyNext]_vars
    PROVE  RecordHalt \/ UNCHANGED haltVars
<1>1. CASE Tick
  BY <1>1 DEF Tick
<1>2. CASE updateHaltedState
  BY <1>2 DEF updateHaltedState
<1>3. ASSUME NEW t \in Tokens, registerToken(t)
      PROVE  RecordHalt \/ UNCHANGED haltVars
  BY <1>3 DEF registerToken, notHalted
<1>4. ASSUME NEW t \in Tokens, NEW root \in Roots,
             commit(t, root)
      PROVE  RecordHalt \/ UNCHANGED haltVars
  BY <1>4 DEF commit, notHalted
<1>5. ASSUME NEW c \in Clients, NEW t \in Tokens, NEW approvals \in SUBSET Approvals,
             cancelWithdrawal(c, t, approvals)
      PROVE  RecordHalt \/ UNCHANGED haltVars
  BY <1>5 DEF cancelWithdrawal, notHalted
<1>6. ASSUME NEW c \in Clients, NEW fills \in SUBSET Fills,
             NEW approvalOf \in ApprovalsFor(fills), closeDispute(c, fills, approvalOf)
      PROVE  RecordHalt \/ UNCHANGED haltVars
  BY <1>6 DEF closeDispute, notHalted
<1>7. ASSUME NEW c \in Clients, NEW t \in Tokens, NEW amount \in Amounts(t),
             depositTokens(c, t, amount)
      PROVE  RecordHalt \/ UNCHANGED haltVars
  BY <1>7 DEF depositTokens, notHalted
<1>8. ASSUME NEW c \in Clients, NEW t \in Tokens, NEW amount \in Amounts(t),
             initiateWithdrawal(c, t, amount)
      PROVE  RecordHalt \/ UNCHANGED haltVars
  BY <1>8 DEF initiateWithdrawal, notHalted
<1>9. ASSUME NEW c \in Clients, NEW t \in Tokens, confirmWithdrawal(c, t)
      PROVE  RecordHalt \/ UNCHANGED haltVars
  BY <1>9 DEF confirmWithdrawal
<1>10. ASSUME NEW c \in Clients, NEW t \in Tokens, recoverAllFunds(c, t)
       PROVE  RecordHalt \/ UNCHANGED haltVars
  BY <1>10 DEF recoverAllFunds
<1>11. ASSUME NEW c \in Clients, NEW t \in Tokens, recoverOnChainFundsOnly(c, t)
       PROVE  RecordHalt \/ UNCHANGED haltVars
  BY <1>11 DEF recoverOnChainFundsOnly
<1>12. ASSUME NEW c \in Clients, NEW fills \in SUBSET Fills, NEW byProof \in BOOLEAN,
              openDispute(c, fills, byProof)
       PROVE  RecordHalt \/ UNCHANGED haltVars
  BY <1>12 DEF openDispute, notHalted
<1>13. CASE UNCHANGED vars
  BY <1>13 DEF vars
<1> QED
  BY <1>1, <1>2, <1>3, <1>4, <1>5, <1>6, <1>7, <1>8, <1>9, <1>10, <1>11, <1>12, <1>13, Steps

\* Disputes: opened or closed.
LEMMA DisputeFootprint ==
    ASSUME [AnyNext]_vars
    PROVE  \/ \E c \in Clients, fills \in SUBSET Fills, byProof \in BOOLEAN :
                 openDispute(c, fills, byProof)
           \/ \E c \in Clients, fills \in SUBSET Fills :
                 \E approvalOf \in ApprovalsFor(fills) : closeDispute(c, fills, approvalOf)
           \/ UNCHANGED disputeVars
<1>1. CASE Tick
  BY <1>1 DEF Tick
<1>2. CASE updateHaltedState
  BY <1>2 DEF updateHaltedState
<1>3. ASSUME NEW t \in Tokens, registerToken(t)
      PROVE  UNCHANGED disputeVars
  BY <1>3 DEF registerToken
<1>4. ASSUME NEW t \in Tokens, NEW root \in Roots,
             commit(t, root)
      PROVE  UNCHANGED disputeVars
  BY <1>4 DEF commit
<1>5. ASSUME NEW c \in Clients, NEW t \in Tokens, NEW approvals \in SUBSET Approvals,
             cancelWithdrawal(c, t, approvals)
      PROVE  UNCHANGED disputeVars
  BY <1>5 DEF cancelWithdrawal
<1>6. ASSUME NEW c \in Clients, NEW t \in Tokens, NEW amount \in Amounts(t),
             depositTokens(c, t, amount)
      PROVE  UNCHANGED disputeVars
  BY <1>6 DEF depositTokens
<1>7. ASSUME NEW c \in Clients, NEW t \in Tokens, NEW amount \in Amounts(t),
             initiateWithdrawal(c, t, amount)
      PROVE  UNCHANGED disputeVars
  BY <1>7 DEF initiateWithdrawal
<1>8. ASSUME NEW c \in Clients, NEW t \in Tokens, confirmWithdrawal(c, t)
      PROVE  UNCHANGED disputeVars
  BY <1>8 DEF confirmWithdrawal
<1>9. ASSUME NEW c \in Clients, NEW t \in Tokens, recoverAllFunds(c, t)
      PROVE  UNCHANGED disputeVars
  BY <1>9 DEF recoverAllFunds
<1>10. ASSUME NEW c \in Clients, NEW t \in Tokens, recoverOnChainFundsOnly(c, t)
       PROVE  UNCHANGED disputeVars
  BY <1>10 DEF recoverOnChainFundsOnly
<1>11. CASE UNCHANGED vars
  BY <1>11 DEF vars
<1> QED
  BY <1>1, <1>2, <1>3, <1>4, <1>5, <1>6, <1>7, <1>8, <1>9, <1>10, <1>11, Steps

\* Requests: made, confirmed or cancelled.
LEMMA WithdrawalFootprint ==
    ASSUME [AnyNext]_vars
    PROVE  \/ \E c \in Clients, t \in Tokens : \E amount \in Amounts(t) :
                 initiateWithdrawal(c, t, amount)
           \/ \E c \in Clients, t \in Tokens : confirmWithdrawal(c, t)
           \/ \E c \in Clients, t \in Tokens, approvals \in SUBSET Approvals :
                 cancelWithdrawal(c, t, approvals)
           \/ UNCHANGED withdrawalVars
<1>1. CASE Tick
  BY <1>1 DEF Tick
<1>2. CASE updateHaltedState
  BY <1>2 DEF updateHaltedState
<1>3. ASSUME NEW t \in Tokens, registerToken(t)
      PROVE  UNCHANGED withdrawalVars
  BY <1>3 DEF registerToken
<1>4. ASSUME NEW t \in Tokens, NEW root \in Roots,
             commit(t, root)
      PROVE  UNCHANGED withdrawalVars
  BY <1>4 DEF commit
<1>5. ASSUME NEW c \in Clients, NEW fills \in SUBSET Fills,
             NEW approvalOf \in ApprovalsFor(fills), closeDispute(c, fills, approvalOf)
      PROVE  UNCHANGED withdrawalVars
  BY <1>5 DEF closeDispute
<1>6. ASSUME NEW c \in Clients, NEW t \in Tokens, NEW amount \in Amounts(t),
             depositTokens(c, t, amount)
      PROVE  UNCHANGED withdrawalVars
  BY <1>6 DEF depositTokens
<1>7. ASSUME NEW c \in Clients, NEW t \in Tokens, recoverAllFunds(c, t)
      PROVE  UNCHANGED withdrawalVars
  BY <1>7 DEF recoverAllFunds
<1>8. ASSUME NEW c \in Clients, NEW t \in Tokens, recoverOnChainFundsOnly(c, t)
      PROVE  UNCHANGED withdrawalVars
  BY <1>8 DEF recoverOnChainFundsOnly
<1>9. ASSUME NEW c \in Clients, NEW fills \in SUBSET Fills, NEW byProof \in BOOLEAN,
             openDispute(c, fills, byProof)
      PROVE  UNCHANGED withdrawalVars
  BY <1>9 DEF openDispute
<1>10. CASE UNCHANGED vars
  BY <1>10 DEF vars
<1> QED
  BY <1>1, <1>2, <1>3, <1>4, <1>5, <1>6, <1>7, <1>8, <1>9, <1>10, Steps

\* Deposits: made.
LEMMA DepositFootprint ==
    ASSUME [AnyNext]_vars
    PROVE  \/ \E c \in Clients, t \in Tokens : \E amount \in Amounts(t) :
                 depositTokens(c, t, amount)
           \/ UNCHANGED depositVars
<1>1. CASE Tick
  BY <1>1 DEF Tick
<1>2. CASE updateHaltedState
  BY <1>2 DEF updateHaltedState
<1>3. ASSUME NEW t \in Tokens, registerToken(t)
      PROVE  UNCHANGED depositVars
  BY <1>3 DEF registerToken
<1>4. ASSUME NEW t \in Tokens, NEW root \in Roots,
             commit(t, root)
      PROVE  UNCHANGED depositVars
  BY <1>4 DEF commit
<1>5. ASSUME NEW c \in Clients, NEW t \in Tokens, NEW approvals \in SUBSET Approvals,
             cancelWithdrawal(c, t, approvals)
      PROVE  UNCHANGED depositVars
  BY <1>5 DEF cancelWithdrawal
<1>6. ASSUME NEW c \in Clients, NEW fills \in SUBSET Fills,
             NEW approvalOf \in ApprovalsFor(fills), closeDispute(c, fills, approvalOf)
      PROVE  UNCHANGED depositVars
  BY <1>6 DEF closeDispute
<1>7. ASSUME NEW c \in Clients, NEW t \in Tokens, NEW amount \in Amounts(t),
             initiateWithdrawal(c, t, amount)
      PROVE  UNCHANGED depositVars
  BY <1>7 DEF initiateWithdrawal
<1>8. ASSUME NEW c \in Clients, NEW t \in Tokens, confirmWithdrawal(c, t)
      PROVE  UNCHANGED depositVars
  BY <1>8 DEF confirmWithdrawal
<1>9. ASSUME NEW c \in Clients, NEW t \in Tokens, recoverAllFunds(c, t)
      PROVE  UNCHANGED depositVars
  BY <1>9 DEF recoverAllFunds
<1>10. ASSUME NEW c \in Clients, NEW t \in Tokens, recoverOnChainFundsOnly(c, t)
       PROVE  UNCHANGED depositVars
  BY <1>10 DEF recoverOnChainFundsOnly
<1>11. ASSUME NEW c \in Clients, NEW fills \in SUBSET Fills, NEW byProof \in BOOLEAN,
              openDispute(c, fills, byProof)
       PROVE  UNCHANGED depositVars
  BY <1>11 DEF openDispute
<1>12. CASE UNCHANGED vars
  BY <1>12 DEF vars
<1> QED
  BY <1>1, <1>2, <1>3, <1>4, <1>5, <1>6, <1>7, <1>8, <1>9, <1>10, <1>11, <1>12, Steps
-----------------------------------------------------------------------------
(* Commits. *)

\* A root more means a committed token more, and the count says when they are all.
LEMMA CommitCounting ==
    ASSUME TypeOK, CommitInv, NEW t \in Tokens, NEW root \in Roots,
           commit(t, root)
    PROVE  /\ CommittedIn(round)' = CommittedIn(round) \cup {t}
           /\ \A r \in Rounds \ {round} : CommittedIn(r)' = CommittedIn(r)
           /\ Cardinality(CommittedIn(round)') = commitCounters[round] + 1
           /\ Cardinality(CommittedIn(round)') = tokenCount
                <=> CommittedIn(round)' = registeredTokens
<1>1. IsFiniteSet(registeredTokens) /\ registeredTokens \in SUBSET Tokens
  BY ConstantsAssumption, FS_Subset DEF TypeOK
<1>2. round \in Rounds /\ t \in registeredTokens /\ commits[round][t] = NoRoot
      /\ registeredTokens' = registeredTokens /\ round' = round
  BY DEF TypeOK, commit, nothingCommitted, tokenVars, clockVars
<1>3. root # NoRoot
  BY ConstantsAssumption
<1>4. commits' = [commits EXCEPT ![round][t] = root]
  BY DEF commit
<1>5. commits \in [Rounds -> [Tokens -> Roots \cup {NoRoot}]]
  BY DEF TypeOK
<1>6. \A r \in Rounds, u \in Tokens :
          commits'[r][u] = IF r = round /\ u = t
                           THEN root ELSE commits[r][u]
  BY <1>2, <1>4, <1>5
<1>7. CommittedIn(round)' = CommittedIn(round) \cup {t}
  BY <1>1, <1>2, <1>3, <1>6 DEF CommittedIn
<1>8. \A r \in Rounds \ {round} : CommittedIn(r)' = CommittedIn(r)
  BY <1>1, <1>2, <1>6 DEF CommittedIn
<1>9. t \notin CommittedIn(round)
  BY <1>2 DEF CommittedIn
<1>10. IsFiniteSet(CommittedIn(round))
  <2>1. CommittedIn(round) \in SUBSET registeredTokens
    BY DEF CommittedIn
  <2> QED
    BY <1>1, <2>1, FS_Subset
<1>11. Cardinality(CommittedIn(round)) = commitCounters[round]
  BY <1>2 DEF CommitInv
<1>12. Cardinality(CommittedIn(round)') = commitCounters[round] + 1
  BY <1>7, <1>9, <1>10, <1>11, FS_AddElement
<1>13. CommittedIn(round)' \in SUBSET registeredTokens
  BY <1>2 DEF CommittedIn
<1>14. tokenCount = Cardinality(registeredTokens)
  BY DEF CommitInv
<1>15. Cardinality(CommittedIn(round)') = tokenCount <=> CommittedIn(round)' = registeredTokens
  BY <1>1, <1>13, <1>14, FS_Subset
<1> QED
  BY <1>7, <1>8, <1>12, <1>15

\* The clock only moves forward, by a quarter at a time.
LEMMA ClockForward ==
    ASSUME TypeOK, [AnyNext]_vars
    PROVE  round' \in Rounds /\ round <= round'
<1>1. round \in Rounds /\ MaxRound \in Nat
  BY ConstantsAssumption DEF TypeOK
<1>2. CASE Tick
  BY <1>1, <1>2 DEF Tick, Rounds
<1>3. CASE UNCHANGED clockVars
  BY <1>1, <1>3 DEF clockVars, Rounds
<1> QED
  BY <1>2, <1>3, ClockFootprint

\* A round is complete when its committed tokens are all there are.
LEMMA CompleteRound ==
    CommitsComplete <=> \A r \in 1..MaxRound :
        (tokenCount > 0 /\ CommittedIn(r) = registeredTokens) <=> r <= committedRounds
BY DEF CommitsComplete, CommittedIn

\* A round can be committed only while it is the first one that is not complete.
LEMMA CommitsInOrder ==
    ASSUME TypeOK, CommitInv, NEW t \in Tokens, NEW root, commit(t, root)
    PROVE  committedRounds = round - 1 /\ round \in 1..MaxRound /\ tokenCount > 0
<1>1. round \in 1..MaxRound /\ committedRounds \in Nat /\ MaxRound \in Nat
  BY ConstantsAssumption DEF TypeOK, commit, Rounds
<1>2. ~ (round <= committedRounds)
  BY <1>1 DEF CommitInv, CommitsComplete, commit, nothingCommitted
<1>3. committedRounds >= round - 1 /\ tokenCount # 0
  BY <1>1 DEF commit, notHalted, HaltDue, IsMissingCommits, TypeOK
<1> QED
  BY <1>1, <1>2, <1>3 DEF TypeOK

\* The counters of commits stay right.
LEMMA CommitStep == TypeOK /\ CommitInv /\ [AnyNext]_vars => CommitInv'
<1> SUFFICES ASSUME TypeOK, CommitInv, [AnyNext]_vars PROVE CommitInv'
  OBVIOUS
<1>0. /\ MaxRound \in Nat /\ round \in Nat /\ committedRounds \in Nat /\ tokenCount \in Nat
      /\ commitCounters \in [Rounds -> Nat] /\ registeredTokens \in SUBSET Tokens
      /\ commits \in [Rounds -> [Tokens -> Roots \cup {NoRoot}]]
      /\ round \in Rounds
  BY ConstantsAssumption DEF TypeOK, Rounds
<1>1. ASSUME NEW t \in Tokens, registerToken(t) PROVE CommitInv'
  <2>1. /\ round = 0 /\ round' = 0 /\ t \notin registeredTokens
        /\ registeredTokens' = registeredTokens \cup {t} /\ tokenCount' = tokenCount + 1
        /\ commits' = commits /\ commitCounters' = commitCounters
        /\ committedRounds' = committedRounds
    BY <1>1 DEF registerToken, clockVars, commitVars
  <2>2. /\ committedRounds = 0
        /\ \A r \in Rounds, u \in Tokens : commits[r][u] = NoRoot
    BY <1>0, <2>1 DEF CommitInv
  <2>3. IsFiniteSet(registeredTokens)
    BY <1>0, ConstantsAssumption, FS_Subset
  <2>4. tokenCount' = Cardinality(registeredTokens')
    BY <2>1, <2>3, FS_AddElement DEF CommitInv
  <2>5. \A r \in Rounds : CommittedIn(r) = {} /\ CommittedIn(r)' = {}
    BY <1>0, <2>1, <2>2 DEF CommittedIn
  <2>6. \A r \in Rounds : commitCounters'[r] = Cardinality(CommittedIn(r)')
    BY <2>1, <2>5 DEF CommitInv
  <2>7. CommitsComplete'
    <3> SUFFICES ASSUME NEW r \in 1..MaxRound
                 PROVE  ~ (\A u \in registeredTokens' : commits'[r][u] # NoRoot)
                        /\ ~ (r <= committedRounds')
      BY DEF CommitsComplete
    <3>1. r \in Rounds
      BY <1>0 DEF Rounds
    <3> QED
      BY <1>0, <2>1, <2>2, <3>1
  <2> QED
    BY <1>0, <2>1, <2>2, <2>4, <2>6, <2>7 DEF CommitInv
<1>2. ASSUME NEW t \in Tokens, NEW root \in Roots, commit(t, root)
      PROVE  CommitInv'
  <2>1. /\ round' = round /\ registeredTokens' = registeredTokens /\ tokenCount' = tokenCount
        /\ t \in registeredTokens
        /\ commitCounters' = [commitCounters EXCEPT ![round] = @ + 1]
        /\ committedRounds' = IF commitCounters'[round] = tokenCount
                              THEN committedRounds + 1 ELSE committedRounds
    BY <1>2 DEF commit, clockVars, tokenVars
  <2>2. committedRounds = round - 1 /\ round \in 1..MaxRound /\ tokenCount > 0
    BY <1>2, CommitsInOrder
  <2>3. /\ CommittedIn(round)' = CommittedIn(round) \cup {t}
        /\ \A r \in Rounds \ {round} : CommittedIn(r)' = CommittedIn(r)
        /\ Cardinality(CommittedIn(round)') = commitCounters[round] + 1
        /\ Cardinality(CommittedIn(round)') = tokenCount
             <=> CommittedIn(round)' = registeredTokens
    BY <1>2, CommitCounting
  <2>4. commitCounters'[round] = commitCounters[round] + 1
        /\ \A r \in Rounds \ {round} : commitCounters'[r] = commitCounters[r]
    BY <1>0, <2>1
  <2>5. \A r \in Rounds : commitCounters'[r] = Cardinality(CommittedIn(r)')
    <3> SUFFICES ASSUME NEW r \in Rounds
                 PROVE  commitCounters'[r] = Cardinality(CommittedIn(r)')
      OBVIOUS
    <3>1. CASE r = round
      BY <2>1, <2>3, <2>4, <3>1
    <3>2. CASE r # round
      BY <2>3, <2>4, <3>2 DEF CommitInv
    <3> QED
      BY <3>1, <3>2
  <2>6. committedRounds' = IF CommittedIn(round)' = registeredTokens THEN round ELSE round - 1
    BY <1>0, <2>1, <2>2, <2>3, <2>4
  <2>7. CommitsComplete'
    <3>1. ASSUME NEW r \in 1..MaxRound
          PROVE  (tokenCount' > 0 /\ CommittedIn(r)' = registeredTokens')
                     <=> r <= committedRounds'
      <4>1. r \in Rounds /\ r \in Nat
        BY <1>0 DEF Rounds
      <4>2. CASE r = round
        BY <1>0, <2>1, <2>2, <2>6, <4>2
      <4>3. CASE r # round
        <5>1. (tokenCount > 0 /\ CommittedIn(r) = registeredTokens) <=> r <= committedRounds
          BY CompleteRound DEF CommitInv
        <5> QED
          BY <1>0, <2>1, <2>2, <2>3, <2>6, <4>1, <4>3, <5>1
      <4> QED
        BY <4>2, <4>3
    <3>2. CommitsComplete' <=> \A r \in 1..MaxRound :
              (tokenCount' > 0 /\ CommittedIn(r)' = registeredTokens')
                  <=> r <= committedRounds'
      BY DEF CommitsComplete, CommittedIn
    <3> QED
      BY <3>1, <3>2
  <2>8. ASSUME NEW r \in Rounds, NEW u \in Tokens, commits'[r][u] # NoRoot
        PROVE  r \in 1..round' /\ u \in registeredTokens'
    <3>1. commits' = [commits EXCEPT ![round][t] = root]
      BY <1>2 DEF commit
    <3>2. CASE r = round /\ u = t
      BY <1>0, <2>1, <2>2, <3>2
    <3>3. CASE ~ (r = round /\ u = t)
      <4>1. commits[r][u] # NoRoot
        BY <1>0, <2>8, <3>1, <3>3
      <4> QED
        BY <2>1, <4>1 DEF CommitInv
    <3> QED
      BY <3>2, <3>3
  <2>9. committedRounds' <= round'
    BY <1>0, <2>1, <2>2, <2>6
  <2>10. tokenCount' = Cardinality(registeredTokens')
    BY <2>1 DEF CommitInv
  <2> QED
    BY <2>5, <2>7, <2>8, <2>9, <2>10 DEF CommitInv
<1>3. CASE UNCHANGED <<tokenVars, commitVars>>
  <2>1. /\ registeredTokens' = registeredTokens /\ tokenCount' = tokenCount
        /\ commits' = commits /\ commitCounters' = commitCounters
        /\ committedRounds' = committedRounds
    BY <1>3 DEF tokenVars, commitVars
  <2>2. round' \in Nat /\ round <= round'
    BY ClockForward, ConstantsAssumption DEF Rounds
  <2>3. CommitsComplete' /\ \A r \in Rounds : CommittedIn(r)' = CommittedIn(r)
    BY <2>1 DEF CommitInv, CommitsComplete, CommittedIn
  <2>4. committedRounds' <= round' /\ 1..round \subseteq 1..round'
    BY <1>0, <2>1, <2>2 DEF CommitInv
  <2> QED
    BY <2>1, <2>3, <2>4 DEF CommitInv
<1> QED
  BY <1>1, <1>2, <1>3, CommitFootprint

-----------------------------------------------------------------------------
(* Closed books. *)

\* Deposits are booked in the current round, which nobody has closed yet.
LEMMA DepositsOfClosedRounds ==
    ASSUME TypeOK, CommitInv, [AnyNext]_vars,
           NEW r \in 1..MaxRound, NEW t \in Tokens, commits[r][t] # NoRoot
    PROVE  totalDeposits'[r - 1][t] = totalDeposits[r - 1][t]
<1>1. r \in Rounds /\ r - 1 \in Rounds /\ round \in Rounds /\ r - 1 # round
  BY ConstantsAssumption DEF TypeOK, CommitInv, Rounds
<1>2. ASSUME NEW c \in Clients, NEW u \in Tokens, NEW amount \in Amounts(u),
             depositTokens(c, u, amount)
      PROVE  totalDeposits'[r - 1][t] = totalDeposits[r - 1][t]
  <2>1. totalDeposits' = [totalDeposits EXCEPT ![round][u] = @ + amount]
    BY <1>2 DEF depositTokens
  <2>2. totalDeposits \in [Rounds -> [Tokens -> Nat]]
    BY DEF TypeOK
  <2> QED
    BY <1>1, <2>1, <2>2
<1>3. CASE UNCHANGED depositVars
  BY <1>3 DEF depositVars
<1> QED
  BY <1>2, <1>3, DepositFootprint

\* So are requests; and a cancellation, which may come a round later, is refused
\* once that round has been committed.
LEMMA RequestsOfClosedRounds ==
    ASSUME TypeOK, CommitInv, [AnyNext]_vars,
           NEW r \in 1..MaxRound, NEW t \in Tokens, commits[r][t] # NoRoot
    PROVE  totalRequestedWithdrawals'[r - 1][t] = totalRequestedWithdrawals[r - 1][t]
<1>1. r \in Rounds /\ r - 1 \in Rounds /\ round \in Rounds /\ r - 1 # round
  BY ConstantsAssumption DEF TypeOK, CommitInv, Rounds
<1>2. totalRequestedWithdrawals \in [Rounds -> [Tokens -> Nat]]
  BY DEF TypeOK
<1>3. ASSUME NEW c \in Clients, NEW u \in Tokens, NEW amount \in Amounts(u),
             initiateWithdrawal(c, u, amount)
      PROVE  totalRequestedWithdrawals'[r - 1][t] = totalRequestedWithdrawals[r - 1][t]
  <2>1. totalRequestedWithdrawals'
          = [totalRequestedWithdrawals EXCEPT ![round][u] = @ + amount]
    BY <1>3 DEF initiateWithdrawal
  <2> QED
    BY <1>1, <1>2, <2>1
<1>4. ASSUME NEW c \in Clients, NEW u \in Tokens, NEW approvals \in SUBSET Approvals,
             cancelWithdrawal(c, u, approvals)
      PROVE  totalRequestedWithdrawals'[r - 1][t] = totalRequestedWithdrawals[r - 1][t]
  <2> DEFINE w == activeWithdrawalRounds[u][c]
             amount == clientRequestedWithdrawals[w][u][c].amount
  <2>1. /\ totalRequestedWithdrawals'
             = [totalRequestedWithdrawals EXCEPT ![w][u] = @ - amount]
        /\ canCancelWithdrawal(w, u)
    BY <1>4 DEF cancelWithdrawal, ClearRequest, EndRequest
  <2>2. w \in Rounds
    BY DEF TypeOK
  <2>3. ~ (r - 1 = w /\ t = u)
    BY <1>1, <2>1, <2>2 DEF canCancelWithdrawal, Rounds
  <2> HIDE DEF w, amount
  <2> QED
    BY <1>1, <1>2, <2>1, <2>2, <2>3
<1>5. ASSUME NEW c \in Clients, NEW u \in Tokens, confirmWithdrawal(c, u)
      PROVE  totalRequestedWithdrawals'[r - 1][t] = totalRequestedWithdrawals[r - 1][t]
  BY <1>5 DEF confirmWithdrawal
<1>6. CASE UNCHANGED withdrawalVars
  BY <1>6 DEF withdrawalVars
<1> QED
  BY <1>3, <1>4, <1>5, <1>6, WithdrawalFootprint

\* The committed opening balance of a round stays the closing balance of the one
\* before it.
LEMMA ClosedBooksStep == TypeOK /\ CommitInv /\ ClosedBooks /\ [AnyNext]_vars => ClosedBooks'
<1> SUFFICES ASSUME TypeOK, CommitInv, ClosedBooks, [AnyNext]_vars,
                    NEW r \in 1..MaxRound, NEW t \in Tokens, commits'[r][t] # NoRoot
             PROVE  openingBalances'[r][t]
                      = openingBalances'[r - 1][t] + totalDeposits'[r - 1][t]
                            - totalRequestedWithdrawals'[r - 1][t]
  BY DEF ClosedBooks
<1>1. r \in Rounds /\ r - 1 \in Rounds /\ round \in Rounds
  BY ConstantsAssumption DEF TypeOK, Rounds
<1>2. CASE commits[r][t] # NoRoot
           /\ openingBalances'[r][t] = openingBalances[r][t]
           /\ openingBalances'[r - 1][t] = openingBalances[r - 1][t]
  <2>1. openingBalances[r][t] = openingBalances[r - 1][t] + totalDeposits[r - 1][t]
                                    - totalRequestedWithdrawals[r - 1][t]
    BY <1>2 DEF ClosedBooks
  <2> QED
    BY <1>2, <2>1, DepositsOfClosedRounds, RequestsOfClosedRounds
<1>3. CASE UNCHANGED openingBalances /\ UNCHANGED commits
  BY <1>2, <1>3
<1>4. ASSUME NEW u \in Tokens, NEW root \in Roots, commit(u, root)
      PROVE  openingBalances'[r][t]
               = openingBalances'[r - 1][t] + totalDeposits'[r - 1][t]
                     - totalRequestedWithdrawals'[r - 1][t]
  <2> DEFINE closing == previousClosingBalance(u)
  <2>1. /\ openingBalances' = [openingBalances EXCEPT ![round][u] = closing]
        /\ commits' = [commits EXCEPT ![round][u] = root]
        /\ totalDeposits' = totalDeposits
        /\ totalRequestedWithdrawals' = totalRequestedWithdrawals
    BY <1>4 DEF commit, depositVars, withdrawalVars
  <2>2. /\ openingBalances \in [Rounds -> [Tokens -> Nat]]
        /\ commits \in [Rounds -> [Tokens -> Roots \cup {NoRoot}]]
    BY DEF TypeOK
  <2>3. CASE r = round /\ t = u
    <3>1. closing = openingBalances[r - 1][t] + totalDeposits[r - 1][t]
                        - totalRequestedWithdrawals[r - 1][t]
      BY <2>3 DEF previousClosingBalance
    <3> HIDE DEF closing
    <3>2. openingBalances'[r][t] = closing
          /\ openingBalances'[r - 1][t] = openingBalances[r - 1][t]
      BY <1>1, <2>1, <2>2, <2>3 DEF Rounds
    <3> QED
      BY <2>1, <3>1, <3>2
  <2>4. CASE ~ (r = round /\ t = u)
    <3> HIDE DEF closing
    <3>1. commits[r][t] # NoRoot
      BY <1>1, <2>1, <2>2, <2>4
    <3>2. r - 1 # round
      BY <1>1, <3>1 DEF CommitInv, Rounds
    <3>3. openingBalances'[r][t] = openingBalances[r][t]
          /\ openingBalances'[r - 1][t] = openingBalances[r - 1][t]
      BY <1>1, <2>1, <2>2, <2>4, <3>2
    <3> QED
      BY <1>2, <3>1, <3>3
  <2> QED
    BY <2>3, <2>4
<1>5. ASSUME NEW u \in Tokens, registerToken(u)
      PROVE  UNCHANGED openingBalances /\ UNCHANGED commits
  BY <1>5 DEF registerToken, commitVars
<1>6. CASE UNCHANGED <<tokenVars, commitVars>>
  BY <1>3, <1>6 DEF commitVars
<1> QED
  BY <1>3, <1>4, <1>5, <1>6, CommitFootprint

-----------------------------------------------------------------------------
(* Disputes. *)

\* A counter changes by one exactly when the set it counts does.
LEMMA DisputeStep == TypeOK /\ DisputeInv /\ [AnyNext]_vars => DisputeInv'
<1> SUFFICES ASSUME TypeOK, DisputeInv, [AnyNext]_vars PROVE DisputeInv'
  OBVIOUS
<1>0. /\ round \in Rounds /\ round \in Nat
      /\ disputes \in [Clients -> Dispute] /\ openDisputeCounters \in [Rounds -> Nat]
      /\ \A r \in Rounds : openDisputeCounters[r] = Cardinality(OpenDisputesOf(r))
      /\ \A r \in Rounds : IsFiniteSet(OpenDisputesOf(r))
  <2>1. \A r \in Rounds : OpenDisputesOf(r) \in SUBSET Clients
    BY DEF OpenDisputesOf
  <2>2. \A r \in Rounds : IsFiniteSet(OpenDisputesOf(r))
    BY <2>1, ConstantsAssumption, FS_Subset
  <2> QED
    BY <2>2, ConstantsAssumption DEF TypeOK, Rounds, DisputeInv, DisputeCountersMatch
<1>1. ASSUME NEW c \in Clients, NEW fills \in SUBSET Fills, NEW byProof \in BOOLEAN,
             openDispute(c, fills, byProof)
      PROVE  DisputeInv'
  <2>0. PICK opening :
           disputes' = [disputes EXCEPT ![c] =
              [round |-> round, quarter |-> quarter, opening |-> opening,
               fills |-> fills, open |-> TRUE]]
    BY <1>1 DEF openDispute
  <2> DEFINE new == [round |-> round, quarter |-> quarter, opening |-> opening,
                     fills |-> fills, open |-> TRUE]
  <2>1. /\ round' = round /\ round > 0 /\ ~disputes[c].open
        /\ disputes' = [disputes EXCEPT ![c] = new]
        /\ openDisputeCounters' = [openDisputeCounters EXCEPT ![round] = @ + 1]
    BY <1>1, <2>0 DEF openDispute, hasNoOpenDispute, clockVars
  <2>2. new.round = round /\ new.open
    OBVIOUS
  <2> HIDE DEF new
  <2>3. \A e \in Clients : disputes'[e] = IF e = c THEN new ELSE disputes[e]
    BY <1>0, <2>1
  <2>4. ASSUME NEW r \in Rounds
        PROVE  openDisputeCounters'[r] = Cardinality(OpenDisputesOf(r)')
    <3>1. CASE r = round
      <4>1. OpenDisputesOf(r)' = OpenDisputesOf(r) \cup {c} /\ c \notin OpenDisputesOf(r)
        BY <2>1, <2>2, <2>3, <3>1 DEF OpenDisputesOf
      <4>2. openDisputeCounters'[r] = openDisputeCounters[r] + 1
        BY <1>0, <2>1, <3>1
      <4>3. IsFiniteSet(OpenDisputesOf(r))
        BY <1>0
      <4>4. Cardinality(OpenDisputesOf(r) \cup {c}) = Cardinality(OpenDisputesOf(r)) + 1
        BY <4>1, <4>3, FS_AddElement
      <4> QED
        BY <1>0, <4>1, <4>2, <4>4
    <3>2. CASE r # round
      <4>1. OpenDisputesOf(r)' = OpenDisputesOf(r)
        BY <2>1, <2>2, <2>3, <3>2 DEF OpenDisputesOf
      <4> QED
        BY <1>0, <2>1, <3>2, <4>1
    <3> QED
      BY <3>1, <3>2
  <2>5. \A e \in Clients : disputes'[e].open => disputes'[e].round \in 1..round'
    BY <1>0, <2>1, <2>2, <2>3 DEF DisputeInv
  <2> QED
    BY <2>4, <2>5 DEF DisputeInv, DisputeCountersMatch
<1>2. ASSUME NEW c \in Clients, NEW fills \in SUBSET Fills,
             NEW approvalOf \in ApprovalsFor(fills), closeDispute(c, fills, approvalOf)
      PROVE  DisputeInv'
  <2> DEFINE d == disputes[c]
             closed == [d EXCEPT !.open = FALSE]
  <2>1. /\ round' = round /\ d.open
        /\ disputes' = [disputes EXCEPT ![c] = closed]
        /\ openDisputeCounters' = [openDisputeCounters EXCEPT ![d.round] = @ - 1]
    BY <1>2 DEF closeDispute, hasValidOpenDispute, clockVars
  <2>2. d \in Dispute
    BY <1>0
  <2>3. closed.round = d.round /\ closed.open = FALSE /\ d.round \in Rounds
    BY <2>2 DEF Dispute
  <2> HIDE DEF closed
  <2>4. \A e \in Clients : disputes'[e] = IF e = c THEN closed ELSE disputes[e]
    BY <1>0, <2>1
  <2>5. ASSUME NEW r \in Rounds
        PROVE  openDisputeCounters'[r] = Cardinality(OpenDisputesOf(r)')
    <3>1. CASE r = d.round
      <4>1. OpenDisputesOf(r)' = OpenDisputesOf(r) \ {c} /\ c \in OpenDisputesOf(r)
        BY <2>1, <2>3, <2>4, <3>1 DEF OpenDisputesOf
      <4>2. openDisputeCounters'[r] = openDisputeCounters[r] - 1
        BY <1>0, <2>1, <3>1
      <4>3. IsFiniteSet(OpenDisputesOf(r))
        BY <1>0
      <4>4. Cardinality(OpenDisputesOf(r) \ {c}) = Cardinality(OpenDisputesOf(r)) - 1
        BY <4>1, <4>3, FS_RemoveElement
      <4> QED
        BY <1>0, <4>1, <4>2, <4>4
    <3>2. CASE r # d.round
      <4>1. OpenDisputesOf(r)' = OpenDisputesOf(r)
        BY <2>1, <2>3, <2>4, <3>2 DEF OpenDisputesOf
      <4> QED
        BY <1>0, <2>1, <2>3, <3>2, <4>1
    <3> QED
      BY <3>1, <3>2
  <2>6. \A e \in Clients : disputes'[e].open => disputes'[e].round \in 1..round'
    BY <1>0, <2>1, <2>3, <2>4 DEF DisputeInv
  <2> QED
    BY <2>5, <2>6 DEF DisputeInv, DisputeCountersMatch
<1>3. CASE UNCHANGED disputeVars
  <2>1. disputes' = disputes /\ openDisputeCounters' = openDisputeCounters
    BY <1>3 DEF disputeVars
  <2>2. 1..round \subseteq 1..round'
    BY <1>0, ClockForward, ConstantsAssumption DEF Rounds
  <2> QED
    BY <2>1, <2>2 DEF DisputeInv, DisputeCountersMatch, OpenDisputesOf
<1> QED
  BY <1>1, <1>2, <1>3, DisputeFootprint
-----------------------------------------------------------------------------
(* Halting. *)

\* What the decision to halt reads.
HaltData == <<round, quarter, halted, tokenCount, committedRounds, openDisputeCounters>>

\* While a halt is due the contract does nothing that a guard protects: time
\* passes, or a call records the halt.
LEMMA StepsWhenDue ==
    ASSUME [AnyNext]_vars, HaltDue
    PROVE  Tick \/ (RecordHalt /\ HaltDue) \/ UNCHANGED HaltData
BY Steps DEF vars, Tick, updateHaltedState, registerToken, commit,
   cancelWithdrawal, closeDispute, depositTokens, initiateWithdrawal, confirmWithdrawal,
   recoverAllFunds, recoverOnChainFundsOnly, openDispute, notHalted, HaltData, clockVars,
   haltVars, tokenVars, commitVars, disputeVars

\* A halt that is due remains so until it is recorded.  The case that needs the
\* invariant is a dispute two rounds old when quarter 0 ends: from quarter 1 on
\* the contract looks at another round, but the current one is not committed.
LEMMA DueStaysDue ==
    ASSUME TypeOK, CommitInv, HaltInv, [AnyNext]_vars, HaltDue
    PROVE  HaltDue' \/ halted'
<1>0. /\ round \in Nat /\ quarter \in Quarters /\ committedRounds \in Nat /\ round > 0
      /\ round \in Rounds /\ openDisputeCounters \in [Rounds -> Nat] /\ ~halted
  BY ConstantsAssumption DEF TypeOK, Rounds, HaltDue
<1>1. CASE Tick
  <2>1. /\ halted' = halted /\ tokenCount' = tokenCount /\ committedRounds' = committedRounds
        /\ openDisputeCounters' = openDisputeCounters
    BY <1>1 DEF Tick, haltVars, tokenVars, commitVars, disputeVars
  <2>2. \/ quarter < 3 /\ quarter' = quarter + 1 /\ round' = round
        \/ quarter = 3 /\ quarter' = 0 /\ round' = round + 1
    BY <1>1 DEF Tick
  <2>3. CASE tokenCount = 0
    BY <1>0, <2>1, <2>2, <2>3 DEF HaltDue
  <2>4. CASE IsMissingCommits
    <3>1. IsMissingCommits'
      BY <1>0, <2>1, <2>2, <2>4 DEF IsMissingCommits, Quarters
    <3> QED
      BY <1>0, <2>1, <2>2, <3>1 DEF HaltDue
  <2>5. CASE HasOpenDisputes
    <3>1. CASE quarter = 0
      <4>1. committedRounds < round
        BY <1>0, <2>5, <3>1 DEF HasOpenDisputes, HaltInv, CommitInv
      <4>2. IsMissingCommits'
        BY <1>0, <2>1, <2>2, <3>1, <4>1 DEF IsMissingCommits
      <4> QED
        BY <1>0, <2>1, <2>2, <4>2 DEF HaltDue
    <3>2. CASE quarter # 0
      <4>1. openDisputeCounters[round - 1] > 0
        BY <2>5, <3>2 DEF HasOpenDisputes
      <4>2. HasOpenDisputes'
        BY <1>0, <2>1, <2>2, <3>2, <4>1 DEF HasOpenDisputes, Quarters
      <4> QED
        BY <1>0, <2>1, <2>2, <4>2 DEF HaltDue
    <3> QED
      BY <3>1, <3>2
  <2> QED
    BY <2>3, <2>4, <2>5 DEF HaltDue
<1>2. CASE RecordHalt /\ HaltDue
  BY <1>2 DEF RecordHalt
<1>3. CASE UNCHANGED HaltData
  BY <1>3 DEF HaltData, HaltDue, IsMissingCommits, HasOpenDisputes
<1> QED
  BY <1>1, <1>2, <1>3, StepsWhenDue

\* The counters of disputes grow in the current round only.
LEMMA CountersOfPastRounds ==
    ASSUME TypeOK, [AnyNext]_vars, NEW r \in Rounds, r # round, openDisputeCounters[r] = 0
    PROVE  openDisputeCounters'[r] = 0
<1>0. openDisputeCounters \in [Rounds -> Nat]
  BY DEF TypeOK
<1>1. ASSUME NEW c \in Clients, NEW fills \in SUBSET Fills, NEW byProof \in BOOLEAN,
             openDispute(c, fills, byProof)
      PROVE  openDisputeCounters'[r] = 0
  BY <1>0, <1>1 DEF openDispute
<1>2. ASSUME NEW c \in Clients, NEW fills \in SUBSET Fills,
             NEW approvalOf \in ApprovalsFor(fills), closeDispute(c, fills, approvalOf)
      PROVE  openDisputeCounters'[r] = 0
  <2>1. /\ openDisputeCounters[disputes[c].round] > 0
        /\ openDisputeCounters' = [openDisputeCounters EXCEPT ![disputes[c].round] = @ - 1]
    BY <1>2 DEF closeDispute
  <2> QED
    BY <1>0, <2>1
<1>3. CASE UNCHANGED disputeVars
  BY <1>3 DEF disputeVars
<1> QED
  BY <1>1, <1>2, <1>3, DisputeFootprint

\* A contract that is sound in quarter 1, 2 or 3 cannot be halted in that round.
LEMMA SoundUntilNextRound ==
    ASSUME TypeOK, [AnyNext]_vars, ~halted, ~HaltDue, round > 0, quarter > 0, round' = round
    PROVE  ~halted' /\ ~HaltDue' /\ quarter' > 0
<1>0. /\ round \in Rounds /\ round \in Nat /\ quarter \in Quarters /\ committedRounds \in Nat
      /\ openDisputeCounters \in [Rounds -> Nat] /\ round - 1 \in Rounds
  BY ConstantsAssumption DEF TypeOK, Rounds
<1>1. tokenCount # 0 /\ ~(committedRounds < round) /\ openDisputeCounters[round - 1] = 0
  BY <1>0 DEF HaltDue, IsMissingCommits, HasOpenDisputes
<1>2. openDisputeCounters'[round - 1] = 0
  BY <1>0, <1>1, CountersOfPastRounds
<1>3. tokenCount' = tokenCount /\ committedRounds' = committedRounds
  <2>1. ASSUME NEW t \in Tokens, registerToken(t) PROVE FALSE
    BY <2>1 DEF registerToken
  <2>2. ASSUME NEW t \in Tokens, NEW root \in Roots, commit(t, root)
        PROVE  FALSE
    BY <2>2 DEF commit
  <2> QED
    BY <2>1, <2>2, CommitFootprint DEF tokenVars, commitVars
<1>4. ~halted'
  BY HaltFootprint DEF RecordHalt, haltVars
<1>5. quarter' > 0
  BY <1>0, ClockFootprint DEF Tick, clockVars, Quarters
<1> QED
  BY <1>0, <1>1, <1>2, <1>3, <1>4, <1>5 DEF HaltDue, IsMissingCommits, HasOpenDisputes

\* A halt stops the clock.
LEMMA HaltStopsTheClock ==
    ASSUME TypeOK, HaltInv, [AnyNext]_vars
    PROVE  (halted => halted') /\ (halted' => haltedRound' = round' /\ round' = round)
<1>1. CASE Tick
  BY <1>1 DEF Tick, haltVars
<1>2. CASE UNCHANGED clockVars
  <2>1. round' = round /\ (halted => haltedRound = round)
    BY <1>2 DEF clockVars, HaltInv
  <2>2. CASE RecordHalt
    <3>1. /\ halted' <=> halted \/ HaltDue
          /\ haltedRound' = IF HaltDue THEN round ELSE haltedRound
      BY <2>2 DEF RecordHalt
    <3> QED
      BY <2>1, <3>1
  <2>3. CASE UNCHANGED haltVars
    BY <2>1, <2>3 DEF haltVars
  <2> QED
    BY <2>2, <2>3, HaltFootprint
<1> QED
  BY <1>1, <1>2, ClockFootprint

\* An open dispute was there before the step or is one of the current round.
LEMMA OpenDisputesAreOld ==
    ASSUME TypeOK, [AnyNext]_vars, NEW c \in Clients, disputes'[c].open
    PROVE  \/ disputes[c].open /\ disputes'[c].round = disputes[c].round
           \/ disputes'[c].round = round /\ UNCHANGED clockVars
<1>0. disputes \in [Clients -> Dispute]
  BY DEF TypeOK
<1>1. ASSUME NEW e \in Clients, NEW fills \in SUBSET Fills, NEW byProof \in BOOLEAN,
             openDispute(e, fills, byProof)
      PROVE  \/ disputes[c].open /\ disputes'[c].round = disputes[c].round
             \/ disputes'[c].round = round /\ UNCHANGED clockVars
  <2>1. CASE e = c
    BY <1>0, <1>1, <2>1 DEF openDispute, clockVars
  <2>2. CASE e # c
    BY <1>0, <1>1, <2>2 DEF openDispute
  <2> QED
    BY <2>1, <2>2
<1>2. ASSUME NEW e \in Clients, NEW fills \in SUBSET Fills,
             NEW approvalOf \in ApprovalsFor(fills), closeDispute(e, fills, approvalOf)
      PROVE  disputes[c].open /\ disputes'[c].round = disputes[c].round
  <2>1. disputes' = [disputes EXCEPT ![e].open = FALSE]
    BY <1>2 DEF closeDispute
  <2>2. disputes[e] \in Dispute
    BY <1>0
  <2>3. e # c
    BY <1>0, <2>1, <2>2 DEF Dispute
  <2> QED
    BY <1>0, <2>1, <2>3
<1>3. CASE UNCHANGED disputeVars
  BY <1>3 DEF disputeVars
<1> QED
  BY <1>1, <1>2, <1>3, DisputeFootprint

\* A round is committed only when the round before the last one has no open
\* dispute, and none is opened in that round any more.
LEMMA CommittedAfterDisputes ==
    ASSUME TypeOK, CommitInv, HaltInv, [AnyNext]_vars,
           quarter' = 0, round' >= 2, committedRounds' = round'
    PROVE  openDisputeCounters'[round' - 2] = 0
<1>0. /\ round \in Rounds /\ round \in Nat /\ committedRounds \in Nat /\ MaxRound \in Nat
      /\ committedRounds <= round /\ quarter \in Quarters
  BY ConstantsAssumption DEF TypeOK, CommitInv, Rounds
<1>1. ASSUME round' = round, quarter = 0, openDisputeCounters[round - 2] = 0
      PROVE  openDisputeCounters'[round' - 2] = 0
  <2>1. round - 2 \in Rounds /\ round - 2 # round
    BY <1>0, <1>1 DEF Rounds
  <2> QED
    BY <1>1, <2>1, CountersOfPastRounds
<1>2. ASSUME NEW t \in Tokens, NEW root \in Roots, commit(t, root)
      PROVE  openDisputeCounters'[round' - 2] = 0
  <2>1. round' = round /\ round > 0 /\ quarter = 0 /\ ~halted /\ ~HaltDue
    BY <1>2 DEF commit, notHalted, clockVars
  <2>2. openDisputeCounters[round - 2] = 0
    <3>1. round - 2 \in Rounds /\ openDisputeCounters \in [Rounds -> Nat]
      BY <1>0, <2>1 DEF TypeOK, Rounds
    <3> QED
      BY <1>0, <2>1, <3>1 DEF HaltDue, HasOpenDisputes
  <2> QED
    BY <1>1, <2>1, <2>2
<1>3. ASSUME NEW t \in Tokens, registerToken(t)
      PROVE  openDisputeCounters'[round' - 2] = 0
  BY <1>3 DEF registerToken, clockVars
<1>4. CASE UNCHANGED <<tokenVars, commitVars>>
  <2>1. committedRounds' = committedRounds
    BY <1>4 DEF commitVars
  <2>2. CASE Tick
    BY <1>0, <2>1, <2>2 DEF Tick, Quarters
  <2>3. CASE UNCHANGED clockVars
    BY <1>0, <1>1, <2>1, <2>3 DEF clockVars, HaltInv
  <2> QED
    BY <2>2, <2>3, ClockFootprint
<1> QED
  BY <1>2, <1>3, <1>4, CommitFootprint

\* What should halt the contract is not forgotten.
LEMMA OverdueStep ==
    ASSUME TypeOK, TypeOK', CommitInv, DisputeInv, DisputeInv', HaltInv, [AnyNext]_vars
    PROVE  OverdueIsDue'
<1>1. CASE halted \/ HaltDue
  BY <1>1, DueStaysDue, HaltStopsTheClock DEF OverdueIsDue
<1>2. CASE ~halted /\ ~HaltDue
  <2> SUFFICES ASSUME ~halted', ~HaltDue' PROVE OverdueIsDue'
    BY DEF OverdueIsDue
  <2>0. /\ round \in Nat /\ quarter \in Quarters
        /\ round' \in Nat /\ round' \in Rounds /\ quarter' \in Quarters
        /\ committedRounds' \in Nat /\ openDisputeCounters' \in [Rounds -> Nat]
        /\ disputes' \in [Clients -> Dispute]
    BY ConstantsAssumption DEF TypeOK, Rounds
  <2>1. /\ round' - 1 <= committedRounds'
        /\ quarter' = 0 \/ round' <= committedRounds'
    <3>1. round' > 0 => ~IsMissingCommits'
      BY DEF HaltDue
    <3> DEFINE r == round'
               q == quarter'
               committed == committedRounds'
    <3>2. r \in Nat /\ q \in Nat /\ committed \in Nat
      BY <2>0 DEF Quarters
    <3>3. r > 0 => ~(IF q = 0 THEN committed < r - 1 ELSE committed < r)
      BY <3>1 DEF IsMissingCommits
    <3> HIDE DEF r, q, committed
    <3>4. r - 1 <= committed /\ (q = 0 \/ r <= committed)
      BY <3>2, <3>3
    <3> QED
      BY <3>4 DEF r, q, committed
  <2>2. ASSUME NEW c \in Clients, NEW d \in Rounds, disputes'[c].open, disputes'[c].round = d
        PROVE  round' <= d \/ (round' = d + 1 /\ quarter' = 0)
    <3>1. d \in Nat /\ d \in 1..round'
      BY <2>2, ConstantsAssumption DEF DisputeInv, Rounds
    <3>2. openDisputeCounters'[d] # 0
      <4>1. OpenDisputesOf(d)' \in SUBSET Clients /\ c \in OpenDisputesOf(d)'
        BY <2>2 DEF OpenDisputesOf
      <4>2. IsFiniteSet(OpenDisputesOf(d)')
        BY <4>1, ConstantsAssumption, FS_Subset
      <4>3. openDisputeCounters'[d] = Cardinality(OpenDisputesOf(d)')
        BY DEF DisputeInv, DisputeCountersMatch
      <4>4. Cardinality(OpenDisputesOf(d)') = 0 <=> OpenDisputesOf(d)' = {}
        BY <4>2, FS_EmptySet
      <4> QED
        BY <4>1, <4>3, <4>4
    <3>3. /\ quarter' # 0 => d # round' - 1
          /\ (quarter' = 0 /\ round' > 1) => d # round' - 2
      <4>1. ~HasOpenDisputes'
        BY <2>0, <3>1 DEF HaltDue
      <4>2. openDisputeCounters'[d] > 0
        BY <2>0, <3>2
      <4> QED
        BY <2>0, <3>1, <4>1, <4>2 DEF HasOpenDisputes
    <3>4. CASE d = round /\ UNCHANGED clockVars
      BY <2>0, <3>1, <3>4 DEF clockVars
    <3>5. CASE disputes[c].open /\ d = disputes[c].round
      <4>1. round <= d \/ (round = d + 1 /\ quarter = 0)
        BY <1>2, <3>5 DEF HaltInv, OverdueIsDue
      <4>2. CASE Tick
        <5>1. CASE quarter' = quarter + 1 /\ round' = round
          BY <2>0, <3>1, <3>3, <4>1, <5>1 DEF Quarters
        <5>2. CASE quarter' = 0 /\ round' = round + 1 /\ quarter = 3
          BY <2>0, <3>1, <4>1, <5>2
        <5> QED
          BY <4>2, <5>1, <5>2 DEF Tick
      <4>3. CASE UNCHANGED clockVars
        BY <4>1, <4>3 DEF clockVars
      <4> QED
        BY <4>2, <4>3, ClockFootprint
    <3> QED
      BY <2>2, <3>4, <3>5, OpenDisputesAreOld
  <2>3. \A c \in Clients : disputes'[c].round \in Rounds
    BY <2>0 DEF Dispute
  <2>4. \A c \in Clients : disputes'[c].open =>
            \/ round' <= disputes'[c].round
            \/ round' = disputes'[c].round + 1 /\ quarter' = 0
    BY <2>2, <2>3
  <2> QED
    BY <2>1, <2>4 DEF OverdueIsDue
<1> QED
  BY <1>1, <1>2

\* The clock stays where the contract halted, and nothing overdue is forgotten.
LEMMA HaltStep ==
    ASSUME TypeOK, TypeOK', CommitInv, DisputeInv, DisputeInv', HaltInv, [AnyNext]_vars
    PROVE  HaltInv'
BY HaltStopsTheClock, CommittedAfterDisputes, OverdueStep DEF HaltInv

-----------------------------------------------------------------------------
(* Payments. *)

\* A request counts as paid when it was before, or when it is confirmed now.
LEMMA PaidByConfirmation ==
    ASSUME TypeOK, PaymentInv, [AnyNext]_vars,
           NEW w \in Rounds, NEW t \in Tokens, NEW c \in Clients
    PROVE  /\ clientRequestedWithdrawals'[w][t][c].amount > 0 =>
                \/ clientRequestedWithdrawals[w][t][c].amount > 0
                \/ w = round /\ round > 0
           /\ activeWithdrawalRounds'[t][c] \in {0, round, activeWithdrawalRounds[t][c]}
           /\ PaidOut(w, t, c)' =>
                \/ PaidOut(w, t, c)
                \/ activeWithdrawalRounds[t][c] = w /\ confirmWithdrawal(c, t)
<1> DEFINE Goal ==
      /\ clientRequestedWithdrawals'[w][t][c].amount > 0 =>
           \/ clientRequestedWithdrawals[w][t][c].amount > 0
           \/ w = round /\ round > 0
      /\ activeWithdrawalRounds'[t][c] \in {0, round, activeWithdrawalRounds[t][c]}
      /\ PaidOut(w, t, c)' =>
           \/ PaidOut(w, t, c)
           \/ activeWithdrawalRounds[t][c] = w /\ confirmWithdrawal(c, t)
<1>0. /\ clientRequestedWithdrawals \in
            [Rounds -> [Tokens -> [Clients -> [amount : Nat, openingBalance : Nat]]]]
      /\ activeWithdrawalRounds \in [Tokens -> [Clients -> Rounds]]
      /\ round \in Rounds
  BY DEF TypeOK
<1>1. ASSUME NEW e \in Clients, NEW u \in Tokens, NEW amount \in Amounts(u),
             initiateWithdrawal(e, u, amount)
      PROVE  Goal
  <2>0. PICK balance : clientRequestedWithdrawals'
         = [clientRequestedWithdrawals EXCEPT ![round][u][e] =
               [amount |-> amount, openingBalance |-> balance]]
    BY <1>1 DEF initiateWithdrawal
  <2> DEFINE request == [amount |-> amount, openingBalance |-> balance]
  <2>1. /\ clientRequestedWithdrawals'
             = [clientRequestedWithdrawals EXCEPT ![round][u][e] = request]
        /\ activeWithdrawalRounds' = [activeWithdrawalRounds EXCEPT ![u][e] = round]
        /\ activeWithdrawalRounds[u][e] = 0 /\ round > 0
    BY <2>0, <1>1 DEF initiateWithdrawal
  <2> HIDE DEF request
  <2>2. CASE u = t /\ e = c
    <3>1. activeWithdrawalRounds'[t][c] = round
      BY <1>0, <2>1, <2>2
    <3>2. CASE w = round
      BY <2>1, <3>1, <3>2 DEF PaidOut
    <3>3. CASE w # round
      <4>1. clientRequestedWithdrawals'[w][t][c] = clientRequestedWithdrawals[w][t][c]
        BY <1>0, <2>1, <3>3
      <4>2. clientRequestedWithdrawals[w][t][c].amount > 0 => w # 0
        BY <1>0 DEF PaymentInv
      <4> QED
        BY <2>1, <2>2, <3>1, <4>1, <4>2 DEF PaidOut
    <3> QED
      BY <3>2, <3>3
  <2>3. CASE ~ (u = t /\ e = c)
    <3>1. /\ clientRequestedWithdrawals'[w][t][c] = clientRequestedWithdrawals[w][t][c]
          /\ activeWithdrawalRounds'[t][c] = activeWithdrawalRounds[t][c]
      BY <1>0, <2>1, <2>3
    <3> QED
      BY <3>1 DEF PaidOut
  <2> QED
    BY <2>2, <2>3
<1>2. ASSUME NEW e \in Clients, NEW u \in Tokens, confirmWithdrawal(e, u)
      PROVE  Goal
  <2>1. /\ clientRequestedWithdrawals' = clientRequestedWithdrawals
        /\ activeWithdrawalRounds' = [activeWithdrawalRounds EXCEPT ![u][e] = 0]
    BY <1>2 DEF confirmWithdrawal, EndRequest
  <2>2. CASE u = t /\ e = c
    <3>1. activeWithdrawalRounds'[t][c] = 0
      BY <1>0, <2>1, <2>2
    <3> QED
      BY <1>2, <2>1, <2>2, <3>1 DEF PaidOut
  <2>3. CASE ~ (u = t /\ e = c)
    <3>1. activeWithdrawalRounds'[t][c] = activeWithdrawalRounds[t][c]
      BY <1>0, <2>1, <2>3
    <3> QED
      BY <2>1, <3>1 DEF PaidOut
  <2> QED
    BY <2>2, <2>3
<1>3. ASSUME NEW e \in Clients, NEW u \in Tokens, NEW approvals \in SUBSET Approvals,
             cancelWithdrawal(e, u, approvals)
      PROVE  Goal
  <2> DEFINE active == activeWithdrawalRounds[u][e]
             cleared == [clientRequestedWithdrawals[active][u][e] EXCEPT !.amount = 0]
  <2>1. /\ clientRequestedWithdrawals'
             = [clientRequestedWithdrawals EXCEPT ![active][u][e] = cleared]
        /\ activeWithdrawalRounds' = [activeWithdrawalRounds EXCEPT ![u][e] = 0]
    BY <1>3 DEF cancelWithdrawal, ClearRequest, EndRequest
  <2>2. active \in Rounds
    BY <1>0
  <2>3. clientRequestedWithdrawals[active][u][e] \in [amount : Nat, openingBalance : Nat]
    BY <1>0, <2>2
  <2>4. ~ (cleared.amount > 0)
    BY <2>3
  <2> HIDE DEF cleared
  <2>5. CASE u = t /\ e = c
    <3>1. activeWithdrawalRounds'[t][c] = 0
      BY <1>0, <2>1, <2>5
    <3>2. CASE w = active
      <4>1. clientRequestedWithdrawals'[w][t][c] = cleared
        BY <1>0, <2>1, <2>2, <2>5, <3>2
      <4> QED
        BY <2>4, <3>1, <4>1 DEF PaidOut
    <3>3. CASE w # active
      <4>1. clientRequestedWithdrawals'[w][t][c] = clientRequestedWithdrawals[w][t][c]
        BY <1>0, <2>1, <2>2, <3>3
      <4> QED
        BY <2>5, <3>1, <3>3, <4>1 DEF PaidOut
    <3> QED
      BY <3>2, <3>3
  <2>6. CASE ~ (u = t /\ e = c)
    <3>1. /\ clientRequestedWithdrawals'[w][t][c] = clientRequestedWithdrawals[w][t][c]
          /\ activeWithdrawalRounds'[t][c] = activeWithdrawalRounds[t][c]
      <4> HIDE DEF active
      <4> QED
        BY <1>0, <2>1, <2>2, <2>6
    <3> QED
      BY <3>1 DEF PaidOut
  <2> QED
    BY <2>5, <2>6
<1>4. CASE UNCHANGED withdrawalVars
  BY <1>4 DEF withdrawalVars, PaidOut
<1> QED
  BY <1>1, <1>2, <1>3, <1>4, WithdrawalFootprint

\* A request confirmed now is three rounds old, or two if the contract is sound and
\* has left quarter 0.
LEMMA ConfirmedInTime ==
    ASSUME TypeOK, HaltInv, NEW t \in Tokens, NEW c \in Clients, confirmWithdrawal(c, t)
    PROVE  \/ activeWithdrawalRounds[t][c] <= round - 3
           \/ /\ activeWithdrawalRounds[t][c] <= round - 2
              /\ ~halted /\ ~HaltDue /\ quarter > 0 /\ round > 0
<1>1. /\ activeWithdrawalRounds[t][c] \in Rounds /\ round \in Rounds /\ quarter \in Quarters
      /\ activeWithdrawalRounds[t][c] <= lastConfirmedRoundForWithdrawals
      /\ MaxRound \in Nat /\ (halted => haltedRound = round)
  BY ConstantsAssumption DEF TypeOK, confirmWithdrawal, HaltInv
<1> QED
  BY <1>1 DEF lastConfirmedRoundForWithdrawals, getCurrentRound, getCurrentQuarter, Rounds,
     Quarters

\* No payment of a request becomes one that a recovery could repeat: the halt that
\* would make it so cannot happen in the quarters in which it is paid.
LEMMA PaymentStep ==
    ASSUME TypeOK, TypeOK', HaltInv, PaymentInv, [AnyNext]_vars
    PROVE  PaymentInv'
<1> SUFFICES ASSUME NEW w \in Rounds, NEW t \in Tokens, NEW c \in Clients
             PROVE  /\ clientRequestedWithdrawals'[w][t][c].amount > 0 => w \in 1..round'
                    /\ activeWithdrawalRounds'[t][c] <= round'
                    /\ PaidOut(w, t, c)' =>
                          \/ w + 3 <= round'
                          \/ w + 2 <= round' /\ ~halted' /\ ~HaltDue' /\ quarter' > 0
  BY DEF PaymentInv
<1>0. /\ round \in Nat /\ round' \in Nat /\ round <= round' /\ w \in Nat
      /\ activeWithdrawalRounds[t][c] \in Nat
  <2>1. Rounds \subseteq Nat
    BY ConstantsAssumption DEF Rounds
  <2>2. round \in Rounds /\ activeWithdrawalRounds[t][c] \in Rounds
    BY DEF TypeOK
  <2>3. round' \in Rounds /\ round <= round'
    BY ClockForward
  <2> QED
    BY <2>1, <2>2, <2>3
<1>1. clientRequestedWithdrawals'[w][t][c].amount > 0 => w \in 1..round'
  <2> DEFINE r == round'
  <2>1. r \in Nat /\ round <= r
    BY <1>0
  <2>2. w \in 1..round => w \in 1..r
    <3> HIDE DEF r
    <3> QED
      BY <1>0, <2>1
  <2>3. clientRequestedWithdrawals[w][t][c].amount > 0 => w \in 1..round
    BY DEF PaymentInv
  <2>4. w = round /\ round > 0 => w \in 1..round
    BY <1>0
  <2> QED
    BY <2>2, <2>3, <2>4, PaidByConfirmation
<1>2. activeWithdrawalRounds'[t][c] <= round'
  <2>1. activeWithdrawalRounds[t][c] <= round
    BY DEF PaymentInv
  <2>2. activeWithdrawalRounds'[t][c] \in {0, round, activeWithdrawalRounds[t][c]}
    BY PaidByConfirmation
  <2> QED
    BY <1>0, <2>1, <2>2
<1>3. ASSUME PaidOut(w, t, c)'
      PROVE  \/ w + 3 <= round'
             \/ w + 2 <= round' /\ ~halted' /\ ~HaltDue' /\ quarter' > 0
  <2>1. \/ w + 3 <= round
        \/ w + 2 <= round /\ ~halted /\ ~HaltDue /\ quarter > 0
    <3>1. CASE PaidOut(w, t, c)
      BY <3>1 DEF PaymentInv
    <3>2. CASE activeWithdrawalRounds[t][c] = w /\ confirmWithdrawal(c, t)
      BY <1>0, <3>2, ConfirmedInTime
    <3> QED
      BY <1>3, <3>1, <3>2, PaidByConfirmation
  <2> DEFINE r == round'
  <2>2. r \in Nat /\ round <= r
    BY <1>0
  <2>3. /\ w + 3 <= round => w + 3 <= r
        /\ r # round /\ w + 2 <= round => w + 3 <= r
    <3> HIDE DEF r
    <3> QED
      BY <1>0, <2>2
  <2>4. CASE w + 3 <= round
    BY <2>3, <2>4
  <2>5. CASE round' # round /\ w + 2 <= round
    BY <2>3, <2>5
  <2>6. CASE round' = round /\ w + 2 <= round /\ ~halted /\ ~HaltDue /\ quarter > 0
    BY <1>0, <2>6, SoundUntilNextRound
  <2> QED
    BY <2>1, <2>4, <2>5, <2>6
<1> QED
  BY <1>1, <1>2, <1>3

-----------------------------------------------------------------------------
(* The inductive invariant and what follows from it. *)

\* The invariant holds when the contract is deployed.
LEMMA InitIInv == Init => IInv
<1> SUFFICES ASSUME Init PROVE IInv
  OBVIOUS
<1>0. /\ round = 0 /\ quarter = 0 /\ ~halted /\ tokenCount = 0 /\ committedRounds = 0
      /\ registeredTokens = {}
      /\ \A r \in Rounds, t \in Tokens : commits[r][t] = NoRoot
      /\ \A r \in Rounds : commitCounters[r] = 0 /\ openDisputeCounters[r] = 0
      /\ \A c \in Clients : ~disputes[c].open
      /\ MaxRound \in Nat
  BY ConstantsAssumption DEF Init, NoDispute
<1>1. TypeOK
  BY TypeCorrectAtStart
<1>2. CommitInv
  <2>1. tokenCount = Cardinality(registeredTokens)
    BY <1>0, FS_EmptySet
  <2>2. \A r \in Rounds : commitCounters[r] = Cardinality(CommittedIn(r))
    <3>1. \A r \in Rounds : CommittedIn(r) = {}
      BY <1>0 DEF CommittedIn
    <3> QED
      BY <1>0, <3>1, FS_EmptySet
  <2>3. CommitsComplete
    BY <1>0 DEF CommitsComplete
  <2> QED
    BY <1>0, <2>1, <2>2, <2>3 DEF CommitInv
<1>3. ClosedBooks
  BY <1>0 DEF ClosedBooks, Rounds
<1>4. DisputeInv
  <2>1. \A r \in Rounds : OpenDisputesOf(r) = {}
    BY <1>0 DEF OpenDisputesOf
  <2> QED
    BY <1>0, <2>1, FS_EmptySet DEF DisputeInv, DisputeCountersMatch
<1>5. HaltInv
  BY <1>0 DEF HaltInv, OverdueIsDue
<1>6. PaymentInv
  BY ConstantsAssumption DEF Init, PaymentInv, PaidOut, Rounds
<1> QED
  BY <1>1, <1>2, <1>3, <1>4, <1>5, <1>6 DEF IInv

\* Every transaction and every block preserve the invariant.
LEMMA StepIInv == IInv /\ [AnyNext]_vars => IInv'
<1> SUFFICES ASSUME IInv, [AnyNext]_vars PROVE IInv'
  OBVIOUS
<1>1. TypeOK /\ CommitInv /\ ClosedBooks /\ DisputeInv /\ HaltInv /\ PaymentInv
  BY DEF IInv
<1>2. TypeOK'
  BY <1>1, TypeStep
<1>3. CommitInv'
  BY <1>1, CommitStep
<1>4. ClosedBooks'
  BY <1>1, ClosedBooksStep
<1>5. DisputeInv'
  BY <1>1, DisputeStep
<1>6. HaltInv'
  BY <1>1, <1>2, <1>5, HaltStep
<1>7. PaymentInv'
  BY <1>1, <1>2, PaymentStep
<1> QED
  BY <1>2, <1>3, <1>4, <1>5, <1>6, <1>7 DEF IInv

\* The inductive invariant holds of every behaviour of the contract.
THEOREM Inductive == Spec => []IInv
BY InitIInv, StepIInv, NextIsAnyNext, PTL DEF Spec

\* committedRounds is exact: the rounds up to it, and no other, are complete.
THEOREM CommitsAreComplete == Spec => []CommitsComplete
<1>1. IInv => CommitsComplete
  BY DEF IInv, CommitInv
<1> QED
  BY <1>1, Inductive, PTL

\* A committed opening balance is final: no later deposit, request or cancellation
\* changes what it was computed from.
THEOREM BooksStayClosed == Spec => []ClosedBooks
<1>1. IInv => ClosedBooks
  BY DEF IInv
<1> QED
  BY <1>1, Inductive, PTL

\* The counter of a round is the number of its open disputes.
THEOREM DisputeCountersAreRight == Spec => []DisputeCountersMatch
<1>1. IInv => DisputeCountersMatch
  BY DEF IInv, DisputeInv
<1> QED
  BY <1>1, Inductive, PTL

\* No reason to halt is forgotten because the rounds went by.
THEOREM NothingOverdueForgotten == Spec => []OverdueIsDue
<1>1. IInv => OverdueIsDue
  BY DEF IInv, HaltInv
<1> QED
  BY <1>1, Inductive, PTL

\* A halt that is due stays due until it is recorded, whatever anybody calls.
THEOREM DueUntilRecorded == Spec => HaltDueIsStable
<1>1. IInv /\ [AnyNext]_vars => [HaltDue => HaltDue' \/ halted']_vars
  BY DueStaysDue DEF IInv
<1> QED
  BY <1>1, Inductive, NextIsAnyNext, PTL DEF Spec, HaltDueIsStable

\* Nothing that recoverAllFunds pays has been paid by confirmWithdrawal before.
THEOREM NothingPaidTwice == Spec => []NoDoublePayment
<1>1. ASSUME IInv PROVE NoDoublePayment
  <2> SUFFICES ASSUME halted, NEW w \in Rounds, NEW t \in Tokens, NEW c \in Clients,
                      PaidOut(w, t, c)
               PROVE  w < haltedRound - 2
    BY DEF NoDoublePayment
  <2>1. w + 3 <= round /\ haltedRound = round
    BY <1>1 DEF IInv, PaymentInv, HaltInv
  <2>2. w \in Nat /\ round \in Nat
    BY <1>1, ConstantsAssumption DEF IInv, TypeOK, Rounds
  <2> QED
    BY <2>1, <2>2
<1>2. IInv => NoDoublePayment
  BY <1>1
<1> QED
  BY <1>2, Inductive, PTL
-----------------------------------------------------------------------------
(* Disputes take from a client only what it approved. *)

LEMMA SoldIs ==
    ASSUME NEW S, NEW As
    PROVE  LET ofS == {r \in S : r.sellAsset \in As}
           IN  Sold(S, As) = SumFunctionOnSet([r \in ofS |-> r.sellAmount], ofS)
BY ZenonT(120)
   DEF Sold, Sum, MapThenSumSet, SumFunctionOnSet, FoldFunctionOnSet, MapThenFoldSet

LEMMA BoughtIs ==
    ASSUME NEW S, NEW As
    PROVE  LET ofS == {r \in S : r.buyAsset \in As}
           IN  Bought(S, As) = SumFunctionOnSet([r \in ofS |-> r.buyAmount], ofS)
BY ZenonT(120)
   DEF Bought, Sum, MapThenSumSet, SumFunctionOnSet, FoldFunctionOnSet, MapThenFoldSet

\* What a set of fills or approvals buys or sells is no less than what some of
\* them do.
LEMMA SoldBySome ==
    ASSUME NEW S, IsFiniteSet(S), \A x \in S : x.sellAmount \in Nat, NEW T \in SUBSET S,
           NEW As
    PROVE  Sold(S, As) \in Nat /\ Sold(T, As) \in Nat /\ Sold(T, As) <= Sold(S, As)
<1> DEFINE ofS == {r \in S : r.sellAsset \in As}
           ofT == {r \in T : r.sellAsset \in As}
           f == [r \in ofS |-> r.sellAmount]
           g == [r \in ofT |-> r.sellAmount]
<1>1. Sold(S, As) = SumFunctionOnSet(f, ofS) /\ Sold(T, As) = SumFunctionOnSet(g, ofT)
  BY SoldIs
<1>2. /\ IsFiniteSet(ofS) /\ IsFiniteSet(ofT) /\ ofT \in SUBSET ofS
      /\ \A x \in ofS : f[x] \in Nat
      /\ \A x \in ofT : g[x] \in Int /\ g[x] = f[x]
  <2>1. IsFiniteSet(ofS) /\ IsFiniteSet(ofT)
    BY FS_Subset
  <2> QED
    BY <2>1
<1> HIDE DEF f, g, ofS, ofT
<1>3. SumFunctionOnSet(f, ofS) \in Nat
  BY <1>2, SumNat
<1>4. SumFunctionOnSet(f, ofT) <= SumFunctionOnSet(f, ofS)
  BY <1>2, SumSubset
<1>5. SumFunctionOnSet(g, ofT) = SumFunctionOnSet(f, ofT)
  BY <1>2, SumEqual
<1>6. SumFunctionOnSet(f, ofT) \in Nat
  BY <1>2, SumNat
<1> QED
  BY <1>1, <1>3, <1>4, <1>5, <1>6

LEMMA BoughtBySome ==
    ASSUME NEW S, IsFiniteSet(S), \A x \in S : x.buyAmount \in Nat, NEW T \in SUBSET S,
           NEW As
    PROVE  Bought(S, As) \in Nat /\ Bought(T, As) \in Nat /\ Bought(T, As) <= Bought(S, As)
<1> DEFINE ofS == {r \in S : r.buyAsset \in As}
           ofT == {r \in T : r.buyAsset \in As}
           f == [r \in ofS |-> r.buyAmount]
           g == [r \in ofT |-> r.buyAmount]
<1>1. Bought(S, As) = SumFunctionOnSet(f, ofS) /\ Bought(T, As) = SumFunctionOnSet(g, ofT)
  BY BoughtIs
<1>2. /\ IsFiniteSet(ofS) /\ IsFiniteSet(ofT) /\ ofT \in SUBSET ofS
      /\ \A x \in ofS : f[x] \in Nat
      /\ \A x \in ofT : g[x] \in Int /\ g[x] = f[x]
  <2>1. IsFiniteSet(ofS) /\ IsFiniteSet(ofT)
    BY FS_Subset
  <2> QED
    BY <2>1
<1> HIDE DEF f, g, ofS, ofT
<1>3. SumFunctionOnSet(f, ofS) \in Nat
  BY <1>2, SumNat
<1>4. SumFunctionOnSet(f, ofT) <= SumFunctionOnSet(f, ofS)
  BY <1>2, SumSubset
<1>5. SumFunctionOnSet(g, ofT) = SumFunctionOnSet(f, ofT)
  BY <1>2, SumEqual
<1>6. SumFunctionOnSet(f, ofT) \in Nat
  BY <1>2, SumNat
<1> QED
  BY <1>1, <1>3, <1>4, <1>5, <1>6

\* The accounting of a dispute, for one account: the balance it closes with is not
\* below what was shown, plus what the shown fills bought, less all the approvals.
LEMMA AccountingBound ==
    ASSUME NEW start, NEW fills \in SUBSET Fills, NEW approvalOf \in [fills -> Approvals],
           NEW withdrawn, NEW closing, NEW counted, NEW t \in DOMAIN counted,
           checkDisputeAccounting(start, fills, approvalOf, withdrawn, closing, counted),
           start[t] \in Nat, withdrawn[t] \in Nat,
           NEW shown \in SUBSET fills, NEW sellable \in SUBSET Approvals,
           \A f \in fills : approvalOf[f] \in sellable
    PROVE  closing[t] >= start[t] - withdrawn[t]
                            + Bought(shown, counted[t]) - Sold(sellable, counted[t])
<1> DEFINE used == {approvalOf[f] : f \in {f \in fills :
                       \A g \in fills : g.approvalId = f.approvalId => f.id <= g.id}}
<1>1. /\ IsFiniteSet(fills) /\ \A x \in fills : x.sellAmount \in Nat /\ x.buyAmount \in Nat
      /\ IsFiniteSet(sellable) /\ \A x \in sellable : x.sellAmount \in Nat
  <2>1. IsFiniteSet(fills) /\ IsFiniteSet(sellable)
    BY ConstantsAssumption, FS_Subset
  <2> QED
    BY <2>1, ConstantsAssumption DEF Fill, Approval
<1>2. Sold(fills, counted[t]) <= Sold(used, counted[t])
  BY DEF checkDisputeAccounting, WithinApprovals
<1>3. used \in SUBSET sellable
  OBVIOUS
<1>4. closing[t] = BalanceAfter(start, fills, counted, t) - withdrawn[t]
  BY DEF checkDisputeAccounting
<1> HIDE DEF used
<1>5. Sold(used, counted[t]) <= Sold(sellable, counted[t]) /\ Sold(used, counted[t]) \in Nat /\ Sold(sellable, counted[t]) \in Nat
  BY <1>1, <1>3, SoldBySome
<1>6. Sold(fills, counted[t]) \in Nat
  BY <1>1, SoldBySome
<1>7. Bought(shown, counted[t]) <= Bought(fills, counted[t]) /\ Bought(shown, counted[t]) \in Nat /\ Bought(fills, counted[t]) \in Nat
  BY <1>1, BoughtBySome
<1> QED
  BY <1>2, <1>4, <1>5, <1>6, <1>7 DEF BalanceAfter

\* What a dispute was settled from cannot change once the round after the disputed
\* one has its root.
LEMMA SettledForGood ==
    ASSUME TypeOK, CommitInv, [AnyNext]_vars,
           NEW r \in 1..MaxRound, NEW t \in Tokens, commits[r][t] # NoRoot, NEW c \in Clients
    PROVE  /\ commits'[r][t] = commits[r][t]
           /\ clientDeposits'[r - 1][t][c] = clientDeposits[r - 1][t][c]
           /\ clientRequestedWithdrawals'[r - 1][t][c].amount
                 = clientRequestedWithdrawals[r - 1][t][c].amount
<1>1. r \in Int /\ r - 1 \in Rounds /\ r \in Rounds /\ r <= round /\ round \in Rounds
  BY ConstantsAssumption DEF Rounds, CommitInv, TypeOK
<1>2. commits'[r][t] = commits[r][t]
  <2>1. CASE \E u \in Tokens : \E root \in Roots : commit(u, root)
    BY <2>1, <1>1 DEF commit, nothingCommitted, TypeOK
  <2>2. CASE \E u \in Tokens : registerToken(u)
    BY <2>2 DEF registerToken, commitVars
  <2> QED
    BY <2>1, <2>2, CommitFootprint DEF commitVars
<1>3. clientDeposits'[r - 1][t][c] = clientDeposits[r - 1][t][c]
  <2>1. CASE \E e \in Clients, u \in Tokens : \E amount \in Amounts(u) :
                depositTokens(e, u, amount)
    BY <2>1, <1>1 DEF depositTokens, TypeOK
  <2> QED
    BY <2>1, DepositFootprint DEF depositVars
<1>4. clientRequestedWithdrawals'[r - 1][t][c].amount
         = clientRequestedWithdrawals[r - 1][t][c].amount
  <2>1. CASE \E e \in Clients, u \in Tokens : \E amount \in Amounts(u) :
                initiateWithdrawal(e, u, amount)
    BY <2>1, <1>1 DEF initiateWithdrawal, TypeOK
  <2>2. CASE \E e \in Clients, u \in Tokens : confirmWithdrawal(e, u)
    BY <2>2 DEF confirmWithdrawal
  <2>3. ASSUME NEW e \in Clients, NEW u \in Tokens, NEW approvals \in SUBSET Approvals,
               cancelWithdrawal(e, u, approvals)
        PROVE  clientRequestedWithdrawals'[r - 1][t][c].amount
                  = clientRequestedWithdrawals[r - 1][t][c].amount
    <3> DEFINE w == activeWithdrawalRounds[u][e]
    <3>1. /\ canCancelWithdrawal(w, u) /\ w \in Rounds
          /\ clientRequestedWithdrawals' =
                [clientRequestedWithdrawals EXCEPT ![w][u][e].amount = 0]
      BY <2>3 DEF cancelWithdrawal, ClearRequest, TypeOK
    <3>2. ~ (u = t /\ w = r - 1)
      BY <3>1, <1>1 DEF canCancelWithdrawal
    <3> HIDE DEF w
    <3> QED
      BY <3>1, <3>2, <1>1 DEF TypeOK
  <2> QED
    BY <2>1, <2>2, <2>3, WithdrawalFootprint DEF withdrawalVars
<1> QED
  BY <1>2, <1>3, <1>4

LEMMA DisputesAtStart == Init => IndexInv /\ SettledInv /\ DisputeTakesOnlyApproved
BY ConstantsAssumption DEF Init, IndexInv, SettledInv, DisputeTakesOnlyApproved, NoDispute, Rounds

\* The dispute of a client other than the one that opens or closes one stays.
LEMMA SettledStep ==
    ASSUME IInv, IInv', SettledInv, [AnyNext]_vars
    PROVE  SettledInv'
<1> SUFFICES ASSUME NEW c \in Clients
             PROVE  /\ disputes'[c].round <= round'
                    /\ (disputes'[c].round > 0 /\ ~disputes'[c].open) =>
                          \A t \in registeredTokens' : commits'[disputes'[c].round][t] # NoRoot
  BY DEF SettledInv
<1> DEFINE d == disputes[c]
<1>1. /\ round <= round' /\ round \in Int /\ round' \in Int
      /\ d \in Dispute /\ d.round \in Rounds /\ d.round \in Int /\ d.round <= round
      /\ (d.round > 0 /\ ~d.open) => \A t \in registeredTokens : commits[d.round][t] # NoRoot
  <2>1. /\ round \in Int /\ round' \in Int /\ d \in Dispute
        /\ d.round \in Rounds /\ d.round \in Int
    <3>1. round \in Rounds /\ round' \in Rounds /\ d \in Dispute
      BY DEF IInv, TypeOK
    <3>2. \A r \in Rounds : r \in Int
      BY ConstantsAssumption DEF Rounds
    <3> HIDE DEF d
    <3>3. d.round \in Rounds
      BY <3>1 DEF Dispute
    <3> QED
      BY <3>1, <3>2, <3>3
  <2>2. round <= round'
    BY <2>1, ClockForward DEF IInv
  <2> QED
    BY <2>1, <2>2 DEF SettledInv
<1>2. ASSUME d.round > 0, ~d.open, NEW t \in registeredTokens'
      PROVE  commits'[d.round][t] # NoRoot
  <2>1. d.round \in 1..MaxRound /\ round > 0
    BY <1>1, <1>2 DEF Dispute, Rounds
  <2>2. t \in registeredTokens
    BY <2>1, CommitFootprint DEF registerToken, commit, tokenVars
  <2>3. t \in Tokens /\ commits[d.round][t] # NoRoot
    BY <1>1, <1>2, <2>2, ConstantsAssumption DEF IInv, TypeOK
  <2> QED
    BY <1>1, <1>2, <2>1, <2>2, <2>3, SettledForGood DEF IInv
<1>3. CASE disputes'[c] = disputes[c]
  <2>1. disputes'[c].round <= round'
    BY <1>1, <1>3
  <2> QED
    BY <1>2, <1>3, <2>1
<1>4. ASSUME NEW e \in Clients, NEW fills \in SUBSET Fills, NEW byProof \in BOOLEAN,
             openDispute(e, fills, byProof), disputes'[c] # disputes[c]
      PROVE  disputes'[c].round <= round' /\ disputes'[c].open
  BY <1>1, <1>4 DEF openDispute, IInv, TypeOK
<1>5. ASSUME NEW e \in Clients, NEW fills \in SUBSET Fills,
             NEW approvalOf \in ApprovalsFor(fills),
             closeDispute(e, fills, approvalOf), disputes'[c] # disputes[c]
      PROVE  /\ disputes'[c].round <= round'
             /\ \A t \in registeredTokens' : commits'[disputes'[c].round][t] # NoRoot
  <2>1. /\ disputes' = [disputes EXCEPT ![e].open = FALSE]
        /\ \A t \in registeredTokens : commits[disputes[e].round][t] # NoRoot
        /\ UNCHANGED <<registeredTokens, commits, round>>
    <3>1. PICK shown \in BalancesShown(e, disputes[e].round) : TRUE
      BY <1>5 DEF closeDispute
    <3>2. \A t \in registeredTokens : Provable(e, t, disputes[e].round) # {}
      BY <3>1, ShownType DEF IInv
    <3>3. \A t \in registeredTokens : commits[disputes[e].round][t] # NoRoot
      BY <3>2 DEF Provable
    <3> QED
      BY <1>5, <3>3 DEF closeDispute, tokenVars, commitVars, clockVars
  <2>2. c = e /\ disputes'[c].round = d.round
    BY <1>1, <1>5, <2>1 DEF IInv, TypeOK, Dispute
  <2> QED
    BY <1>1, <2>1, <2>2
<1>6. \/ disputes'[c] = disputes[c]
      \/ \E e \in Clients, fills \in SUBSET Fills, byProof \in BOOLEAN :
            openDispute(e, fills, byProof)
      \/ \E e \in Clients, fills \in SUBSET Fills : \E approvalOf \in ApprovalsFor(fills) :
            closeDispute(e, fills, approvalOf)
  BY DisputeFootprint DEF disputeVars
<1> QED
  BY <1>3, <1>4, <1>5, <1>6

\* The tokens keep the numbers they were registered with.
LEMMA IndexStep == TypeOK /\ IndexInv /\ [AnyNext]_vars => IndexInv'
<1> SUFFICES ASSUME TypeOK, IndexInv, [AnyNext]_vars PROVE IndexInv'
  OBVIOUS
<1>1. ASSUME NEW t \in Tokens, registerToken(t) PROVE IndexInv'
  <2>1. /\ registeredTokens' = registeredTokens \cup {t} /\ t \notin registeredTokens
        /\ registeredTokensIndex' = [registeredTokensIndex EXCEPT ![t] = tokenCount]
        /\ tokenCount' = tokenCount + 1
    BY <1>1 DEF registerToken
  <2>2. /\ tokenCount \in Nat /\ registeredTokensIndex \in [Assets -> Nat]
        /\ registeredTokens \subseteq Assets /\ t \in Assets
    BY ConstantsAssumption DEF TypeOK
  <2>3. \A a \in Assets :
           registeredTokensIndex'[a] = IF a = t THEN tokenCount ELSE registeredTokensIndex[a]
    BY <2>1, <2>2
  <2> QED
    BY <2>1, <2>2, <2>3 DEF IndexInv
<1>2. CASE UNCHANGED tokenVars
  BY <1>2 DEF IndexInv, tokenVars
<1>3. ASSUME NEW t \in Tokens, NEW root \in Roots, commit(t, root) PROVE UNCHANGED tokenVars
  BY <1>3 DEF commit
<1> QED
  BY <1>1, <1>2, <1>3, CommitFootprint

LEMMA BookedAsCounted ==
    ASSUME TypeOK, IndexInv, NEW t \in registeredTokens
    PROVE  BookedOn(t) = CountedAs(t)
<1>1. registeredTokens \subseteq Assets
  BY ConstantsAssumption DEF TypeOK
<1> QED
  BY <1>1 DEF BookedOn, CountedAs, IndexInv

\* Registration ends with round 0.
LEMMA CountedForGood ==
    ASSUME TypeOK, round > 0, [AnyNext]_vars
    PROVE  UNCHANGED registeredTokens /\ \A t : CountedAs(t)' = CountedAs(t)
<1>1. UNCHANGED tokenVars
  BY CommitFootprint DEF registerToken, commit
<1> QED
  BY <1>1 DEF tokenVars, CountedAs

Sellable(c, r) == {a \in Approvals : a.client = c /\ a.round = r - 1}

\* What DisputeTakesOnlyApproved says of one dispute and token.
TookOnlyApproved(c, d, t) ==
    \E balance \in Provable(c, t, d.round) :
        balance >= d.opening[t] + clientDeposits[d.round - 1][t][c]
                     - clientRequestedWithdrawals[d.round - 1][t][c].amount
                     + Bought(d.fills, CountedAs(t)) - Sold(Sellable(c, d.round), CountedAs(t))

\* The close of a dispute checks what the property says of it.
LEMMA CloseTakesOnlyApproved ==
    ASSUME IInv, IndexInv, NEW c \in Clients, NEW fills \in SUBSET Fills,
           NEW approvalOf \in ApprovalsFor(fills), closeDispute(c, fills, approvalOf),
           NEW t \in registeredTokens
    PROVE  TookOnlyApproved(c, disputes[c], t)
<1> DEFINE d == disputes[c]
           sellable == Sellable(c, d.round)
           start == [u \in registeredTokens |-> d.opening[u] + clientDeposits[d.round - 1][u][c]]
           withdrawn == [u \in registeredTokens |->
                            clientRequestedWithdrawals[d.round - 1][u][c].amount]
           counted == [u \in registeredTokens |-> BookedOn(u)]
<1>1. /\ d.round \in Rounds /\ d.round \in 1..round /\ t \in Tokens
      /\ d.opening \in [Tokens -> Nat] /\ d.fills \in SUBSET Fills
  BY DEF IInv, TypeOK, DisputeInv, Dispute, closeDispute, hasValidOpenDispute
<1>2. d.round - 1 \in Rounds
  BY <1>1, ConstantsAssumption DEF Rounds
<1>3. start[t] \in Nat /\ withdrawn[t] \in Nat
  BY <1>1, <1>2 DEF IInv, TypeOK
<1>4. PICK closing \in BalancesShown(c, d.round) :
         /\ d.fills \in SUBSET fills /\ \A f \in fills : approvalOf[f] \in sellable
         /\ checkDisputeAccounting(start, fills, approvalOf, withdrawn, closing, counted)
         /\ approvalOf \in [fills -> Approvals]
  BY DEF closeDispute, Settles, includesShownFills, checkApprovalSig, ApprovalsFor, Sellable
<1>5. sellable \in SUBSET Approvals
  BY DEF Sellable
<1>6. /\ start[t] = d.opening[t] + clientDeposits[d.round - 1][t][c]
      /\ withdrawn[t] = clientRequestedWithdrawals[d.round - 1][t][c].amount
      /\ t \in DOMAIN counted /\ counted[t] = CountedAs(t)
  BY BookedAsCounted DEF IInv
<1>7. closing[t] \in Provable(c, t, d.round) /\ closing[t] \in Nat
  BY <1>1, ShownType DEF IInv
<1> HIDE DEF start, withdrawn, counted, sellable, d
<1>8. closing[t] >= start[t] - withdrawn[t]
                       + Bought(d.fills, counted[t]) - Sold(sellable, counted[t])
  BY <1>3, <1>4, <1>5, <1>6, AccountingBound
<1>9. Bought(d.fills, counted[t]) \in Nat /\ Sold(sellable, counted[t]) \in Nat
  <2>1. /\ IsFiniteSet(Fills) /\ \A x \in Fills : x.buyAmount \in Nat
        /\ IsFiniteSet(Approvals) /\ \A x \in Approvals : x.sellAmount \in Nat
    BY ConstantsAssumption DEF Fill, Approval
  <2>2. Bought(d.fills, counted[t]) \in Nat
    BY <1>1, <2>1, BoughtBySome
  <2>3. Sold(sellable, counted[t]) \in Nat
    BY <1>5, <2>1, SoldBySome
  <2> QED
    BY <2>2, <2>3
<1>10. /\ d.opening[t] \in Int /\ clientDeposits[d.round - 1][t][c] \in Int
       /\ clientRequestedWithdrawals[d.round - 1][t][c].amount \in Int
  BY <1>1, <1>2 DEF IInv, TypeOK
<1>11. closing[t] >=
          d.opening[t] + clientDeposits[d.round - 1][t][c]
             - clientRequestedWithdrawals[d.round - 1][t][c].amount
             + Bought(d.fills, counted[t]) - Sold(sellable, counted[t])
  BY <1>6, <1>7, <1>8, <1>9, <1>10
<1> QED
  BY <1>6, <1>7, <1>11 DEF TookOnlyApproved, sellable, d

LEMMA TakesStep ==
    ASSUME IInv, IInv', IndexInv, SettledInv, SettledInv', DisputeTakesOnlyApproved,
           [AnyNext]_vars
    PROVE  DisputeTakesOnlyApproved'
<1>1. SUFFICES ASSUME NEW c \in Clients, NEW t \in registeredTokens',
                      disputes'[c].round > 0, ~disputes'[c].open
               PROVE  TookOnlyApproved(c, disputes[c], t)'
  BY DEF DisputeTakesOnlyApproved, TookOnlyApproved, Sellable
<1>2. /\ disputes[c] \in Dispute /\ disputes[c].round \in Rounds
      /\ disputes[c].round <= round /\ disputes[c].round \in 0..MaxRound /\ round \in Nat
  <2>1. /\ disputes[c] \in Dispute /\ disputes[c].round \in Rounds /\ round \in Rounds
        /\ disputes[c].round <= round
    BY DEF IInv, TypeOK, Dispute, SettledInv
  <2> QED
    BY <2>1, ConstantsAssumption DEF Rounds
<1>3. CASE disputes'[c] = disputes[c]
  <2>1. disputes[c].round \in 1..MaxRound /\ round > 0
    <3>1. disputes[c].round > 0
      BY <1>1, <1>3
    <3> QED
      BY <1>2, <3>1, ConstantsAssumption
  <2>2. /\ t \in registeredTokens /\ t \in Tokens
        /\ CountedAs(t)' = CountedAs(t)
    BY <2>1, CountedForGood DEF IInv, TypeOK
  <2>3. commits[disputes[c].round][t] # NoRoot
    BY <1>1, <1>3, <2>1, <2>2, ConstantsAssumption DEF SettledInv
  <2>4. /\ commits'[disputes[c].round][t] = commits[disputes[c].round][t]
        /\ clientDeposits'[disputes[c].round - 1][t][c]
              = clientDeposits[disputes[c].round - 1][t][c]
        /\ clientRequestedWithdrawals'[disputes[c].round - 1][t][c].amount
              = clientRequestedWithdrawals[disputes[c].round - 1][t][c].amount
    BY <2>1, <2>2, <2>3, SettledForGood DEF IInv
  <2>5. Provable(c, t, disputes[c].round)' = Provable(c, t, disputes[c].round)
    BY <1>3, <2>4 DEF Provable
  <2>6. TookOnlyApproved(c, disputes[c], t)
    BY <1>1, <1>3, <2>2 DEF DisputeTakesOnlyApproved, TookOnlyApproved, Sellable
  <2> QED
    BY <1>3, <2>2, <2>4, <2>5, <2>6 DEF TookOnlyApproved
<1>4. ASSUME NEW e \in Clients, NEW fills \in SUBSET Fills,
             NEW approvalOf \in ApprovalsFor(fills),
             closeDispute(e, fills, approvalOf), disputes'[c] # disputes[c]
      PROVE  TookOnlyApproved(c, disputes[c], t)'
  <2>1. /\ disputes' = [disputes EXCEPT ![e].open = FALSE]
        /\ UNCHANGED <<tokenVars, registeredTokens, commits, clientDeposits,
                        clientRequestedWithdrawals>>
    BY <1>4 DEF closeDispute, tokenVars, commitVars, depositVars, withdrawalVars
  <2>2. /\ c = e /\ disputes'[c].round = disputes[c].round /\ disputes'[c].fills = disputes[c].fills
        /\ disputes'[c].opening = disputes[c].opening /\ t \in registeredTokens
    BY <1>2, <1>4, <2>1 DEF IInv, TypeOK, Dispute
  <2>3. TookOnlyApproved(c, disputes[c], t)
    BY <1>4, <2>2, CloseTakesOnlyApproved
  <2>4. /\ CountedAs(t)' = CountedAs(t)
        /\ Provable(c, t, disputes[c].round)' = Provable(c, t, disputes'[c].round)
        /\ \A r : Provable(c, t, r)' = Provable(c, t, r)
    BY <2>1, <2>2 DEF CountedAs, Provable, tokenVars
  <2> QED
    BY <2>1, <2>2, <2>3, <2>4 DEF TookOnlyApproved
<1>5. CASE \E e \in Clients, fills \in SUBSET Fills, byProof \in BOOLEAN :
              openDispute(e, fills, byProof)
  <2>1. disputes'[c] = disputes[c]
    BY <1>1, <1>5 DEF openDispute, IInv, TypeOK
  <2> QED
    BY <1>3, <2>1
<1> QED
  BY <1>3, <1>4, <1>5, DisputeFootprint DEF disputeVars

\* Whatever fills and approvals it shows, the operator cannot close a dispute
\* against balances that take from the client what it neither withdrew nor sold; the
\* token registered first answers for the assets that are not registered too.
THEOREM DisputesTakeOnlyApproved == Spec => []DisputeTakesOnlyApproved
<1>1. /\ IInv /\ IInv' /\ SettledInv /\ [AnyNext]_vars => SettledInv'
  BY SettledStep
<1>2. /\ IInv /\ IInv' /\ IndexInv /\ SettledInv /\ SettledInv' /\ DisputeTakesOnlyApproved
      /\ [AnyNext]_vars
      => DisputeTakesOnlyApproved'
  BY TakesStep
<1>3. IInv /\ IndexInv /\ [AnyNext]_vars => IndexInv'
  BY IndexStep DEF IInv
<1> QED
  BY <1>1, <1>2, <1>3, DisputesAtStart, Inductive, NextIsAnyNext, PTL DEF Spec

-----------------------------------------------------------------------------
(* The totals. *)

Requests(r, t) == [c \in Clients |-> clientRequestedWithdrawals[r][t][c].amount]

\* The sums of TotalsMatch, as sums of functions over the clients.
LEMMA SumOverClients ==
    ASSUME NEW f, DOMAIN f = Clients
    PROVE  SumFunction(f) = SumFunctionOnSet(f, Clients)
BY DEF SumFunction

LEMMA RequestsAddUp ==
    ASSUME NEW r, NEW t
    PROVE  Sum(Clients, LAMBDA c : clientRequestedWithdrawals[r][t][c].amount)
              = SumFunctionOnSet(Requests(r, t), Clients)
BY DEF Requests, Sum, MapThenSumSet, SumFunctionOnSet, FoldFunctionOnSet, MapThenFoldSet

LEMMA RequestsAddUpNext ==
    ASSUME NEW r, NEW t
    PROVE  Sum(Clients, LAMBDA c : clientRequestedWithdrawals[r][t][c].amount)'
              = SumFunctionOnSet(Requests(r, t)', Clients)
BY DEF Requests, Sum, MapThenSumSet, SumFunctionOnSet, FoldFunctionOnSet, MapThenFoldSet

\* The books add up after every step.  A request replaces an amount that is 0: a
\* paid one of this round would have been paid too early.
LEMMA TotalsStep ==
    ASSUME TypeOK, TypeOK', PaymentInv, TotalsMatch, [AnyNext]_vars
    PROVE  TotalsMatch'
<1>0. /\ IsFiniteSet(Clients)
      /\ clientDeposits \in [Rounds -> [Tokens -> [Clients -> Nat]]]
      /\ totalDeposits \in [Rounds -> [Tokens -> Nat]]
      /\ clientRequestedWithdrawals \in
            [Rounds -> [Tokens -> [Clients -> [amount : Nat, openingBalance : Nat]]]]
      /\ totalRequestedWithdrawals \in [Rounds -> [Tokens -> Nat]]
      /\ activeWithdrawalRounds \in [Tokens -> [Clients -> Rounds]]
      /\ round \in Rounds
  BY ConstantsAssumption DEF TypeOK
<1>1. ASSUME NEW r \in Rounds, NEW t \in Tokens
      PROVE  /\ totalDeposits[r][t] = SumFunctionOnSet(clientDeposits[r][t], Clients)
             /\ totalRequestedWithdrawals[r][t] = SumFunctionOnSet(Requests(r, t), Clients)
             /\ \A c \in Clients : clientDeposits[r][t][c] \in Nat /\ Requests(r, t)[c] \in Nat
  <2>1. clientDeposits[r][t] \in [Clients -> Nat]
    BY <1>0
  <2>2. /\ totalDeposits[r][t] = SumFunction(clientDeposits[r][t])
        /\ totalRequestedWithdrawals[r][t] =
               Sum(Clients, LAMBDA c : clientRequestedWithdrawals[r][t][c].amount)
    BY DEF TotalsMatch
  <2>3. \A c \in Clients : Requests(r, t)[c] \in Nat
    <3>1. \A c \in Clients : clientRequestedWithdrawals[r][t][c]
                                 \in [amount : Nat, openingBalance : Nat]
      BY <1>0
    <3> QED
      BY <3>1 DEF Requests
  <2> QED
    BY <2>1, <2>2, <2>3, SumOverClients, RequestsAddUp
<1>2. ASSUME NEW r \in Rounds, NEW t \in Tokens
      PROVE  totalDeposits'[r][t] = SumFunctionOnSet(clientDeposits'[r][t], Clients)
  <2>1. CASE UNCHANGED depositVars
    BY <1>1, <2>1 DEF depositVars
  <2>2. ASSUME NEW e \in Clients, NEW u \in Tokens, NEW amount \in Amounts(u),
               depositTokens(e, u, amount)
        PROVE  totalDeposits'[r][t] = SumFunctionOnSet(clientDeposits'[r][t], Clients)
    <3>1. /\ clientDeposits' = [clientDeposits EXCEPT ![round][u][e] = @ + amount]
          /\ totalDeposits' = [totalDeposits EXCEPT ![round][u] = @ + amount]
          /\ amount \in Nat
      BY <2>2 DEF depositTokens, Amounts
    <3>2. CASE r = round /\ t = u
      <4> DEFINE f == clientDeposits[r][t]
                 g == clientDeposits'[r][t]
                 F == SumFunctionOnSet(f, Clients)
                 G == SumFunctionOnSet(g, Clients)
      <4>1. /\ g[e] = f[e] + amount /\ f[e] \in Nat
            /\ \A x \in Clients \ {e} : g[x] = f[x]
            /\ \A x \in Clients : f[x] \in Int
            /\ g[e] \in Int /\ IsFiniteSet(Clients)
        BY <1>0, <3>1, <3>2
      <4>2. G = F - f[e] + g[e] /\ F \in Int
        <5> HIDE DEF f, g
        <5>1. F \in Int
          BY <4>1, SumInt
        <5>2. G = F - f[e] + g[e]
          BY <4>1, SumChange
        <5> QED
          BY <5>1, <5>2
      <4>3. totalDeposits'[r][t] = F + amount
        BY <1>0, <1>1, <3>1, <3>2
      <4>4. totalDeposits'[r][t] = G
        <5> HIDE DEF f, g, F, G
        <5> QED
          BY <3>1, <4>1, <4>2, <4>3
      <4> QED
        BY <4>4
    <3>3. CASE ~ (r = round /\ t = u)
      <4>1. clientDeposits'[r][t] = clientDeposits[r][t] /\ totalDeposits'[r][t] = totalDeposits[r][t]
        BY <1>0, <3>1, <3>3
      <4> QED
        BY <1>1, <4>1
    <3> QED
      BY <3>2, <3>3
  <2> QED
    BY <2>1, <2>2, DepositFootprint
<1>3. ASSUME NEW r \in Rounds, NEW t \in Tokens
      PROVE  totalRequestedWithdrawals'[r][t] = SumFunctionOnSet(Requests(r, t)', Clients)
  <2>0. ASSUME clientRequestedWithdrawals'[r][t] = clientRequestedWithdrawals[r][t],
               totalRequestedWithdrawals'[r][t] = totalRequestedWithdrawals[r][t]
        PROVE  totalRequestedWithdrawals'[r][t] = SumFunctionOnSet(Requests(r, t)', Clients)
    <3>1. Requests(r, t)' = Requests(r, t)
      BY <2>0 DEF Requests
    <3> QED
      BY <1>1, <2>0, <3>1
  \* One amount changes, and the total by as much.
  <2>1. ASSUME NEW e \in Clients,
               \A x \in Clients \ {e} : Requests(r, t)'[x] = Requests(r, t)[x],
               Requests(r, t)'[e] \in Nat,
               totalRequestedWithdrawals'[r][t] = totalRequestedWithdrawals[r][t]
                  - Requests(r, t)[e] + Requests(r, t)'[e]
        PROVE  totalRequestedWithdrawals'[r][t] = SumFunctionOnSet(Requests(r, t)', Clients)
    <3> DEFINE f == Requests(r, t)
               g == Requests(r, t)'
               F == SumFunctionOnSet(f, Clients)
               G == SumFunctionOnSet(g, Clients)
    <3>1. /\ IsFiniteSet(Clients) /\ \A x \in Clients : f[x] \in Int
          /\ g[e] \in Int /\ \A x \in Clients \ {e} : g[x] = f[x]
      BY <1>0, <1>1, <2>1
    <3>2. G = F - f[e] + g[e]
      <4> HIDE DEF f, g
      <4> QED
        BY <3>1, SumChange
    <3> QED
      BY <1>1, <2>1, <3>2
  <2>2. ASSUME NEW e \in Clients, NEW u \in Tokens, NEW amount \in Amounts(u),
               initiateWithdrawal(e, u, amount)
        PROVE  totalRequestedWithdrawals'[r][t] = SumFunctionOnSet(Requests(r, t)', Clients)
    <3>0. PICK balance : clientRequestedWithdrawals'
           = [clientRequestedWithdrawals EXCEPT ![round][u][e] =
                 [amount |-> amount, openingBalance |-> balance]]
      BY <2>2 DEF initiateWithdrawal
    <3> DEFINE request == [amount |-> amount, openingBalance |-> balance]
    <3>1. /\ clientRequestedWithdrawals'
                 = [clientRequestedWithdrawals EXCEPT ![round][u][e] = request]
          /\ totalRequestedWithdrawals'
                 = [totalRequestedWithdrawals EXCEPT ![round][u] = @ + amount]
          /\ activeWithdrawalRounds[u][e] = 0 /\ round > 0
          /\ amount \in Nat /\ request.amount = amount
      BY <3>0, <2>2 DEF initiateWithdrawal, Amounts
    <3> HIDE DEF request
    <3>2. CASE r = round /\ t = u
      <4>1. clientRequestedWithdrawals[r][t][e].amount = 0
        <5>1. ~PaidOut(r, t, e)
          BY <1>0, <3>1, <3>2, ConstantsAssumption DEF PaymentInv, Rounds
        <5>2. clientRequestedWithdrawals[r][t][e].amount \in Nat
          BY <1>1 DEF Requests
        <5> QED
          BY <1>0, <3>1, <3>2, <5>1, <5>2 DEF PaidOut, Rounds
      <4>2. /\ \A x \in Clients \ {e} : Requests(r, t)'[x] = Requests(r, t)[x]
            /\ Requests(r, t)'[e] = amount /\ Requests(r, t)[e] = 0
        BY <1>0, <3>1, <3>2, <4>1 DEF Requests
      <4>3. totalRequestedWithdrawals'[r][t] = totalRequestedWithdrawals[r][t] + amount
        BY <1>0, <3>1, <3>2
      <4>4. totalRequestedWithdrawals[r][t] \in Nat
        BY <1>0
      <4> QED
        BY <2>1, <3>1, <4>2, <4>3, <4>4
    <3>3. CASE ~ (r = round /\ t = u)
      BY <1>0, <2>0, <3>1, <3>3
    <3> QED
      BY <3>2, <3>3
  <2>3. ASSUME NEW e \in Clients, NEW u \in Tokens, NEW approvals \in SUBSET Approvals,
               cancelWithdrawal(e, u, approvals)
        PROVE  totalRequestedWithdrawals'[r][t] = SumFunctionOnSet(Requests(r, t)', Clients)
    <3> DEFINE w == activeWithdrawalRounds[u][e]
               amount == clientRequestedWithdrawals[w][u][e].amount
               cleared == [clientRequestedWithdrawals[w][u][e] EXCEPT !.amount = 0]
    <3>1. /\ clientRequestedWithdrawals'
                 = [clientRequestedWithdrawals EXCEPT ![w][u][e] = cleared]
          /\ totalRequestedWithdrawals'
                 = [totalRequestedWithdrawals EXCEPT ![w][u] = @ - amount]
      BY <2>3 DEF cancelWithdrawal, ClearRequest
    <3>2. w \in Rounds /\ amount \in Nat /\ cleared.amount = 0
      <4>1. w \in Rounds
        BY <1>0
      <4>2. clientRequestedWithdrawals[w][u][e] \in [amount : Nat, openingBalance : Nat]
        BY <1>0, <4>1
      <4> QED
        BY <4>1, <4>2
    <3>3. CASE r = w /\ t = u
      <4>1. Requests(r, t)[e] = amount
        BY <3>3 DEF Requests
      <4> HIDE DEF w, amount, cleared
      <4>2. /\ \A x \in Clients \ {e} : Requests(r, t)'[x] = Requests(r, t)[x]
            /\ Requests(r, t)'[e] = 0
        BY <1>0, <3>1, <3>2, <3>3 DEF Requests
      <4>3. totalRequestedWithdrawals'[r][t] = totalRequestedWithdrawals[r][t] - amount
        BY <1>0, <3>1, <3>2, <3>3
      <4>4. totalRequestedWithdrawals[r][t] \in Nat
        BY <1>0
      <4> QED
        BY <2>1, <3>2, <4>1, <4>2, <4>3, <4>4
    <3>4. CASE ~ (r = w /\ t = u)
      <4> HIDE DEF w, amount, cleared
      <4> QED
        BY <1>0, <2>0, <3>1, <3>2, <3>4
    <3> QED
      BY <3>3, <3>4
  <2>4. ASSUME NEW e \in Clients, NEW u \in Tokens, confirmWithdrawal(e, u)
        PROVE  totalRequestedWithdrawals'[r][t] = SumFunctionOnSet(Requests(r, t)', Clients)
    BY <2>0, <2>4 DEF confirmWithdrawal
  <2>5. CASE UNCHANGED withdrawalVars
    BY <2>0, <2>5 DEF withdrawalVars
  <2> QED
    BY <2>2, <2>3, <2>4, <2>5, WithdrawalFootprint
<1>4. ASSUME NEW r \in Rounds, NEW t \in Tokens
      PROVE  /\ totalDeposits'[r][t] = SumFunction(clientDeposits'[r][t])
             /\ totalRequestedWithdrawals'[r][t] =
                   Sum(Clients, LAMBDA c : clientRequestedWithdrawals[r][t][c].amount)'
  <2>1. DOMAIN clientDeposits'[r][t] = Clients
    BY DEF TypeOK
  <2>2. SumFunction(clientDeposits'[r][t]) = SumFunctionOnSet(clientDeposits'[r][t], Clients)
    BY <2>1, SumOverClients
  <2>3. Sum(Clients, LAMBDA c : clientRequestedWithdrawals[r][t][c].amount)'
           = SumFunctionOnSet(Requests(r, t)', Clients)
    BY RequestsAddUpNext
  <2> QED
    BY <1>2, <1>3, <2>2, <2>3
<1> QED
  BY <1>4 DEF TotalsMatch

\* At the start every sum is one of zeros.
LEMMA TotalsAtStart == Init => TotalsMatch
<1> SUFFICES ASSUME Init, NEW r \in Rounds, NEW t \in Tokens
             PROVE  /\ totalDeposits[r][t] = SumFunction(clientDeposits[r][t])
                    /\ totalRequestedWithdrawals[r][t] =
                          Sum(Clients, LAMBDA c : clientRequestedWithdrawals[r][t][c].amount)
  BY DEF TotalsMatch
<1> DEFINE deposits == clientDeposits[r][t]
<1>1. /\ totalDeposits[r][t] = 0 /\ totalRequestedWithdrawals[r][t] = 0
      /\ DOMAIN deposits = Clients /\ \A c \in Clients : deposits[c] = 0
      /\ \A c \in Clients : Requests(r, t)[c] = 0
  BY DEF Init, Requests
<1>2. IsFiniteSet(Clients)
  BY ConstantsAssumption
<1> HIDE DEF deposits
<1>3. SumFunctionOnSet(deposits, Clients) = 0 /\ SumFunctionOnSet(Requests(r, t), Clients) = 0
  BY <1>1, <1>2, SumZero
<1> QED
  BY <1>1, <1>3, SumOverClients, RequestsAddUp DEF deposits

\* The totals that closing balances are computed from are those of the clients.
THEOREM TotalsAreSums == Spec => []TotalsMatch
<1>1. IInv /\ IInv' /\ TotalsMatch /\ [AnyNext]_vars => TotalsMatch'
  BY TotalsStep DEF IInv
<1> QED
  BY <1>1, TotalsAtStart, Inductive, NextIsAnyNext, PTL DEF Spec

-----------------------------------------------------------------------------
(* Roots and blanks. *)

LEMMA RootStep ==
    ASSUME TypeOK, RootInv, [AnyNext]_vars
    PROVE  RootInv'
<1>1. ASSUME NEW t \in Tokens, NEW root \in Roots, commit(t, root),
             NEW r \in Rounds, NEW u \in Tokens
      PROVE  IF commits'[r][u] = NoRoot THEN openingBalances'[r][u] = 0
             ELSE \A c \in Clients : commits'[r][u][c] \subseteq 0..openingBalances'[r][u]
  <2> DEFINE closing == previousClosingBalance(t)
  <2>1. /\ openingBalances' = [openingBalances EXCEPT ![round][t] = closing]
        /\ commits' = [commits EXCEPT ![round][t] = root]
    BY <1>1 DEF commit
  <2>2. /\ round \in Rounds /\ openingBalances \in [Rounds -> [Tokens -> Nat]]
        /\ commits \in [Rounds -> [Tokens -> Roots \cup {NoRoot}]]
    BY DEF TypeOK
  <2>3. \A c \in Clients : root[c] \subseteq 0..closing
    BY <1>1 DEF commit, canBeRoot
  <2>4. root # NoRoot
    BY ConstantsAssumption
  <2> HIDE DEF closing
  <2>5. CASE r = round /\ u = t
    BY <2>1, <2>2, <2>3, <2>4, <2>5
  <2>6. CASE ~ (r = round /\ u = t)
    <3>1. commits'[r][u] = commits[r][u] /\ openingBalances'[r][u] = openingBalances[r][u]
      BY <2>1, <2>2, <2>6
    <3> QED
      BY <3>1 DEF RootInv
  <2> QED
    BY <2>5, <2>6
<1>2. ASSUME NEW t \in Tokens, registerToken(t) PROVE RootInv'
  BY <1>2 DEF registerToken, commitVars, RootInv
<1>3. CASE UNCHANGED <<tokenVars, commitVars>>
  BY <1>3 DEF commitVars, RootInv
<1>4. ASSUME NEW t \in Tokens, NEW root \in Roots, commit(t, root)
      PROVE  RootInv'
  BY <1>1, <1>4 DEF RootInv
<1> QED
  BY <1>2, <1>3, <1>4, CommitFootprint

\* The tokens registered are never fewer.
LEMMA RegistrationsStay ==
    ASSUME [AnyNext]_vars
    PROVE  registeredTokens \subseteq registeredTokens'
<1>1. ASSUME NEW t \in Tokens, registerToken(t) PROVE registeredTokens \subseteq registeredTokens'
  BY <1>1 DEF registerToken
<1>2. ASSUME NEW t \in Tokens, NEW root \in Roots, commit(t, root)
      PROVE  registeredTokens \subseteq registeredTokens'
  BY <1>2 DEF commit, tokenVars
<1> QED
  BY <1>1, <1>2, CommitFootprint DEF tokenVars

\* A request is for a token whose balance is proven, hence for a registered one.
LEMMA RequestsAreRegistered ==
    ASSUME TypeOK, CommitInv, NEW c \in Clients, NEW t \in Tokens, NEW amount,
           initiateWithdrawal(c, t, amount)
    PROVE  t \in registeredTokens
<1>1. round - 1 \in Rounds /\ commits[round - 1][t] # NoRoot
  BY DEF initiateWithdrawal, Provable
<1> QED
  BY <1>1 DEF CommitInv

LEMMA BlankStep ==
    ASSUME TypeOK, TypeOK', CommitInv, BlankInv, [AnyNext]_vars
    PROVE  BlankInv'
<1> SUFFICES ASSUME NEW r \in Rounds, NEW t \in Tokens,
                    r > round' \/ t \notin registeredTokens'
             PROVE  totalDeposits'[r][t] = 0 /\ totalRequestedWithdrawals'[r][t] = 0
  BY DEF BlankInv
<1>0. /\ round \in Nat /\ round' \in Nat /\ r \in Nat /\ round \in Rounds
      /\ totalDeposits \in [Rounds -> [Tokens -> Nat]]
      /\ totalRequestedWithdrawals \in [Rounds -> [Tokens -> Nat]]
      /\ activeWithdrawalRounds \in [Tokens -> [Clients -> Rounds]]
      /\ clientRequestedWithdrawals \in
            [Rounds -> [Tokens -> [Clients -> [amount : Nat, openingBalance : Nat]]]]
  BY ConstantsAssumption DEF TypeOK, Rounds
<1>1. r > round \/ t \notin registeredTokens
  BY <1>0, ClockForward, RegistrationsStay
<1>2. totalDeposits[r][t] = 0 /\ totalRequestedWithdrawals[r][t] = 0
  BY <1>1 DEF BlankInv
<1>3. totalDeposits'[r][t] = 0
  <2>1. ASSUME NEW e \in Clients, NEW u \in Tokens, NEW amount \in Amounts(u),
               depositTokens(e, u, amount)
        PROVE  totalDeposits'[r][t] = 0
    <3>1. totalDeposits' = [totalDeposits EXCEPT ![round][u] = @ + amount]
          /\ u \in registeredTokens
      BY <2>1 DEF depositTokens
    <3>2. ~ (r = round /\ t = u)
      BY <1>0, <1>1, <3>1
    <3> QED
      BY <1>0, <1>2, <3>1, <3>2
  <2>2. CASE UNCHANGED depositVars
    BY <1>2, <2>2 DEF depositVars
  <2> QED
    BY <2>1, <2>2, DepositFootprint
<1>4. totalRequestedWithdrawals'[r][t] = 0
  <2>1. ASSUME NEW e \in Clients, NEW u \in Tokens, NEW amount \in Amounts(u),
               initiateWithdrawal(e, u, amount)
        PROVE  totalRequestedWithdrawals'[r][t] = 0
    <3>1. totalRequestedWithdrawals'
            = [totalRequestedWithdrawals EXCEPT ![round][u] = @ + amount]
      BY <2>1 DEF initiateWithdrawal
    <3>2. ~ (r = round /\ t = u)
      BY <1>0, <1>1, <2>1, RequestsAreRegistered
    <3> QED
      BY <1>0, <1>2, <3>1, <3>2
  <2>2. ASSUME NEW e \in Clients, NEW u \in Tokens, NEW approvals \in SUBSET Approvals,
               cancelWithdrawal(e, u, approvals)
        PROVE  totalRequestedWithdrawals'[r][t] = 0
    <3> DEFINE w == activeWithdrawalRounds[u][e]
               amount == clientRequestedWithdrawals[w][u][e].amount
    <3>1. /\ totalRequestedWithdrawals'
                 = [totalRequestedWithdrawals EXCEPT ![w][u] = @ - amount]
          /\ amount <= totalRequestedWithdrawals[w][u]
      BY <2>2 DEF cancelWithdrawal, ClearRequest
    <3>2. w \in Rounds
      BY <1>0
    <3>3. \A v \in Rounds : clientRequestedWithdrawals[v][u][e]
                              \in [amount : Nat, openingBalance : Nat]
      BY <1>0
    <3>4. amount \in Nat
      BY <3>2, <3>3
    <3> HIDE DEF w, amount
    <3>5. CASE r = w /\ t = u
      BY <1>0, <1>2, <3>1, <3>2, <3>4, <3>5
    <3>6. CASE ~ (r = w /\ t = u)
      BY <1>0, <1>2, <3>1, <3>2, <3>6
    <3> QED
      BY <3>5, <3>6
  <2>3. ASSUME NEW e \in Clients, NEW u \in Tokens, confirmWithdrawal(e, u)
        PROVE  totalRequestedWithdrawals'[r][t] = 0
    BY <1>2, <2>3 DEF confirmWithdrawal
  <2>4. CASE UNCHANGED withdrawalVars
    BY <1>2, <2>4 DEF withdrawalVars
  <2> QED
    BY <2>1, <2>2, <2>3, <2>4, WithdrawalFootprint
<1> QED
  BY <1>3, <1>4

-----------------------------------------------------------------------------
(* The horizon. *)

\* The horizon is one or two rounds back, and a halt does not move the clock.
LEMMA HorizonRange ==
    ASSUME TypeOK, HaltInv
    PROVE  /\ round \in Nat /\ round \in Rounds /\ HaltRound = round
           /\ Horizon \in {round - 2, round - 1}
           /\ halted \/ HaltDue => Horizon = round - 2
BY ConstantsAssumption DEF TypeOK, HaltInv, Rounds, HaltRound, Horizon, HaltDue

\* Only the clock moves the horizon, and never back.
LEMMA HorizonStep ==
    ASSUME TypeOK, TypeOK', CommitInv, HaltInv, HaltInv', [AnyNext]_vars
    PROVE  /\ Horizon <= Horizon'
           /\ UNCHANGED clockVars => Horizon' = Horizon
<1>0. /\ round \in Nat /\ quarter \in Quarters /\ round' \in Nat /\ quarter' \in Quarters
      /\ Horizon \in Int
  <2>1. round' \in Nat /\ quarter \in Quarters /\ quarter' \in Quarters
    BY ConstantsAssumption DEF TypeOK, Rounds
  <2>2. round \in Nat /\ Horizon \in {round - 2, round - 1}
    BY HorizonRange
  <2> QED
    BY <2>1, <2>2
<1>1. CASE halted
  BY <1>0, <1>1, HaltStopsTheClock DEF Horizon, HaltInv
<1>2. CASE ~halted
  <2>1. CASE UNCHANGED clockVars
    <3>1. round' = round /\ quarter' = quarter
      BY <2>1 DEF clockVars
    <3>2. CASE HaltDue
      <4>1. halted' \/ HaltDue'
        BY <3>2, DueStaysDue
      <4>2. halted' => haltedRound' = round
        BY <3>1, HaltStopsTheClock
      <4> QED
        BY <1>0, <1>2, <3>1, <3>2, <4>1, <4>2 DEF Horizon
    <3>3. CASE ~HaltDue
      <4>1. ~halted'
        BY <1>2, <3>3, HaltFootprint DEF RecordHalt, haltVars
      <4>2. CASE quarter = 0
        BY <1>0, <1>2, <3>1, <4>1, <4>2 DEF Horizon
      <4>3. CASE quarter # 0 /\ round > 0
        <5>1. quarter > 0
          BY <1>0, <4>3 DEF Quarters
        <5>2. ~HaltDue'
          BY <1>2, <3>1, <3>3, <4>3, <5>1, SoundUntilNextRound
        <5> QED
          BY <1>0, <1>2, <3>1, <3>3, <4>1, <5>2 DEF Horizon
      <4>4. CASE round = 0
        <5>1. ~HaltDue'
          BY <3>1, <4>4 DEF HaltDue
        <5> QED
          BY <1>0, <1>2, <3>1, <3>3, <4>1, <5>1 DEF Horizon
      <4> QED
        BY <1>0, <4>2, <4>3, <4>4
    <3> QED
      BY <3>2, <3>3
  <2>2. CASE Tick
    <3>1. /\ ~halted'
          /\ \/ quarter < 3 /\ quarter' = quarter + 1 /\ round' = round
             \/ quarter = 3 /\ quarter' = 0 /\ round' = round + 1
      BY <1>2, <2>2 DEF Tick, haltVars
    <3>2. ~ UNCHANGED clockVars
      BY <1>0, <3>1 DEF clockVars, Quarters
    <3>3. CASE round' = round /\ quarter # 0 /\ ~HaltDue
      <4>1. CASE round > 0
        <5>1. quarter > 0
          BY <1>0, <3>3 DEF Quarters
        <5>2. ~HaltDue'
          BY <1>2, <3>3, <4>1, <5>1, SoundUntilNextRound
        <5> QED
          BY <1>0, <1>2, <3>1, <3>2, <3>3, <5>2 DEF Horizon, Quarters
      <4>2. CASE round = 0
        <5>1. ~HaltDue'
          BY <3>3, <4>2 DEF HaltDue
        <5> QED
          BY <1>0, <1>2, <3>1, <3>2, <3>3, <5>1 DEF Horizon, Quarters
      <4> QED
        BY <1>0, <4>1, <4>2
    <3>4. CASE ~ (round' = round /\ quarter # 0 /\ ~HaltDue)
      <4>1. Horizon' \in {round' - 2, round' - 1}
        BY <3>1 DEF Horizon
      <4>2. CASE round' = round + 1 /\ quarter' = 0
        <5>1. Horizon' = round' - 2 /\ Horizon \in {round - 2, round - 1}
          BY <1>2, <3>1, <4>2 DEF Horizon
        <5> QED
          BY <1>0, <3>2, <4>2, <5>1
      <4>3. CASE round' = round
        <5>1. Horizon = round - 2
          BY <1>2, <3>4, <4>3 DEF Horizon
        <5> QED
          BY <1>0, <3>2, <4>1, <4>3, <5>1
      <4> QED
        BY <3>1, <4>2, <4>3
    <3> QED
      BY <3>3, <3>4
  <2> QED
    BY <2>1, <2>2, ClockFootprint
<1> QED
  BY <1>1, <1>2

\* Complete rounds stay complete.
LEMMA CommittedForward ==
    ASSUME TypeOK, [AnyNext]_vars
    PROVE  committedRounds <= committedRounds'
<1>0. committedRounds \in Nat
  BY DEF TypeOK
<1>1. ASSUME NEW t \in Tokens, registerToken(t) PROVE committedRounds' = committedRounds
  BY <1>1 DEF registerToken, commitVars
<1>2. ASSUME NEW t \in Tokens, NEW root \in Roots, commit(t, root)
      PROVE  committedRounds <= committedRounds'
  BY <1>0, <1>2 DEF commit
<1> QED
  BY <1>0, <1>1, <1>2, CommitFootprint DEF commitVars

\* Somebody records a halt in time: the last round but one is always complete.
LEMMA RoundInReach ==
    ASSUME HaltDelay <= 1, TypeOK, TypeOK', [AnyNext]_vars, round <= committedRounds + 2
    PROVE  round' <= committedRounds' + 2
<1>0. /\ round \in Nat /\ round' \in Nat /\ committedRounds \in Nat /\ committedRounds' \in Nat
      /\ HaltDelay \in Nat
  BY ConstantsAssumption DEF TypeOK, Rounds
<1>1. committedRounds <= committedRounds'
  BY CommittedForward
<1>2. CASE Tick
  BY <1>0, <1>2 DEF Tick, commitVars
<1>3. CASE UNCHANGED clockVars
  <2>1. round' = round
    BY <1>3 DEF clockVars
  <2> DEFINE before == committedRounds
             after == committedRounds'
  <2>2. round <= before + 2 /\ before <= after /\ {round, before, after} \subseteq Nat
    BY <1>0, <1>1
  <2>3. round <= after + 2
    <3> HIDE DEF before, after
    <3> QED
      BY <2>2
  <2> QED
    BY <2>1, <2>3
<1> QED
  BY <1>2, <1>3, ClockFootprint

-----------------------------------------------------------------------------
(* Requests that wait to be paid. *)

LEMMA WaitingType ==
    ASSUME TypeOK, NEW h \in Int, NEW t \in Tokens, NEW c \in Clients
    PROVE  Waiting(h, t, c) \in Nat
<1> DEFINE w == activeWithdrawalRounds[t][c]
<1>1. w \in Rounds /\ \A r \in Rounds : clientRequestedWithdrawals[r][t][c]
                                         \in [amount : Nat, openingBalance : Nat]
  BY DEF TypeOK
<1>2. clientRequestedWithdrawals[w][t][c].amount \in Nat
  <2> HIDE DEF w
  <2> QED
    BY <1>1
<1> QED
  BY <1>2 DEF Waiting

\* A complete round has a root for every registered token.
LEMMA CompleteMeansCommitted ==
    ASSUME TypeOK, CommitInv, NEW r \in 1..MaxRound, r <= committedRounds,
           NEW t \in registeredTokens
    PROVE  commits[r][t] # NoRoot
BY DEF CommitInv, CommitsComplete

\* What waits from before a complete round is only paid: it is too late to ask for
\* more and to cancel.
LEMMA WaitingStep ==
    ASSUME TypeOK, CommitInv, BlankInv, PaymentInv, [AnyNext]_vars,
           NEW h \in Int, h <= committedRounds, NEW t \in Tokens, NEW c \in Clients,
           ~confirmWithdrawal(c, t)
    PROVE  Waiting(h, t, c)' = Waiting(h, t, c)
<1>0. /\ clientRequestedWithdrawals \in
            [Rounds -> [Tokens -> [Clients -> [amount : Nat, openingBalance : Nat]]]]
      /\ totalRequestedWithdrawals \in [Rounds -> [Tokens -> Nat]]
      /\ activeWithdrawalRounds \in [Tokens -> [Clients -> Rounds]]
      /\ round \in Rounds /\ round \in Nat /\ committedRounds \in Nat /\ MaxRound \in Nat
      /\ h <= round
  <2>1. /\ clientRequestedWithdrawals \in
              [Rounds -> [Tokens -> [Clients -> [amount : Nat, openingBalance : Nat]]]]
        /\ totalRequestedWithdrawals \in [Rounds -> [Tokens -> Nat]]
        /\ activeWithdrawalRounds \in [Tokens -> [Clients -> Rounds]]
        /\ round \in Rounds /\ committedRounds \in Nat /\ MaxRound \in Nat
    BY ConstantsAssumption DEF TypeOK
  <2>2. round \in Nat
    BY <2>1 DEF Rounds
  <2>3. committedRounds <= round
    BY DEF CommitInv
  <2> QED
    BY <2>1, <2>2, <2>3
<1> DEFINE w == activeWithdrawalRounds[t][c]
<1>1. w \in Rounds /\ w \in Nat
  BY <1>0 DEF Rounds
<1>2. ASSUME NEW e \in Clients, NEW u \in Tokens, NEW amount \in Amounts(u),
             initiateWithdrawal(e, u, amount)
      PROVE  Waiting(h, t, c)' = Waiting(h, t, c)
  <2>0. PICK balance : clientRequestedWithdrawals'
         = [clientRequestedWithdrawals EXCEPT ![round][u][e] =
               [amount |-> amount, openingBalance |-> balance]]
    BY <1>2 DEF initiateWithdrawal
  <2> DEFINE request == [amount |-> amount, openingBalance |-> balance]
  <2>1. /\ clientRequestedWithdrawals'
               = [clientRequestedWithdrawals EXCEPT ![round][u][e] = request]
        /\ activeWithdrawalRounds' = [activeWithdrawalRounds EXCEPT ![u][e] = round]
        /\ activeWithdrawalRounds[u][e] = 0
    BY <2>0, <1>2 DEF initiateWithdrawal
  <2> HIDE DEF request
  <2>2. CASE u = t /\ e = c
    <3>1. Waiting(h, t, c) = 0
      BY <2>1, <2>2 DEF Waiting
    <3>2. activeWithdrawalRounds'[t][c] = round
      BY <1>0, <2>1, <2>2
    <3>3. Waiting(h, t, c)' = 0
      BY <1>0, <3>2 DEF Waiting
    <3> QED
      BY <3>1, <3>3
  <2>3. CASE ~ (u = t /\ e = c)
    <3>1. /\ activeWithdrawalRounds'[t][c] = w
          /\ \A r \in Rounds : clientRequestedWithdrawals'[r][t][c]
                                 = clientRequestedWithdrawals[r][t][c]
      BY <1>0, <2>1, <2>3
    <3> QED
      BY <1>1, <3>1 DEF Waiting
  <2> QED
    BY <2>2, <2>3
<1>3. ASSUME NEW e \in Clients, NEW u \in Tokens, confirmWithdrawal(e, u)
      PROVE  Waiting(h, t, c)' = Waiting(h, t, c)
  <2>1. /\ activeWithdrawalRounds' = [activeWithdrawalRounds EXCEPT ![u][e] = 0]
        /\ clientRequestedWithdrawals' = clientRequestedWithdrawals
        /\ ~ (u = t /\ e = c)
    BY <1>3 DEF confirmWithdrawal, EndRequest
  <2>2. activeWithdrawalRounds'[t][c] = activeWithdrawalRounds[t][c]
    BY <1>0, <2>1
  <2> QED
    BY <2>1, <2>2 DEF Waiting
<1>4. ASSUME NEW e \in Clients, NEW u \in Tokens, NEW approvals \in SUBSET Approvals,
             cancelWithdrawal(e, u, approvals)
      PROVE  Waiting(h, t, c)' = Waiting(h, t, c)
  <2> DEFINE v == activeWithdrawalRounds[u][e]
             amount == clientRequestedWithdrawals[v][u][e].amount
             cleared == [clientRequestedWithdrawals[v][u][e] EXCEPT !.amount = 0]
  <2>1. /\ clientRequestedWithdrawals'
               = [clientRequestedWithdrawals EXCEPT ![v][u][e] = cleared]
        /\ activeWithdrawalRounds' = [activeWithdrawalRounds EXCEPT ![u][e] = 0]
        /\ amount <= totalRequestedWithdrawals[v][u] /\ v > 0 /\ canCancelWithdrawal(v, u)
    BY <1>4 DEF cancelWithdrawal, ClearRequest, EndRequest
  <2>2. v \in Rounds /\ v \in Nat
    BY <1>0 DEF Rounds
  <2>3. CASE u = t /\ e = c
    <3>1. Waiting(h, t, c)' = 0
      <4>1. activeWithdrawalRounds'[t][c] = 0
        BY <1>0, <2>1, <2>3
      <4> QED
        BY <4>1 DEF Waiting
    <3>2. Waiting(h, t, c) = 0
      <4> SUFFICES ASSUME v < h, amount # 0 PROVE FALSE
        BY <2>3 DEF Waiting
      <4>1. amount \in Nat
        <5>1. \A r \in Rounds : clientRequestedWithdrawals[r][u][e]
                                 \in [amount : Nat, openingBalance : Nat]
          BY <1>0
        <5> HIDE DEF v
        <5> QED
          BY <2>2, <5>1
      <4>2. totalRequestedWithdrawals[v][u] \in Nat
        BY <1>0, <2>2
      <4> HIDE DEF v, amount, cleared
      <4>3. t \in registeredTokens
        BY <2>1, <2>2, <2>3, <4>1, <4>2 DEF BlankInv
      <4>4. round = v + 1 /\ commits[round][t] = NoRoot /\ committedRounds = round
        BY <1>0, <2>1, <2>2, <2>3 DEF canCancelWithdrawal, CommitInv
      <4>5. round \in 1..MaxRound /\ round <= committedRounds
        BY <1>0, <2>2, <4>4 DEF Rounds
      <4> QED
        BY <4>3, <4>4, <4>5, CompleteMeansCommitted
    <3> QED
      BY <3>1, <3>2
  <2>4. CASE ~ (u = t /\ e = c)
    <3> HIDE DEF v, amount, cleared
    <3>1. /\ activeWithdrawalRounds'[t][c] = w
          /\ \A r \in Rounds : clientRequestedWithdrawals'[r][t][c]
                                 = clientRequestedWithdrawals[r][t][c]
      BY <1>0, <2>1, <2>2, <2>4
    <3> QED
      BY <1>1, <3>1 DEF Waiting
  <2> QED
    BY <2>3, <2>4
<1>5. CASE UNCHANGED withdrawalVars
  BY <1>5 DEF withdrawalVars, Waiting
<1> QED
  BY <1>2, <1>3, <1>4, <1>5, WithdrawalFootprint

\* A confirmation pays what has been waiting from before the horizon.
LEMMA WaitingPaid ==
    ASSUME TypeOK, HaltInv, NEW t \in Tokens, NEW c \in Clients, confirmWithdrawal(c, t),
           NEW h \in Int, Horizon <= h
    PROVE  /\ Waiting(h, t, c)' = 0
           /\ Waiting(h, t, c)
                 = clientRequestedWithdrawals[activeWithdrawalRounds[t][c]][t][c].amount
           /\ transferTokenToClient(t, c, Waiting(h, t, c))
<1> DEFINE w == activeWithdrawalRounds[t][c]
<1>1. /\ w > 0 /\ w <= lastConfirmedRoundForWithdrawals
      /\ activeWithdrawalRounds' = [activeWithdrawalRounds EXCEPT ![t][c] = 0]
      /\ transferTokenToClient(t, c, clientRequestedWithdrawals[w][t][c].amount)
  BY DEF confirmWithdrawal, EndRequest
<1>2. w \in Nat /\ activeWithdrawalRounds \in [Tokens -> [Clients -> Rounds]]
  BY ConstantsAssumption DEF TypeOK, Rounds
<1>3. lastConfirmedRoundForWithdrawals = Horizon - 1 /\ Horizon \in Int
  <2>1. round \in Int /\ haltedRound \in Int
    BY DEF TypeOK, Rounds
  <2>2. CASE halted
    BY <2>1, <2>2 DEF lastConfirmedRoundForWithdrawals, getCurrentRound, Horizon
  <2>3. CASE ~halted
    BY <2>1, <2>3 DEF lastConfirmedRoundForWithdrawals, getCurrentRound, getCurrentQuarter,
       Horizon
  <2> QED
    BY <2>2, <2>3
<1>4. w < h
  <2> HIDE DEF w
  <2> QED
    BY <1>1, <1>2, <1>3
<1>5. activeWithdrawalRounds'[t][c] = 0
  BY <1>1, <1>2
<1> QED
  BY <1>1, <1>4, <1>5 DEF Waiting

-----------------------------------------------------------------------------
(* What a client can claim, without the sum over the rounds. *)

Since(t, c) ==
    DepositedIn(c, t, Horizon) + DepositedIn(c, t, Horizon + 1) + DepositedIn(c, t, Horizon + 2)

Claim(t, c) ==
    Waiting(Horizon, t, c) + IF recovered[t][c] THEN 0 ELSE Proven(t, c) + Since(t, c)

Claims(t) == [c \in Clients |-> Claim(t, c)]

\* A client has deposited nothing in a round that has not begun.
LEMMA NoEarlyDeposits ==
    ASSUME TypeOK, BlankInv, TotalsMatch, NEW r \in Int, r > round,
           NEW t \in Tokens, NEW c \in Clients
    PROVE  DepositedIn(c, t, r) = 0
<1> SUFFICES ASSUME r \in Rounds PROVE clientDeposits[r][t][c] = 0
  BY DEF DepositedIn
<1> DEFINE f == clientDeposits[r][t]
<1>1. f \in [Clients -> Nat] /\ IsFiniteSet(Clients)
  BY ConstantsAssumption DEF TypeOK
<1>2. SumFunction(f) = 0
  BY DEF BlankInv, TotalsMatch
<1>3. f[c] <= 0 /\ f[c] \in Nat
  <2> HIDE DEF f
  <2>1. \A x \in Clients : f[x] \in Nat
    BY <1>1
  <2>2. SumFunctionOnSet(f, Clients) = 0
    BY <1>1, <1>2, SumOverClients
  <2> QED
    BY <1>1, <2>1, <2>2, SumAtLeast
<1> QED
  BY <1>3

LEMMA DepositsSinceHorizon ==
    ASSUME TypeOK, HaltInv, BlankInv, TotalsMatch, NEW t \in Tokens, NEW c \in Clients
    PROVE  Sum({r \in Rounds : Horizon <= r /\ r <= HaltRound}, LAMBDA r : DepositedIn(c, t, r))
              = Since(t, c)
<1> DEFINE S == {r \in Rounds : Horizon <= r /\ r <= HaltRound}
           g == [r \in S |-> DepositedIn(c, t, r)]
           f == [r \in Int |-> DepositedIn(c, t, r)]
           h == Horizon
<1>1. /\ round \in Nat /\ HaltRound = round /\ h \in {round - 2, round - 1} /\ h \in Int
      /\ Rounds \subseteq Int
  BY HorizonRange DEF Rounds
<1>2. Sum(S, LAMBDA r : DepositedIn(c, t, r)) = SumFunctionOnSet(g, S)
  BY DEF Sum, MapThenSumSet, SumFunctionOnSet, FoldFunctionOnSet, MapThenFoldSet
<1>3. S \in SUBSET {h, h + 1, h + 2}
  <2> SUFFICES ASSUME NEW r \in S PROVE r \in {h, h + 1, h + 2}
    OBVIOUS
  <2>1. r \in Int /\ h <= r /\ r <= round
    BY <1>1
  <2> HIDE DEF h
  <2> QED
    BY <1>1, <2>1
<1>4. \A r \in Int : f[r] \in Nat
  BY DEF DepositedIn, TypeOK
<1>5. \A r \in {h, h + 1, h + 2} : r \notin S => f[r] = 0
  <2> SUFFICES ASSUME NEW r \in {h, h + 1, h + 2}, r \notin S PROVE DepositedIn(c, t, r) = 0
    BY <1>1
  <2>1. CASE r \notin Rounds
    BY <2>1 DEF DepositedIn
  <2>2. CASE r \in Rounds
    <3>1. r \in Int /\ r > round
      BY <1>1, <2>2
    <3> QED
      BY <3>1, NoEarlyDeposits
  <2> QED
    BY <2>1, <2>2
<1>6. \A r \in S : g[r] = f[r]
  BY <1>1
<1>7. h # h + 1 /\ h # h + 2 /\ h + 1 # h + 2 /\ {h, h + 1, h + 2} \subseteq Int
  BY <1>1
<1>8. SumFunctionOnSet(g, S) = f[h] + f[h + 1] + f[h + 2]
  <2> DEFINE i == h + 1
             j == h + 2
  <2>1. \A r \in {h, i, j} : f[r] \in Int /\ (r \notin S => f[r] = 0)
    <3> HIDE DEF S, f, h
    <3> QED
      BY <1>4, <1>5, <1>7
  <2>2. h # i /\ h # j /\ i # j /\ S \in SUBSET {h, i, j}
    BY <1>3, <1>7
  <2> HIDE DEF S, f, g, h, i, j
  <2>3. SumFunctionOnSet(g, S) = f[h] + f[i] + f[j]
    BY <1>6, <2>1, <2>2, SumOfThree
  <2> QED
    BY <2>3 DEF i, j
<1>9. f[h] + f[h + 1] + f[h + 2] = Since(t, c)
  BY <1>1 DEF Since
<1> QED
  BY <1>2, <1>8, <1>9

\* What is proven is provable, or nothing is, and it is the most that is.
LEMMA ProvenIsMost ==
    ASSUME TypeOK, RootInv, NEW t \in Tokens, NEW c \in Clients
    PROVE  /\ Proven(t, c) \in Nat
           /\ \A balance \in Provable(c, t, Horizon) : balance <= Proven(t, c)
<1> DEFINE S == {0} \cup Provable(c, t, Horizon)
<1>1. PICK n \in Nat : S \subseteq 0..n
  <2>1. CASE Horizon \in Rounds /\ commits[Horizon][t] # NoRoot
    <3>1. /\ openingBalances[Horizon][t] \in Nat
          /\ commits[Horizon][t][c] \subseteq 0..openingBalances[Horizon][t]
      BY <2>1 DEF TypeOK, RootInv
    <3> QED
      BY <2>1, <3>1 DEF Provable
  <2>2. CASE ~ (Horizon \in Rounds /\ commits[Horizon][t] # NoRoot)
    <3>1. S \subseteq 0..0
      BY <2>2 DEF Provable
    <3> QED
      BY <3>1
  <2> QED
    BY <2>1, <2>2
<1>2. Max(S) \in S /\ \A y \in S : y <= Max(S)
  <2>1. S \in SUBSET (0..n) /\ S # {}
    BY <1>1
  <2> HIDE DEF S
  <2> QED
    BY <2>1, GreatestIsIn
<1>3. Proven(t, c) = Max(S)
  BY DEF Proven
<1> QED
  BY <1>1, <1>2, <1>3

LEMMA SinceType ==
    ASSUME TypeOK, NEW t \in Tokens, NEW c \in Clients
    PROVE  Since(t, c) \in Nat
<1>1. ASSUME NEW r PROVE DepositedIn(c, t, r) \in Nat
  BY DEF TypeOK, DepositedIn
<1> QED
  BY <1>1 DEF Since

\* What is owed is what can be claimed.
ClaimsAreOwed ==
    \A t \in Tokens, c \in Clients : Owed(t, c) = Claim(t, c) /\ Claim(t, c) \in Nat

LEMMA OwedAsClaim == TypeOK /\ HaltInv /\ RootInv /\ BlankInv /\ TotalsMatch => ClaimsAreOwed
<1> SUFFICES ASSUME TypeOK, HaltInv, RootInv, BlankInv, TotalsMatch,
                    NEW t \in Tokens, NEW c \in Clients
             PROVE  Owed(t, c) = Claim(t, c) /\ Claim(t, c) \in Nat
  BY DEF ClaimsAreOwed
<1>1. Owed(t, c) = Claim(t, c)
  <2> DEFINE deposited == Sum({r \in Rounds : Horizon <= r /\ r <= HaltRound},
                              LAMBDA r : DepositedIn(c, t, r))
  <2>1. Owed(t, c) = Waiting(Horizon, t, c)
                        + IF recovered[t][c] THEN 0 ELSE Proven(t, c) + deposited
    BY Zenon DEF Owed
  <2>2. deposited = Since(t, c)
    BY DepositsSinceHorizon
  <2> HIDE DEF deposited
  <2> QED
    BY <2>1, <2>2 DEF Claim
<1>2. Waiting(Horizon, t, c) \in Nat
  BY HorizonRange, WaitingType
<1> QED
  BY <1>1, <1>2, ProvenIsMost, SinceType DEF Claim

-----------------------------------------------------------------------------
(* What the contract holds is what the clients can claim. *)

LEMMA DepositsAddUp ==
    ASSUME TypeOK, TotalsMatch, NEW r \in Int, NEW t \in Tokens
    PROVE  /\ SumFunctionOnSet([c \in Clients |-> DepositedIn(c, t, r)], Clients)
                 = TotalDepositedIn(t, r)
           /\ TotalDepositedIn(t, r) \in Nat
<1> DEFINE f == [c \in Clients |-> DepositedIn(c, t, r)]
           g == clientDeposits[r][t]
<1>0. IsFiniteSet(Clients)
  BY ConstantsAssumption
<1>1. CASE r \in Rounds
  <2>1. /\ \A c \in Clients : f[c] \in Int /\ f[c] = g[c]
        /\ DOMAIN g = Clients /\ totalDeposits[r][t] \in Nat
    BY <1>1 DEF DepositedIn, TypeOK
  <2>2. totalDeposits[r][t] = SumFunction(g)
    BY <1>1 DEF TotalsMatch
  <2>3. SumFunctionOnSet(f, Clients) = SumFunctionOnSet(g, Clients)
    <3> HIDE DEF f, g
    <3> QED
      BY <1>0, <2>1, SumEqual
  <2> QED
    BY <1>1, <2>1, <2>2, <2>3, SumOverClients DEF TotalDepositedIn
<1>2. CASE r \notin Rounds
  <2>1. \A c \in Clients : f[c] = 0
    BY <1>2 DEF DepositedIn
  <2>2. SumFunctionOnSet(f, Clients) = 0
    <3> HIDE DEF f
    <3> QED
      BY <1>0, <2>1, SumZero
  <2> QED
    BY <1>2, <2>2 DEF TotalDepositedIn
<1> QED
  BY <1>1, <1>2

\* The horizon is a complete round, or one before the first.
LEMMA HorizonCommitted ==
    ASSUME TypeOK, HaltInv, round <= committedRounds + 2
    PROVE  Horizon \in (-2)..MaxRound /\ Horizon <= committedRounds
<1>0. /\ round \in Nat /\ committedRounds \in Nat /\ MaxRound \in Nat /\ quarter \in Quarters
      /\ round <= MaxRound /\ Horizon \in {round - 2, round - 1}
  BY ConstantsAssumption, HorizonRange DEF TypeOK, Rounds
<1>1. CASE Horizon = round - 2
  BY <1>0, <1>1
<1>2. CASE Horizon # round - 2
  <2>1. quarter # 0 /\ ~halted /\ ~HaltDue
    BY <1>2 DEF Horizon, HaltInv
  <2>2. round > 0 => ~ (committedRounds < round)
    BY <2>1 DEF HaltDue, IsMissingCommits
  <2> QED
    BY <1>0, <2>2
<1> QED
  BY <1>1, <1>2

\* What the clients together can prove, and what there was.
LEMMA ProvenAddsUp ==
    ASSUME TypeOK, RootInv, NEW t \in Tokens
    PROVE  /\ ProvenOf(t) = SumFunctionOnSet([c \in Clients |-> Proven(t, c)], Clients)
           /\ ProvenOf(t) \in Nat
           /\ OpeningOf(t, Horizon) \in Nat
<1> DEFINE f == [c \in Clients |-> Proven(t, c)]
<1>0. IsFiniteSet(Clients) /\ OpeningOf(t, Horizon) \in Nat
  BY ConstantsAssumption DEF OpeningOf, TypeOK
<1>1. \A c \in Clients : f[c] \in Nat
  BY ProvenIsMost
<1>2. DOMAIN f = Clients /\ ProvenOf(t) = SumFunction(f)
  BY DEF ProvenOf
<1> HIDE DEF f
<1>3. SumFunctionOnSet(f, Clients) \in Nat
  BY <1>0, <1>1, SumNat
<1>4. ProvenOf(t) = SumFunctionOnSet(f, Clients)
  BY <1>2, SumOverClients
<1> QED
  BY <1>0, <1>3, <1>4 DEF f

\* As long as nobody has recovered, the claims are the parts of the book, with what
\* is proven in the place of what there was.
LEMMA ClaimsAddUp ==
    ASSUME IInv, TotalsMatch, RootInv, NEW t \in Tokens, NobodyRecovered(t)
    PROVE  /\ SumFunctionOnSet(Claims(t), Clients)
                 = Book(Horizon, t) - OpeningOf(t, Horizon) + ProvenOf(t)
           /\ Book(Horizon, t) \in Int
<1> USE DEF IInv
<1> DEFINE h == Horizon
           D(r) == [c \in Clients |-> DepositedIn(c, t, r)]
           f0 == [c \in Clients |-> Waiting(h, t, c)]
           f1 == [c \in Clients |-> Proven(t, c)]
           f2 == D(h)
           f3 == D(h + 1)
           f4 == D(h + 2)
           g1 == [c \in Clients |-> f0[c] + f1[c]]
           g2 == [c \in Clients |-> g1[c] + f2[c]]
           g3 == [c \in Clients |-> g2[c] + f3[c]]
           S(f) == SumFunctionOnSet(f, Clients)
<1>0. IsFiniteSet(Clients) /\ h \in Int /\ h + 1 \in Int /\ h + 2 \in Int
  BY ConstantsAssumption, HorizonRange
<1>1. \A c \in Clients : /\ f0[c] \in Int /\ f1[c] \in Int
                         /\ f2[c] \in Int /\ f3[c] \in Int /\ f4[c] \in Int
  <2>1. \A c \in Clients, r \in Int : DepositedIn(c, t, r) \in Nat
    BY DEF DepositedIn, TypeOK
  <2>2. \A c \in Clients : f0[c] \in Nat /\ f1[c] \in Nat
    BY <1>0, WaitingType, ProvenIsMost
  <2> QED
    BY <1>0, <2>1, <2>2
<1>2. \A c \in Clients : Claims(t)[c] = g3[c] + f4[c]
  <2> SUFFICES ASSUME NEW c \in Clients PROVE Claims(t)[c] = g3[c] + f4[c]
    OBVIOUS
  <2>1. Claims(t)[c] = f0[c] + (f1[c] + (f2[c] + f3[c] + f4[c]))
    BY DEF Claims, Claim, NobodyRecovered, Since
  <2>2. g3[c] = f0[c] + f1[c] + f2[c] + f3[c]
    OBVIOUS
  <2> HIDE DEF f0, f1, f2, f3, f4, g3
  <2> QED
    BY <1>1, <2>1, <2>2
<1>3. /\ \A c \in Clients : g1[c] = f0[c] + f1[c] /\ g1[c] \in Int
      /\ \A c \in Clients : g2[c] = g1[c] + f2[c] /\ g2[c] \in Int
      /\ \A c \in Clients : g3[c] = g2[c] + f3[c] /\ g3[c] \in Int
  <2> HIDE DEF f0, f1, f2, f3
  <2> QED
    BY <1>1
<1>4. /\ S(f2) = TotalDepositedIn(t, h) /\ S(f3) = TotalDepositedIn(t, h + 1)
      /\ S(f4) = TotalDepositedIn(t, h + 2)
      /\ S(f2) \in Nat /\ S(f3) \in Nat /\ S(f4) \in Nat
  BY <1>0, DepositsAddUp
<1>5. S(f1) = ProvenOf(t) /\ S(f1) \in Nat /\ OpeningOf(t, h) \in Nat
  BY ProvenAddsUp
<1>6. S(f0) \in Int /\ DOMAIN f0 = Clients
  <2>1. DOMAIN f0 = Clients
    OBVIOUS
  <2> HIDE DEF f0
  <2> QED
    BY <1>0, <1>1, <2>1, SumInt
<1>7. Book(h, t) = OpeningOf(t, h) + S(f2) + S(f3) + S(f4) + S(f0)
  <2>1. SumFunction(f0) = S(f0)
    BY SumOverClients
  <2> QED
    BY <1>4, <2>1 DEF Book
<1>8. S(Claims(t)) = S(f0) + S(f1) + S(f2) + S(f3) + S(f4)
  <2> HIDE DEF f0, f1, f2, f3, f4, g1, g2, g3
  <2>1. S(g1) = S(f0) + S(f1)
    BY <1>0, <1>1, <1>3, SumPlus
  <2>2. S(g2) = S(g1) + S(f2)
    BY <1>0, <1>1, <1>3, SumPlus
  <2>3. S(g3) = S(g2) + S(f3)
    BY <1>0, <1>1, <1>3, SumPlus
  <2>4. S(Claims(t)) = S(g3) + S(f4)
    BY <1>0, <1>1, <1>2, <1>3, SumPlus
  <2> QED
    BY <2>1, <2>2, <2>3, <2>4
<1> QED
  <2> HIDE DEF f0, f1, f2, f3, f4
  <2> QED
    BY <1>4, <1>5, <1>6, <1>7, <1>8

LEMMA OwedOfToken ==
    ClaimsAreOwed => \A t \in Tokens : /\ owed[t] = Claims(t)
                                       /\ SumFunction(owed[t]) = SumFunctionOnSet(Claims(t), Clients)
<1> SUFFICES ASSUME ClaimsAreOwed, NEW t \in Tokens
             PROVE  /\ owed[t] = Claims(t)
                    /\ SumFunction(owed[t]) = SumFunctionOnSet(Claims(t), Clients)
  OBVIOUS
<1>1. owed[t] = Claims(t)
  BY DEF ClaimsAreOwed, owed, Claims
<1>2. DOMAIN Claims(t) = Clients
  BY DEF Claims
<1> QED
  BY <1>1, <1>2, SumOverClients

\* The claims on every sound token are covered, and before the first recovery the
\* claims differ from what is held by what the operator's root proves too much.
ClaimsCovered ==
    \A t \in Tokens :
        /\ sound[t] => SumFunction(owed[t]) <= held[t]
        /\ NobodyRecovered(t) =>
              SumFunction(owed[t]) - held[t] = ProvenOf(t) - OpeningOf(t, Horizon)

LEMMA HeldForTheClaims == IInv /\ MoneyInv => ClaimsCovered
<1> SUFFICES ASSUME IInv, MoneyInv, NEW t \in Tokens
             PROVE  /\ sound[t] => SumFunction(owed[t]) <= held[t]
                    /\ NobodyRecovered(t) =>
                         SumFunction(owed[t]) - held[t] = ProvenOf(t) - OpeningOf(t, Horizon)
  BY DEF ClaimsCovered
<1>1. SumFunction(owed[t]) = SumFunctionOnSet(Claims(t), Clients)
  BY OwedAsClaim, OwedOfToken DEF IInv, MoneyInv
<1>2. CASE NobodyRecovered(t)
  <2>1. held[t] = Book(Horizon, t) /\ held[t] \in Int
    BY <1>2, HorizonCommitted DEF MoneyInv, PoolInv, IInv, TypeOK
  <2>2. ProvenOf(t) \in Nat /\ OpeningOf(t, Horizon) \in Nat
    BY ProvenAddsUp DEF IInv, MoneyInv
  <2>3. SumFunction(owed[t]) = held[t] - OpeningOf(t, Horizon) + ProvenOf(t)
    BY <1>1, <1>2, <2>1, ClaimsAddUp DEF MoneyInv
  <2>4. sound[t] <=> ProvenOf(t) <= OpeningOf(t, Horizon)
    BY DEF sound
  <2> QED
    BY <2>1, <2>2, <2>3, <2>4
<1>3. CASE ~NobodyRecovered(t)
  BY <1>3 DEF MoneyInv, PoolInv
<1> QED
  BY <1>2, <1>3
-----------------------------------------------------------------------------
(* What each step does to the book. *)

\* Tokens move with a deposit, a confirmation or a recovery only.
LEMMA MoneyFootprint ==
    ASSUME [AnyNext]_vars
    PROVE  \/ \E c \in Clients, t \in Tokens : \E amount \in Amounts(t) :
                 depositTokens(c, t, amount)
           \/ \E c \in Clients, t \in Tokens : confirmWithdrawal(c, t)
           \/ \E c \in Clients, t \in Tokens :
                 recoverAllFunds(c, t) \/ recoverOnChainFundsOnly(c, t)
           \/ UNCHANGED <<erc20Vars, recovered, depositVars>>
<1>1. CASE Tick
  BY <1>1 DEF Tick
<1>2. CASE updateHaltedState
  BY <1>2 DEF updateHaltedState
<1>3. ASSUME NEW t \in Tokens, registerToken(t)
      PROVE  UNCHANGED <<erc20Vars, recovered, depositVars>>
  BY <1>3 DEF registerToken
<1>4. ASSUME NEW t \in Tokens, NEW root \in Roots, commit(t, root)
      PROVE  UNCHANGED <<erc20Vars, recovered, depositVars>>
  BY <1>4 DEF commit
<1>5. ASSUME NEW c \in Clients, NEW t \in Tokens, NEW approvals \in SUBSET Approvals,
             cancelWithdrawal(c, t, approvals)
      PROVE  UNCHANGED <<erc20Vars, recovered, depositVars>>
  BY <1>5 DEF cancelWithdrawal
<1>6. ASSUME NEW c \in Clients, NEW fills \in SUBSET Fills,
             NEW approvalOf \in ApprovalsFor(fills), closeDispute(c, fills, approvalOf)
      PROVE  UNCHANGED <<erc20Vars, recovered, depositVars>>
  BY <1>6 DEF closeDispute
<1>7. ASSUME NEW c \in Clients, NEW t \in Tokens, NEW amount \in Amounts(t),
             initiateWithdrawal(c, t, amount)
      PROVE  UNCHANGED <<erc20Vars, recovered, depositVars>>
  BY <1>7 DEF initiateWithdrawal
<1>8. ASSUME NEW c \in Clients, NEW fills \in SUBSET Fills, NEW byProof \in BOOLEAN,
             openDispute(c, fills, byProof)
      PROVE  UNCHANGED <<erc20Vars, recovered, depositVars>>
  BY <1>8 DEF openDispute
<1>9. CASE UNCHANGED vars
  BY <1>9 DEF vars
<1> QED
  BY <1>1, <1>2, <1>3, <1>4, <1>5, <1>6, <1>7, <1>8, <1>9, Steps

\* The opening balance of a complete round is final.
LEMMA OpeningStays ==
    ASSUME TypeOK, CommitInv, [AnyNext]_vars, NEW h \in Int, h <= committedRounds,
           NEW t \in Tokens
    PROVE  OpeningOf(t, h)' = OpeningOf(t, h)
<1>1. ASSUME NEW u \in Tokens, NEW root \in Roots, commit(u, root)
      PROVE  OpeningOf(t, h)' = OpeningOf(t, h)
  <2>1. committedRounds = round - 1 /\ round \in 1..MaxRound /\ MaxRound \in Nat
    BY <1>1, CommitsInOrder, ConstantsAssumption
  <2>2. h # round
    BY <2>1
  <2>3. openingBalances' = [openingBalances EXCEPT ![round][u] = previousClosingBalance(u)]
        /\ openingBalances \in [Rounds -> [Tokens -> Nat]]
    BY <1>1 DEF commit, TypeOK
  <2> QED
    BY <2>2, <2>3 DEF OpeningOf
<1>2. ASSUME NEW u \in Tokens, registerToken(u) PROVE OpeningOf(t, h)' = OpeningOf(t, h)
  BY <1>2 DEF registerToken, commitVars, OpeningOf
<1>3. CASE UNCHANGED <<tokenVars, commitVars>>
  BY <1>3 DEF commitVars, OpeningOf
<1> QED
  BY <1>1, <1>2, <1>3, CommitFootprint

\* The requests that wait add up to a number, which a confirmation reduces.
WaitingSum(h, t) == SumFunction([c \in Clients |-> Waiting(h, t, c)])

LEMMA WaitingSumType ==
    ASSUME TypeOK, NEW h \in Int, NEW t \in Tokens
    PROVE  /\ WaitingSum(h, t) \in Nat
           /\ WaitingSum(h, t)
                 = SumFunctionOnSet([c \in Clients |-> Waiting(h, t, c)], Clients)
<1> DEFINE f == [c \in Clients |-> Waiting(h, t, c)]
<1>1. DOMAIN f = Clients /\ (\A c \in Clients : f[c] \in Nat) /\ IsFiniteSet(Clients)
  BY ConstantsAssumption, WaitingType
<1> HIDE DEF f
<1>2. SumFunctionOnSet(f, Clients) \in Nat /\ SumFunction(f) = SumFunctionOnSet(f, Clients)
  BY <1>1, SumNat, SumOverClients
<1> QED
  BY <1>2 DEF f, WaitingSum

LEMMA WaitingSumStays ==
    ASSUME NEW h, NEW t \in Tokens, \A c \in Clients : Waiting(h, t, c)' = Waiting(h, t, c)
    PROVE  WaitingSum(h, t)' = WaitingSum(h, t)
BY DEF WaitingSum

LEMMA WaitingSumPaid ==
    ASSUME TypeOK, CommitInv, BlankInv, PaymentInv, HaltInv, [AnyNext]_vars,
           NEW h \in Int, Horizon <= h, h <= committedRounds,
           NEW t \in Tokens, NEW c \in Clients, confirmWithdrawal(c, t)
    PROVE  WaitingSum(h, t)' = WaitingSum(h, t) - Waiting(h, t, c)
<1> DEFINE f == [x \in Clients |-> Waiting(h, t, x)]
           g == [x \in Clients |-> Waiting(h, t, x)']
<1>1. ASSUME NEW e \in Clients \ {c} PROVE ~confirmWithdrawal(e, t)
  <2>1. activeWithdrawalRounds \in [Tokens -> [Clients -> Rounds]]
    BY DEF TypeOK
  <2>2. activeWithdrawalRounds' = [activeWithdrawalRounds EXCEPT ![t][c] = 0]
    BY DEF confirmWithdrawal, EndRequest
  <2>3. activeWithdrawalRounds'[t][e] = activeWithdrawalRounds[t][e]
    BY <2>1, <2>2
  <2> SUFFICES ASSUME confirmWithdrawal(e, t) PROVE FALSE
    OBVIOUS
  <2>4. activeWithdrawalRounds[t][e] > 0
    BY DEF confirmWithdrawal
  <2>5. activeWithdrawalRounds' = [activeWithdrawalRounds EXCEPT ![t][e] = 0]
    BY DEF confirmWithdrawal, EndRequest
  <2>6. activeWithdrawalRounds'[t][e] = 0
    BY <2>1, <2>5
  <2> QED
    BY <2>3, <2>4, <2>6
<1>2. /\ \A x \in Clients \ {c} : g[x] = f[x]
      /\ \A x \in Clients : f[x] \in Nat
      /\ g[c] = 0 /\ g[c] \in Int /\ f[c] = Waiting(h, t, c) /\ IsFiniteSet(Clients)
      /\ DOMAIN g = Clients
  <2>1. IsFiniteSet(Clients)
    BY ConstantsAssumption
  <2>2. \A x \in Clients \ {c} : g[x] = f[x]
    BY <1>1, WaitingStep
  <2>3. g[c] = 0
    BY WaitingPaid
  <2>4. \A x \in Clients : f[x] \in Nat
    BY WaitingType
  <2> QED
    BY <2>1, <2>2, <2>3, <2>4
<1>3. WaitingSum(h, t)' = SumFunction(g) /\ WaitingSum(h, t) = SumFunctionOnSet(f, Clients)
  BY WaitingSumType DEF WaitingSum
<1> HIDE DEF f, g
<1>4. SumFunctionOnSet(g, Clients) = SumFunctionOnSet(f, Clients) - f[c] + g[c]
  <2>1. \A x \in Clients : f[x] \in Int
    BY <1>2
  <2> QED
    BY <1>2, <2>1, SumChange
<1>5. SumFunction(g) = SumFunctionOnSet(g, Clients)
  BY <1>2, SumOverClients
<1>6. SumFunctionOnSet(f, Clients) \in Nat
  BY <1>2, SumNat
<1> QED
  BY <1>2, <1>3, <1>4, <1>5, <1>6

\* The three terms of the deposits in a book.
BookedSince(h, t) ==
    TotalDepositedIn(t, h) + TotalDepositedIn(t, h + 1) + TotalDepositedIn(t, h + 2)

LEMMA BookParts ==
    ASSUME TypeOK, NEW h \in Int, NEW t \in Tokens
    PROVE  /\ Book(h, t) = OpeningOf(t, h) + BookedSince(h, t) + WaitingSum(h, t)
           /\ OpeningOf(t, h) \in Nat /\ BookedSince(h, t) \in Nat /\ WaitingSum(h, t) \in Nat
<1>1. OpeningOf(t, h) \in Nat
  BY DEF OpeningOf, TypeOK
<1>2. ASSUME NEW r PROVE TotalDepositedIn(t, r) \in Nat
  BY DEF TotalDepositedIn, TypeOK
<1>3. WaitingSum(h, t) \in Nat
  BY WaitingSumType
<1> QED
  BY <1>1, <1>2, <1>3 DEF Book, BookedSince, WaitingSum

LEMMA BookPartsNext ==
    ASSUME TypeOK', NEW h \in Int, NEW t \in Tokens
    PROVE  Book(h, t)' = OpeningOf(t, h)' + BookedSince(h, t)' + WaitingSum(h, t)'
<1>1. OpeningOf(t, h)' \in Nat
  BY DEF OpeningOf, TypeOK
<1>2. ASSUME NEW r PROVE TotalDepositedIn(t, r)' \in Nat
  BY DEF TotalDepositedIn, TypeOK
<1> QED
  BY <1>1, <1>2 DEF Book, BookedSince, WaitingSum

\* A deposit is booked once, whatever round between horizon and now one counts from.
LEMMA BookedDeposit ==
    ASSUME TypeOK, HaltInv, NEW h \in Int, Horizon <= h, h <= round,
           NEW t \in Tokens, NEW e \in Clients, NEW u \in Tokens, NEW amount \in Nat,
           depositTokens(e, u, amount)
    PROVE  BookedSince(h, t)' = BookedSince(h, t) + IF t = u THEN amount ELSE 0
<1>0. /\ round \in Nat /\ round \in Rounds /\ Horizon \in {round - 2, round - 1}
      /\ totalDeposits \in [Rounds -> [Tokens -> Nat]]
      /\ totalDeposits' = [totalDeposits EXCEPT ![round][u] = @ + amount]
  BY HorizonRange DEF TypeOK, depositTokens
<1>1. ASSUME NEW r
      PROVE  /\ TotalDepositedIn(t, r) \in Nat
             /\ TotalDepositedIn(t, r)' = TotalDepositedIn(t, r)
                    + IF t = u /\ r = round THEN amount ELSE 0
  <2>1. CASE r \in Rounds
    <3>1. /\ totalDeposits[r][t] \in Nat
          /\ totalDeposits'[r][t]
                = totalDeposits[r][t] + IF t = u /\ r = round THEN amount ELSE 0
      BY <1>0, <2>1
    <3> QED
      BY <2>1, <3>1 DEF TotalDepositedIn
  <2>2. CASE r \notin Rounds
    <3>1. r # round
      BY <1>0, <2>2
    <3> QED
      BY <2>2, <3>1 DEF TotalDepositedIn
  <2> QED
    BY <2>1, <2>2
<1>2. round \in {h, h + 1, h + 2}
  BY <1>0
<1>3. CASE t = u
  BY <1>0, <1>1, <1>2, <1>3 DEF BookedSince
<1>4. CASE t # u
  BY <1>1, <1>4 DEF BookedSince
<1> QED
  BY <1>3, <1>4

\* Who waits is not paid by a deposit.
LEMMA DepositPaysNobody ==
    ASSUME NEW e, NEW u, NEW amount, depositTokens(e, u, amount),
           TypeOK, NEW t \in Tokens, NEW c \in Clients
    PROVE  ~confirmWithdrawal(c, t)
<1>1. activeWithdrawalRounds' = activeWithdrawalRounds
      /\ activeWithdrawalRounds \in [Tokens -> [Clients -> Rounds]]
  BY DEF depositTokens, withdrawalVars, TypeOK
<1> SUFFICES ASSUME confirmWithdrawal(c, t) PROVE FALSE
  OBVIOUS
<1>2. /\ activeWithdrawalRounds[t][c] > 0
      /\ activeWithdrawalRounds' = [activeWithdrawalRounds EXCEPT ![t][c] = 0]
  BY DEF confirmWithdrawal, EndRequest
<1> QED
  BY <1>1, <1>2

\* Every reckoning from a complete round changes by what the contract takes and pays.
LEMMA BookStep ==
    ASSUME TypeOK, TypeOK', CommitInv, BlankInv, PaymentInv, HaltInv, [AnyNext]_vars,
           NEW h \in Int, Horizon <= h, h <= committedRounds, NEW t \in Tokens,
           NobodyRecovered(t)', held[t] = Book(h, t)
    PROVE  held'[t] = Book(h, t)'
<1>0. /\ held \in [Tokens -> Nat] /\ round \in Nat /\ h <= round
      /\ recovered \in [Tokens -> [Clients -> BOOLEAN]]
  BY ConstantsAssumption DEF TypeOK, CommitInv, Rounds
<1>1. OpeningOf(t, h)' = OpeningOf(t, h)
  BY OpeningStays
<1>2. /\ Book(h, t) = OpeningOf(t, h) + BookedSince(h, t) + WaitingSum(h, t)
      /\ OpeningOf(t, h) \in Nat /\ BookedSince(h, t) \in Nat /\ WaitingSum(h, t) \in Nat
      /\ Book(h, t)' = OpeningOf(t, h)' + BookedSince(h, t)' + WaitingSum(h, t)'
  BY BookParts, BookPartsNext
<1>3. ASSUME NEW e \in Clients, NEW u \in Tokens, NEW amount \in Amounts(u),
             depositTokens(e, u, amount)
      PROVE  held'[t] = Book(h, t)'
  <2>1. amount \in Nat
    BY DEF Amounts
  <2>2. WaitingSum(h, t)' = WaitingSum(h, t)
    BY <1>3, DepositPaysNobody, WaitingStep, WaitingSumStays
  <2>3. BookedSince(h, t)' = BookedSince(h, t) + IF t = u THEN amount ELSE 0
    BY <1>0, <1>3, <2>1, BookedDeposit
  <2>4. held'[t] = held[t] + IF t = u THEN amount ELSE 0
    BY <1>0, <1>3, <2>1 DEF depositTokens, transferTokenFromClient
  <2> QED
    BY <1>1, <1>2, <2>1, <2>2, <2>3, <2>4
<1>4. ASSUME NEW e \in Clients, NEW u \in Tokens, confirmWithdrawal(e, u)
      PROVE  held'[t] = Book(h, t)'
  <2>1. BookedSince(h, t)' = BookedSince(h, t)
    BY <1>4 DEF confirmWithdrawal, depositVars, BookedSince, TotalDepositedIn
  <2>2. transferTokenToClient(u, e, Waiting(h, u, e)) /\ Waiting(h, u, e) \in Nat
    BY <1>4, WaitingPaid, WaitingType
  <2>3. CASE u = t
    <3>1. WaitingSum(h, t)' = WaitingSum(h, t) - Waiting(h, t, e)
      BY <1>4, <2>3, WaitingSumPaid
    <3>2. held'[t] = held[t] - Waiting(h, t, e)
      BY <1>0, <2>2, <2>3 DEF transferTokenToClient
    <3> QED
      BY <1>1, <1>2, <2>1, <2>2, <2>3, <3>1, <3>2
  <2>4. CASE u # t
    <3>1. ASSUME NEW c \in Clients PROVE ~confirmWithdrawal(c, t)
      <4>1. activeWithdrawalRounds \in [Tokens -> [Clients -> Rounds]]
            /\ activeWithdrawalRounds' = [activeWithdrawalRounds EXCEPT ![u][e] = 0]
        BY <1>4 DEF confirmWithdrawal, EndRequest, TypeOK
      <4>2. activeWithdrawalRounds'[t][c] = activeWithdrawalRounds[t][c]
        BY <2>4, <4>1
      <4> SUFFICES ASSUME confirmWithdrawal(c, t) PROVE FALSE
        OBVIOUS
      <4>3. /\ activeWithdrawalRounds[t][c] > 0
            /\ activeWithdrawalRounds' = [activeWithdrawalRounds EXCEPT ![t][c] = 0]
        BY DEF confirmWithdrawal, EndRequest
      <4>4. activeWithdrawalRounds'[t][c] = 0
        BY <4>1, <4>3
      <4> QED
        BY <4>2, <4>3, <4>4
    <3>2. WaitingSum(h, t)' = WaitingSum(h, t)
      BY <3>1, WaitingStep, WaitingSumStays
    <3>3. held'[t] = held[t]
      BY <1>0, <2>2, <2>4 DEF transferTokenToClient
    <3> QED
      BY <1>1, <1>2, <2>1, <3>2, <3>3
  <2> QED
    BY <2>3, <2>4
<1>5. CASE ~ \E e \in Clients, u \in Tokens : confirmWithdrawal(e, u)
  <2>1. WaitingSum(h, t)' = WaitingSum(h, t)
    BY <1>5, WaitingStep, WaitingSumStays
  <2>2. CASE UNCHANGED <<erc20Vars, recovered, depositVars>>
    BY <1>1, <1>2, <2>1, <2>2 DEF erc20Vars, depositVars, BookedSince, TotalDepositedIn
  <2>3. ASSUME NEW e \in Clients, NEW u \in Tokens,
               recoverAllFunds(e, u) \/ recoverOnChainFundsOnly(e, u)
        PROVE  held'[t] = Book(h, t)'
    <3>1. recovered' = [recovered EXCEPT ![u][e] = TRUE]
      BY <2>3 DEF recoverAllFunds, recoverOnChainFundsOnly
    <3>2. u # t
      BY <1>0, <3>1 DEF NobodyRecovered
    <3>3. held'[t] = held[t]
      BY <1>0, <2>3, <3>2 DEF recoverAllFunds, recoverOnChainFundsOnly, transferTokenToClient
    <3>4. BookedSince(h, t)' = BookedSince(h, t)
      BY <2>3 DEF recoverAllFunds, recoverOnChainFundsOnly, depositVars, BookedSince,
         TotalDepositedIn
    <3> QED
      BY <1>1, <1>2, <2>1, <3>3, <3>4
  <2> QED
    BY <1>3, <1>5, <2>2, <2>3, MoneyFootprint
<1> QED
  BY <1>4, <1>5

\* Reckoned from the round after, the requests of a round wait as well, all of them
\* if none has been paid.
LEMMA WaitingOneRoundMore ==
    ASSUME TypeOK, PaymentInv, TotalsMatch, NEW r \in Rounds, NEW t \in Tokens,
           \A c \in Clients : ~PaidOut(r, t, c)
    PROVE  WaitingSum(r + 1, t) = WaitingSum(r, t) + totalRequestedWithdrawals[r][t]
<1> DEFINE f == [c \in Clients |-> Waiting(r, t, c)]
           g == Requests(r, t)
           h == [c \in Clients |-> Waiting(r + 1, t, c)]
<1>0. r \in Int /\ r + 1 \in Int /\ r \in Nat /\ IsFiniteSet(Clients)
  BY ConstantsAssumption DEF Rounds
<1>1. ASSUME NEW c \in Clients
      PROVE  f[c] \in Int /\ g[c] \in Int /\ h[c] = f[c] + g[c]
  <2> DEFINE w == activeWithdrawalRounds[t][c]
             amount == clientRequestedWithdrawals[r][t][c].amount
  <2>1. w \in Nat /\ amount \in Nat
    <3>1. w \in Rounds /\ clientRequestedWithdrawals[r][t][c] \in [amount : Nat, openingBalance : Nat]
      BY DEF TypeOK
    <3> QED
      BY <3>1, ConstantsAssumption DEF Rounds
  <2>2. amount > 0 => w = r /\ r > 0
    BY <2>1, <1>0 DEF PaymentInv, PaidOut
  <2>3. g[c] = amount /\ f[c] = Waiting(r, t, c) /\ h[c] = Waiting(r + 1, t, c)
    BY DEF Requests
  <2>4. f[c] \in Nat
    BY <1>0, WaitingType
  <2>5. CASE w = r /\ r > 0
    <3>1. Waiting(r, t, c) = 0 /\ Waiting(r + 1, t, c) = amount
      BY <1>0, <2>5 DEF Waiting
    <3> HIDE DEF f, g, h
    <3> QED
      BY <2>1, <2>3, <3>1
  <2>6. CASE ~ (w = r /\ r > 0)
    <3>1. amount = 0
      BY <2>1, <2>2, <2>6
    <3>2. w > 0 => (w < r <=> w < r + 1)
      BY <1>0, <2>1, <2>6
    <3>3. Waiting(r, t, c) = Waiting(r + 1, t, c)
      BY <3>2 DEF Waiting
    <3> HIDE DEF f, g, h
    <3> QED
      BY <2>3, <2>4, <3>1, <3>3
  <2> QED
    BY <2>5, <2>6
<1>2. /\ WaitingSum(r + 1, t) = SumFunctionOnSet(h, Clients)
      /\ WaitingSum(r, t) = SumFunctionOnSet(f, Clients)
  BY <1>0, WaitingSumType
<1>3. totalRequestedWithdrawals[r][t] = SumFunctionOnSet(g, Clients)
  BY RequestsAddUp DEF TotalsMatch
<1>4. SumFunctionOnSet(h, Clients) = SumFunctionOnSet(f, Clients) + SumFunctionOnSet(g, Clients)
  <2> HIDE DEF f, g, h
  <2> QED
    BY <1>0, <1>1, SumPlus
<1> QED
  BY <1>2, <1>3, <1>4

\* The commit that completes a round closes the books of the one before: reckoned
\* from the new opening balance, the contract should hold what it should before.
LEMMA BookOfNewRound ==
    ASSUME IInv, IInv', TotalsMatch, RootInv, RootInv', BlankInv, BlankInv', [AnyNext]_vars,
           NEW u \in Tokens, NEW root \in Roots, commit(u, root),
           NEW n \in Int, n + 1 = round, committedRounds' = n + 1, NEW t \in Tokens
    PROVE  Book(n + 1, t)' = Book(n, t)
<1> USE DEF IInv
<1> DEFINE m == n + 1
<1>0. /\ committedRounds = n /\ m \in 1..MaxRound /\ MaxRound \in Nat /\ round = m
      /\ m \in Nat /\ n \in Nat /\ m \in Rounds /\ n \in Rounds /\ m \in Int /\ n = m - 1
  <2>1. committedRounds = round - 1 /\ round \in 1..MaxRound /\ MaxRound \in Nat
    BY CommitsInOrder, ConstantsAssumption
  <2> QED
    BY <2>1 DEF Rounds
<1>1. /\ round' = round /\ registeredTokens' = registeredTokens /\ tokenCount' = tokenCount
      /\ totalDeposits' = totalDeposits
      /\ totalRequestedWithdrawals' = totalRequestedWithdrawals
      /\ activeWithdrawalRounds' = activeWithdrawalRounds
      /\ clientRequestedWithdrawals' = clientRequestedWithdrawals
  BY DEF commit, clockVars, tokenVars, depositVars, withdrawalVars
<1> HIDE DEF m
<1>2. OpeningOf(t, n)' = OpeningOf(t, n)
  BY <1>0, OpeningStays
<1>3. /\ openingBalances'[n][t] = openingBalances[n][t]
      /\ openingBalances[n][t] \in Nat /\ totalDeposits[n][t] \in Nat
      /\ totalRequestedWithdrawals[n][t] \in Nat
      /\ totalDeposits[m][t] \in Nat
  BY <1>0, <1>2 DEF OpeningOf, TypeOK
<1>4. openingBalances'[m][t] = openingBalances[n][t] + totalDeposits[n][t]
                                 - totalRequestedWithdrawals[n][t]
  <2>1. CASE t \in registeredTokens
    <3>1. commits'[m][t] # NoRoot
      <4>1. committedRounds' = m
        BY DEF m
      <4>2. m <= m /\ t \in registeredTokens'
        BY <1>0, <1>1, <2>1
      <4> QED
        BY <1>0, <4>1, <4>2 DEF CommitInv, CommitsComplete
    <3>2. openingBalances'[m][t] = openingBalances'[n][t]
             + totalDeposits'[n][t] - totalRequestedWithdrawals'[n][t]
      BY <1>0, <3>1 DEF ClosedBooks
    <3> QED
      BY <1>1, <1>3, <3>2
  <2>2. CASE t \notin registeredTokens
    <3>1. commits'[m][t] = NoRoot /\ commits[n][t] = NoRoot
      BY <1>0, <1>1, <2>2 DEF CommitInv
    <3>2. openingBalances'[m][t] = 0 /\ openingBalances[n][t] = 0
      BY <1>0, <3>1 DEF RootInv
    <3>3. totalDeposits[n][t] = 0 /\ totalRequestedWithdrawals[n][t] = 0
      BY <1>0, <2>2 DEF BlankInv
    <3> QED
      BY <3>2, <3>3
  <2> QED
    BY <2>1, <2>2
<1>5. WaitingSum(m, t)' = WaitingSum(n, t) + totalRequestedWithdrawals[n][t]
  <2>1. \A c \in Clients : ~PaidOut(n, t, c)
    BY <1>0 DEF PaymentInv
  <2>2. WaitingSum(m, t) = WaitingSum(n, t) + totalRequestedWithdrawals[n][t]
    BY <1>0, <2>1, WaitingOneRoundMore DEF m
  <2>3. WaitingSum(m, t)' = WaitingSum(m, t)
    BY <1>1 DEF WaitingSum, Waiting
  <2> QED
    BY <2>2, <2>3
<1>6. ASSUME NEW r \in Int, r > m PROVE TotalDepositedIn(t, r) = 0
  BY <1>0, <1>6 DEF TotalDepositedIn, BlankInv
<1>7. /\ BookedSince(n, t) = totalDeposits[n][t] + totalDeposits[m][t]
      /\ BookedSince(m, t)' = totalDeposits[m][t]
  <2>1. /\ TotalDepositedIn(t, m + 1) = 0 /\ TotalDepositedIn(t, m + 2) = 0
        /\ TotalDepositedIn(t, n) = totalDeposits[n][t]
        /\ TotalDepositedIn(t, m) = totalDeposits[m][t]
    BY <1>0, <1>6 DEF TotalDepositedIn
  <2>2. BookedSince(m, t)' = BookedSince(m, t)
    BY <1>1 DEF BookedSince, TotalDepositedIn
  <2>3. n + 1 = m /\ n + 2 = m + 1
    BY <1>0
  <2> QED
    BY <1>3, <2>1, <2>2, <2>3 DEF BookedSince
<1>8. OpeningOf(t, m)' = openingBalances'[m][t] /\ OpeningOf(t, n) = openingBalances[n][t]
  BY <1>0 DEF OpeningOf
<1>9. /\ Book(n, t) = OpeningOf(t, n) + BookedSince(n, t) + WaitingSum(n, t)
      /\ WaitingSum(n, t) \in Nat
      /\ Book(m, t)' = OpeningOf(t, m)' + BookedSince(m, t)' + WaitingSum(m, t)'
  BY <1>0, BookParts, BookPartsNext
<1>10. Book(m, t)' = Book(n, t)
  BY <1>3, <1>4, <1>5, <1>7, <1>8, <1>9
<1> QED
  BY <1>10 DEF m

\* Who has recovered has recovered for good.
LEMMA RecoveredForGood ==
    ASSUME TypeOK, [AnyNext]_vars, NEW t \in Tokens, NobodyRecovered(t)'
    PROVE  NobodyRecovered(t)
<1>0. recovered \in [Tokens -> [Clients -> BOOLEAN]]
  BY DEF TypeOK
<1>1. ASSUME NEW c \in Clients, NEW u \in Tokens,
             recoverAllFunds(c, u) \/ recoverOnChainFundsOnly(c, u)
      PROVE  NobodyRecovered(t)
  <2>1. recovered' = [recovered EXCEPT ![u][c] = TRUE]
    BY <1>1 DEF recoverAllFunds, recoverOnChainFundsOnly
  <2> QED
    BY <1>0, <2>1 DEF NobodyRecovered
<1>2. ASSUME NEW c \in Clients, NEW u \in Tokens, NEW amount \in Amounts(u),
             depositTokens(c, u, amount)
      PROVE  NobodyRecovered(t)
  BY <1>2 DEF depositTokens, NobodyRecovered
<1>3. ASSUME NEW c \in Clients, NEW u \in Tokens, confirmWithdrawal(c, u)
      PROVE  NobodyRecovered(t)
  BY <1>3 DEF confirmWithdrawal, NobodyRecovered
<1>4. CASE UNCHANGED <<erc20Vars, recovered, depositVars>>
  BY <1>4 DEF NobodyRecovered
<1> QED
  BY <1>1, <1>2, <1>3, <1>4, MoneyFootprint

\* The complete rounds after a step were complete before, but for the one that a
\* commit has just completed.
LEMMA NewCompleteRound ==
    ASSUME TypeOK, CommitInv, [AnyNext]_vars
    PROVE  \/ committedRounds' = committedRounds
           \/ /\ committedRounds' = round /\ committedRounds = round - 1
              /\ \E u \in Tokens : \E root \in Roots : commit(u, root)
<1>1. ASSUME NEW u \in Tokens, registerToken(u) PROVE committedRounds' = committedRounds
  BY <1>1 DEF registerToken, commitVars
<1>2. ASSUME NEW u \in Tokens, NEW root \in Roots, commit(u, root),
             committedRounds' # committedRounds
      PROVE  committedRounds' = round /\ committedRounds = round - 1
  <2>1. committedRounds = round - 1 /\ round \in 1..MaxRound /\ MaxRound \in Nat
    BY <1>2, CommitsInOrder, ConstantsAssumption
  <2>2. committedRounds' = committedRounds + 1
    BY <1>2 DEF commit
  <2> QED
    BY <2>1, <2>2
<1> QED
  BY <1>1, <1>2, CommitFootprint DEF commitVars

LEMMA PoolBeforeRecovery ==
    ASSUME IInv, IInv', MoneyInv, RootInv', BlankInv', [AnyNext]_vars,
           NEW t \in Tokens, NobodyRecovered(t)',
           NEW h \in (-2)..MaxRound, Horizon' <= h, h <= committedRounds'
    PROVE  held'[t] = Book(h, t)'
<1> USE DEF IInv
<1>0. /\ MaxRound \in Nat /\ h \in Int /\ round \in Nat /\ committedRounds \in Nat
      /\ Horizon \in Int /\ Horizon' \in Int /\ held \in [Tokens -> Nat]
  <2>1. Horizon' \in Int
    <3>1. round' \in Int /\ haltedRound' \in Int
      BY ConstantsAssumption DEF TypeOK, Rounds
    <3> QED
      BY <3>1 DEF Horizon
  <2>2. MaxRound \in Nat /\ committedRounds \in Nat /\ held \in [Tokens -> Nat]
    BY ConstantsAssumption DEF TypeOK
  <2>3. round \in Nat /\ Horizon \in Int
    BY HorizonRange
  <2> QED
    BY <2>1, <2>2, <2>3
<1>1. NobodyRecovered(t)
  BY RecoveredForGood
<1>2. Horizon <= h
  BY <1>0, HorizonStep
<1>3. ASSUME NEW k \in (-2)..MaxRound, Horizon <= k, k <= committedRounds
      PROVE  held[t] = Book(k, t)
  BY <1>1, <1>3 DEF MoneyInv, PoolInv
<1>4. CASE h <= committedRounds
  BY <1>0, <1>2, <1>3, <1>4, BookStep DEF MoneyInv
<1>5. CASE ~ (h <= committedRounds)
  <2>1. PICK u \in Tokens : \E root \in Roots :
           commit(u, root) /\ committedRounds' = round /\ committedRounds = round - 1
    BY <1>0, <1>5, NewCompleteRound
  <2>2. PICK root \in Roots :
           commit(u, root) /\ committedRounds' = round /\ committedRounds = round - 1
    BY <2>1
  <2> DEFINE n == h - 1
  <2>3. /\ n \in Int /\ n + 1 = h /\ h = round /\ n = committedRounds
        /\ n \in (-2)..MaxRound
    BY <1>0, <1>5, <2>2
  <2>4. Horizon <= n
    <3>1. quarter = 0 /\ ~halted
      BY <2>2 DEF commit, notHalted
    <3> QED
      BY <1>0, <2>3, <3>1 DEF Horizon
  <2> HIDE DEF n
  <2>5. held[t] = Book(n, t)
    BY <1>0, <1>3, <2>3, <2>4
  <2>6. Book(n + 1, t)' = Book(n, t)
    BY <2>2, <2>3, BookOfNewRound DEF MoneyInv
  <2>7. held'[t] = held[t]
    BY <2>2 DEF commit, erc20Vars
  <2> QED
    BY <2>3, <2>5, <2>6, <2>7
<1> QED
  BY <1>4, <1>5

-----------------------------------------------------------------------------
(* What each step does to the claims. *)

\* What the step of one client does to the claims: its own changes.
ClaimsExcept(u, e, claim) ==
    \A t \in Tokens, c \in Clients :
        Claim(t, c)' = IF t = u /\ c = e THEN claim ELSE Claim(t, c)

\* The horizon and what is proved there stay where they are between two ticks.
LEMMA ProofsStay ==
    ASSUME IInv, IInv', [AnyNext]_vars, UNCHANGED <<clockVars, commitVars>>
    PROVE  /\ Horizon' = Horizon
           /\ \A t \in Tokens, c \in Clients : Proven(t, c)' = Proven(t, c)
           /\ sound' = sound
<1>1. Horizon' = Horizon
  BY HorizonStep DEF IInv
<1>2. commits' = commits /\ openingBalances' = openingBalances
  BY DEF commitVars
<1>3. \A t \in Tokens, c \in Clients : Proven(t, c)' = Proven(t, c)
  BY <1>1, <1>2 DEF Proven, Provable
<1>4. ASSUME NEW t \in Tokens PROVE ProvenOf(t)' = ProvenOf(t)
  BY <1>3 DEF ProvenOf
<1>5. ASSUME NEW t \in Tokens PROVE OpeningOf(t, Horizon)' = OpeningOf(t, Horizon)
  BY <1>1, <1>2 DEF OpeningOf
<1>6. sound' = sound
  BY <1>4, <1>5 DEF sound
<1> QED
  BY <1>1, <1>3, <1>6

LEMMA DepositClaims ==
    ASSUME IInv, IInv', RootInv, PoolInv, [AnyNext]_vars,
           NEW e \in Clients, NEW u \in Tokens, NEW amount \in Nat, depositTokens(e, u, amount)
    PROVE  ClaimsExcept(u, e, Claim(u, e) + amount)
<1> USE DEF IInv
<1> SUFFICES ASSUME NEW t \in Tokens, NEW c \in Clients
             PROVE  Claim(t, c)' = IF t = u /\ c = e THEN Claim(u, e) + amount ELSE Claim(t, c)
  BY DEF ClaimsExcept
<1>0. /\ round \in Nat /\ round \in Rounds /\ Horizon \in {round - 2, round - 1}
      /\ clientDeposits \in [Rounds -> [Tokens -> [Clients -> Nat]]]
      /\ clientDeposits' = [clientDeposits EXCEPT ![round][u][e] = @ + amount]
      /\ recovered' = recovered /\ ~halted
  BY HorizonRange DEF TypeOK, depositTokens, notHalted
<1>1. Horizon' = Horizon /\ Proven(t, c)' = Proven(t, c)
  BY ProofsStay DEF depositTokens, commitVars
<1>2. Waiting(Horizon, t, c)' = Waiting(Horizon, t, c)
  BY <1>1 DEF depositTokens, withdrawalVars, Waiting
<1>3. ~recovered[t][c]
  BY <1>0 DEF PoolInv, NobodyRecovered
<1>4. ASSUME NEW r
      PROVE  /\ DepositedIn(c, t, r) \in Nat
             /\ DepositedIn(c, t, r)' = DepositedIn(c, t, r)
                    + IF t = u /\ c = e /\ r = round THEN amount ELSE 0
  <2>1. CASE r \in Rounds
    <3>1. /\ clientDeposits[r][t][c] \in Nat
          /\ clientDeposits'[r][t][c] = clientDeposits[r][t][c]
                + IF t = u /\ c = e /\ r = round THEN amount ELSE 0
      BY <1>0, <2>1
    <3> QED
      BY <2>1, <3>1 DEF DepositedIn
  <2>2. CASE r \notin Rounds
    <3>1. r # round
      BY <1>0, <2>2
    <3> QED
      BY <2>2, <3>1 DEF DepositedIn
  <2> QED
    BY <2>1, <2>2
<1>5. /\ Since(t, c)' = Since(t, c) + IF t = u /\ c = e THEN amount ELSE 0
      /\ Since(t, c) \in Nat
  <2>0. PICK h \in Int : h = Horizon
    BY <1>0
  <2>1. Since(t, c)' = DepositedIn(c, t, h)' + DepositedIn(c, t, h + 1)'
                          + DepositedIn(c, t, h + 2)'
    BY <1>1, <2>0 DEF Since
  <2>2. /\ Since(t, c) = DepositedIn(c, t, h) + DepositedIn(c, t, h + 1) + DepositedIn(c, t, h + 2)
        /\ round \in {h, h + 1, h + 2} /\ h \in Int
    BY <1>0, <2>0 DEF Since
  <2> DEFINE more(r) == IF t = u /\ c = e /\ r = round THEN amount ELSE 0
             mine == IF t = u /\ c = e THEN amount ELSE 0
  <2>3. /\ more(h) \in Nat /\ more(h + 1) \in Nat /\ more(h + 2) \in Nat /\ mine \in Nat
        /\ more(h) + more(h + 1) + more(h + 2) = mine
    BY <1>0, <2>2
  <2>4. ASSUME NEW r
        PROVE  DepositedIn(c, t, r)' = DepositedIn(c, t, r) + more(r)
               /\ DepositedIn(c, t, r) \in Nat
    BY <1>4
  <2> HIDE DEF more, mine
  <2>5. Since(t, c)' = Since(t, c) + mine /\ Since(t, c) \in Nat
    <3>1. /\ DepositedIn(c, t, h)' = DepositedIn(c, t, h) + more(h)
          /\ DepositedIn(c, t, h + 1)' = DepositedIn(c, t, h + 1) + more(h + 1)
          /\ DepositedIn(c, t, h + 2)' = DepositedIn(c, t, h + 2) + more(h + 2)
          /\ DepositedIn(c, t, h) \in Nat /\ DepositedIn(c, t, h + 1) \in Nat
          /\ DepositedIn(c, t, h + 2) \in Nat
      BY <2>4
    <3> QED
      BY <2>1, <2>2, <2>3, <3>1
  <2> QED
    BY <2>5 DEF mine
<1>6. Waiting(Horizon, t, c) \in Nat /\ Proven(t, c) \in Nat
  BY HorizonRange, WaitingType, ProvenIsMost
<1>7. Claim(t, c) = Waiting(Horizon, t, c) + (Proven(t, c) + Since(t, c))
      /\ Claim(t, c)' = Waiting(Horizon, t, c)' + (Proven(t, c)' + Since(t, c)')
  BY <1>0, <1>3 DEF Claim
<1> QED
  BY <1>1, <1>2, <1>5, <1>6, <1>7

LEMMA ConfirmClaims ==
    ASSUME IInv, IInv', RootInv, BlankInv, PoolInv, [AnyNext]_vars,
           NEW e \in Clients, NEW u \in Tokens, confirmWithdrawal(e, u)
    PROVE  /\ ClaimsExcept(u, e, Claim(u, e) - Waiting(Horizon, u, e))
           /\ Waiting(Horizon, u, e) \in Nat
           /\ transferTokenToClient(u, e, Waiting(Horizon, u, e))
           /\ Waiting(Horizon, u, e) <= Claim(u, e)
<1> USE DEF IInv
<1>0. Horizon \in Int /\ Horizon <= committedRounds
  BY HorizonCommitted DEF PoolInv
<1>1. /\ recovered' = recovered /\ clientDeposits' = clientDeposits
      /\ activeWithdrawalRounds' = [activeWithdrawalRounds EXCEPT ![u][e] = 0]
      /\ activeWithdrawalRounds \in [Tokens -> [Clients -> Rounds]]
      /\ clientRequestedWithdrawals' = clientRequestedWithdrawals
  BY DEF confirmWithdrawal, depositVars, EndRequest, TypeOK
<1>2. Horizon' = Horizon /\ \A t \in Tokens, c \in Clients : Proven(t, c)' = Proven(t, c)
  BY ProofsStay DEF confirmWithdrawal, commitVars
<1>3. \A t \in Tokens, c \in Clients : Since(t, c)' = Since(t, c)
  BY <1>1, <1>2 DEF Since, DepositedIn
<1>4. /\ Waiting(Horizon, u, e)' = 0 /\ Waiting(Horizon, u, e) \in Nat
      /\ transferTokenToClient(u, e, Waiting(Horizon, u, e))
  <2>1. ASSUME NEW h \in Int, h = Horizon
        PROVE  /\ Waiting(h, u, e)' = 0 /\ Waiting(h, u, e) \in Nat
               /\ transferTokenToClient(u, e, Waiting(h, u, e))
    BY <2>1, WaitingPaid, WaitingType
  <2> QED
    BY <1>0, <1>2, <2>1 DEF Waiting
<1>5. ASSUME NEW t \in Tokens, NEW c \in Clients, ~ (t = u /\ c = e)
      PROVE  Waiting(Horizon, t, c)' = Waiting(Horizon, t, c)
  <2>1. activeWithdrawalRounds'[t][c] = activeWithdrawalRounds[t][c]
    BY <1>1, <1>5
  <2> QED
    BY <1>1, <1>2, <2>1 DEF Waiting
<1>6. ASSUME NEW t \in Tokens, NEW c \in Clients
      PROVE  Claim(t, c)' = IF t = u /\ c = e THEN Claim(u, e) - Waiting(Horizon, u, e)
                                              ELSE Claim(t, c)
  <2> DEFINE rest == IF recovered[t][c] THEN 0 ELSE Proven(t, c) + Since(t, c)
  <2>1. /\ Claim(t, c) = Waiting(Horizon, t, c) + rest
        /\ Claim(t, c)' = Waiting(Horizon, t, c)' + rest
    BY <1>1, <1>2, <1>3 DEF Claim
  <2>2. rest \in Nat /\ Waiting(Horizon, t, c) \in Nat
    BY <1>0, ProvenIsMost, SinceType, WaitingType
  <2> HIDE DEF rest
  <2>3. CASE t = u /\ c = e
    BY <1>4, <2>1, <2>2, <2>3
  <2>4. CASE ~ (t = u /\ c = e)
    BY <1>5, <2>1, <2>2, <2>4
  <2> QED
    BY <2>3, <2>4
<1>7. Waiting(Horizon, u, e) <= Claim(u, e)
  BY <1>0, <1>4, ProvenIsMost, SinceType DEF Claim
<1> QED
  BY <1>4, <1>6, <1>7 DEF ClaimsExcept

LEMMA RecoveryClaims ==
    ASSUME IInv, IInv', RootInv, [AnyNext]_vars, NEW e \in Clients, NEW u \in Tokens,
           recoverAllFunds(e, u) \/ recoverOnChainFundsOnly(e, u)
    PROVE  /\ ClaimsExcept(u, e, Waiting(Horizon, u, e))
           /\ halted'
           /\ \E amount \in Nat : /\ transferTokenToClient(u, e, amount)
                                  /\ amount <= Claim(u, e) - Waiting(Horizon, u, e)
<1> USE DEF IInv
<1>0. /\ RecordHalt /\ ~recovered[u][e]
      /\ recovered' = [recovered EXCEPT ![u][e] = TRUE]
      /\ recovered \in [Tokens -> [Clients -> BOOLEAN]]
  BY DEF recoverAllFunds, recoverOnChainFundsOnly, notRecovered, TypeOK
<1>1. halted'
  BY DEF RecordHalt, recoverAllFunds, recoverOnChainFundsOnly
<1>2. /\ clientDeposits' = clientDeposits
      /\ Horizon' = Horizon /\ \A t \in Tokens, c \in Clients : Proven(t, c)' = Proven(t, c)
  BY ProofsStay DEF recoverAllFunds, recoverOnChainFundsOnly, commitVars, depositVars
<1>3. \A t \in Tokens, c \in Clients : Since(t, c)' = Since(t, c)
  BY <1>2 DEF Since, DepositedIn
<1>4. \A t \in Tokens, c \in Clients : Waiting(Horizon, t, c)' = Waiting(Horizon, t, c)
  BY <1>2 DEF recoverAllFunds, recoverOnChainFundsOnly, withdrawalVars, Waiting
<1>5. ASSUME NEW t \in Tokens, NEW c \in Clients
      PROVE  Claim(t, c)' = IF t = u /\ c = e THEN Waiting(Horizon, u, e) ELSE Claim(t, c)
  <2>1. Waiting(Horizon, t, c) \in Nat
    BY HorizonRange, WaitingType
  <2>2. CASE t = u /\ c = e
    BY <1>0, <1>4, <2>1, <2>2 DEF Claim
  <2>3. CASE ~ (t = u /\ c = e)
    <3>1. recovered'[t][c] = recovered[t][c]
      BY <1>0, <2>3
    <3> QED
      BY <1>2, <1>3, <1>4, <2>3, <3>1 DEF Claim
  <2> QED
    BY <2>2, <2>3
<1>6. Claim(u, e) = Waiting(Horizon, u, e) + (Proven(u, e) + Since(u, e))
  BY <1>0 DEF Claim
<1>7. /\ Waiting(Horizon, u, e) \in Nat /\ Proven(u, e) \in Nat /\ Since(u, e) \in Nat
  BY HorizonRange, WaitingType, ProvenIsMost, SinceType
<1>8. /\ round \in Nat /\ HaltRound = round /\ Horizon = round - 2
      /\ RecentDeposits(e, u) \in Nat
  BY <1>0, HorizonRange, RecentDepositsType DEF recoverAllFunds, recoverOnChainFundsOnly
<1>9. RecentDeposits(e, u) = Since(u, e)
  <2>1. Horizon + 1 = round - 1 /\ Horizon + 2 = round
    BY <1>8
  <2>2. \A r : DepositedIn(e, u, r) \in Nat
    BY DEF DepositedIn, TypeOK
  <2> QED
    BY <1>8, <2>1, <2>2 DEF RecentDeposits, Since
<1>10. CASE recoverAllFunds(e, u)
  <2>1. PICK balance \in Provable(e, u, HaltRound - 2) :
           transferTokenToClient(u, e, balance + RecentDeposits(e, u))
    BY <1>10 DEF recoverAllFunds
  <2>2. balance \in Nat /\ balance <= Proven(u, e)
    <3>1. balance \in Provable(e, u, Horizon)
      BY <1>8, <2>1
    <3>2. balance \in Nat
      BY <3>1 DEF Provable, TypeOK, Roots
    <3> QED
      BY <3>1, <3>2, ProvenIsMost
  <2> DEFINE amount == balance + Since(u, e)
  <2>3. amount \in Nat /\ amount <= Claim(u, e) - Waiting(Horizon, u, e)
    BY <1>6, <1>7, <2>2
  <2>4. transferTokenToClient(u, e, amount)
    BY <1>9, <2>1
  <2> QED
    BY <1>1, <1>5, <2>3, <2>4 DEF ClaimsExcept
<1>11. CASE recoverOnChainFundsOnly(e, u)
  <2> DEFINE amount == Since(u, e)
  <2>1. transferTokenToClient(u, e, amount)
    BY <1>9, <1>11 DEF recoverOnChainFundsOnly
  <2>2. amount \in Nat /\ amount <= Claim(u, e) - Waiting(Horizon, u, e)
    BY <1>6, <1>7
  <2> QED
    BY <1>1, <1>5, <2>1, <2>2 DEF ClaimsExcept
<1> QED
  BY <1>10, <1>11

-----------------------------------------------------------------------------
(* The claims stay covered. *)

\* After a halt there is nothing left to do but to claim.
LEMMA StepsAfterHalt ==
    ASSUME halted, [AnyNext]_vars
    PROVE  \/ \E c \in Clients, t \in Tokens : confirmWithdrawal(c, t)
           \/ \E c \in Clients, t \in Tokens :
                 recoverAllFunds(c, t) \/ recoverOnChainFundsOnly(c, t)
           \/ UNCHANGED vars
BY Steps DEF Tick, updateHaltedState, HaltDue, registerToken, commit,
   cancelWithdrawal, closeDispute, depositTokens, initiateWithdrawal, openDispute, notHalted

\* One claim changes, and the sum of the claims by as much.
LEMMA SumOfClaims ==
    ASSUME ClaimsAreOwed, NEW u \in Tokens, NEW e \in Clients, NEW claim \in Int,
           ClaimsExcept(u, e, claim), NEW t \in Tokens
    PROVE  /\ SumFunctionOnSet(Claims(t), Clients) \in Nat
           /\ SumFunctionOnSet(Claims(t)', Clients)
                 = IF t = u THEN SumFunctionOnSet(Claims(u), Clients) - Claim(u, e) + claim
                            ELSE SumFunctionOnSet(Claims(t), Clients)
<1> DEFINE f == Claims(t)
           g == Claims(t)'
<1>1. /\ IsFiniteSet(Clients) /\ \A c \in Clients : f[c] = Claim(t, c) /\ f[c] \in Nat
      /\ \A c \in Clients : f[c] \in Int
  BY ConstantsAssumption DEF ClaimsAreOwed, Claims
<1>2. \A c \in Clients : g[c] = IF t = u /\ c = e THEN claim ELSE f[c]
  BY <1>1 DEF ClaimsExcept, Claims
<1>3. SumFunctionOnSet(f, Clients) \in Nat
  <2> HIDE DEF f
  <2> QED
    BY <1>1, SumNat
<1>4. CASE t = u
  <2>1. g[e] = claim /\ f[e] = Claim(u, e) /\ \A c \in Clients \ {e} : g[c] = f[c]
    BY <1>1, <1>2, <1>4
  <2>2. SumFunctionOnSet(g, Clients) = SumFunctionOnSet(f, Clients) - f[e] + g[e]
    <3> HIDE DEF f, g
    <3> QED
      BY <1>1, <2>1, SumChange
  <2> QED
    BY <1>3, <1>4, <2>1, <2>2
<1>5. CASE t # u
  <2>1. \A c \in Clients : f[c] \in Int /\ f[c] = g[c]
    BY <1>1, <1>2, <1>5
  <2>2. SumFunctionOnSet(f, Clients) = SumFunctionOnSet(g, Clients)
    <3> HIDE DEF f, g
    <3> QED
      BY <1>1, <2>1, SumEqual
  <2> QED
    BY <1>3, <1>5, <2>2
<1> QED
  BY <1>4, <1>5

LEMMA OwedOfTokenNext ==
    ASSUME ClaimsAreOwed', NEW t \in Tokens
    PROVE  SumFunction(owed[t])' = SumFunctionOnSet(Claims(t)', Clients)
<1>1. owed[t]' = Claims(t)'
  BY DEF ClaimsAreOwed, owed, Claims
<1>2. DOMAIN Claims(t)' = Clients
  BY DEF Claims
<1>3. SumFunction(owed[t])' = SumFunction(owed[t]')
  OBVIOUS
<1> QED
  BY <1>1, <1>2, <1>3, SumOverClients

\* Once somebody has recovered, each payment takes at least as much off the claims as
\* out of the contract.
LEMMA PoolAfterRecovery ==
    ASSUME IInv, IInv', MoneyInv, ClaimsAreOwed, ClaimsAreOwed', ClaimsCovered, [AnyNext]_vars,
           NEW t \in Tokens, ~NobodyRecovered(t)'
    PROVE  halted' /\ (sound[t]' => SumFunction(owed[t])' <= held'[t])
<1> DEFINE all == SumFunctionOnSet(Claims(t), Clients)
           left == SumFunctionOnSet(Claims(t)', Clients)
<1>0. /\ held \in [Tokens -> Nat] /\ recovered \in [Tokens -> [Clients -> BOOLEAN]]
      /\ sound[t] => all <= held[t]
      /\ SumFunction(owed[t])' = left
  BY OwedOfToken, OwedOfTokenNext DEF IInv, TypeOK, ClaimsCovered
<1>1. ASSUME NEW e \in Clients, NEW u \in Tokens,
             recoverAllFunds(e, u) \/ recoverOnChainFundsOnly(e, u)
      PROVE  halted' /\ (sound[t] => left <= held'[t]) /\ sound' = sound
  <2>1. /\ halted' /\ ClaimsExcept(u, e, Waiting(Horizon, u, e))
        /\ \E amount \in Nat : /\ transferTokenToClient(u, e, amount)
                               /\ amount <= Claim(u, e) - Waiting(Horizon, u, e)
    BY <1>1, RecoveryClaims DEF MoneyInv
  <2>2. PICK amount \in Nat : /\ transferTokenToClient(u, e, amount)
                              /\ amount <= Claim(u, e) - Waiting(Horizon, u, e)
    BY <2>1
  <2> DEFINE claim == Waiting(Horizon, u, e)
  <2>3. claim \in Nat /\ Claim(u, e) \in Nat /\ claim \in Int
    BY HorizonRange, WaitingType DEF ClaimsAreOwed, IInv
  <2>4. all \in Nat
        /\ left = IF t = u THEN SumFunctionOnSet(Claims(u), Clients) - Claim(u, e) + claim ELSE all
    <3> HIDE DEF claim
    <3> QED
      BY <2>1, <2>3, SumOfClaims DEF claim
  <2>5. held'[t] = IF t = u THEN held[t] - amount ELSE held[t]
    BY <1>0, <2>2 DEF transferTokenToClient
  <2>6. sound' = sound
    BY <1>1, ProofsStay DEF recoverAllFunds, recoverOnChainFundsOnly
  <2>7. CASE t = u
    <3>1. left = all - Claim(u, e) + claim /\ held'[t] = held[t] - amount /\ held[t] \in Nat
      BY <1>0, <2>4, <2>5, <2>7
    <3> HIDE DEF all, left, claim
    <3> QED
      BY <1>0, <2>1, <2>2, <2>3, <2>4, <2>6, <3>1 DEF claim
  <2>8. CASE t # u
    BY <1>0, <2>1, <2>4, <2>5, <2>6, <2>8
  <2> QED
    BY <2>7, <2>8
<1>2. CASE ~ \E e \in Clients, u \in Tokens :
               recoverAllFunds(e, u) \/ recoverOnChainFundsOnly(e, u)
  <2>1. recovered' = recovered
    BY <1>2, MoneyFootprint DEF depositTokens, confirmWithdrawal
  <2>2. ~NobodyRecovered(t)
    BY <2>1 DEF NobodyRecovered
  <2>3. halted
    BY <2>2 DEF MoneyInv, PoolInv
  <2>4. halted'
    BY <2>3, HaltStopsTheClock DEF IInv
  <2>5. ASSUME NEW e \in Clients, NEW u \in Tokens, confirmWithdrawal(e, u)
        PROVE  (sound[t] => left <= held'[t]) /\ sound' = sound
    <3> DEFINE amount == Waiting(Horizon, u, e)
               claim == Claim(u, e) - amount
    <3>1. /\ ClaimsExcept(u, e, claim) /\ amount \in Nat /\ transferTokenToClient(u, e, amount)
          /\ Claim(u, e) \in Nat
      BY <2>5, ConfirmClaims DEF MoneyInv, ClaimsAreOwed
    <3>2. claim \in Int /\ claim = Claim(u, e) - amount
      BY <3>1
    <3>3. held'[t] = IF t = u THEN held[t] - amount ELSE held[t]
      BY <1>0, <3>1 DEF transferTokenToClient
    <3>4. all \in Nat
          /\ left = IF t = u THEN SumFunctionOnSet(Claims(u), Clients) - Claim(u, e) + claim ELSE all
      <4> HIDE DEF claim
      <4> QED
        BY <3>1, <3>2, SumOfClaims
    <3>5. sound' = sound
      BY <2>5, ProofsStay DEF confirmWithdrawal
    <3>6. CASE t = u
      <4>1. left = all - Claim(u, e) + claim /\ held'[t] = held[t] - amount /\ held[t] \in Nat
        BY <1>0, <3>3, <3>4, <3>6
      <4> HIDE DEF all, left, claim, amount
      <4> QED
        BY <1>0, <3>1, <3>2, <3>4, <3>5, <4>1
    <3>7. CASE t # u
      BY <1>0, <3>3, <3>4, <3>5, <3>7
    <3> QED
      BY <3>6, <3>7
  <2>6. ASSUME UNCHANGED vars PROVE (sound[t] => left <= held'[t]) /\ sound' = sound
    <3>1. left = all /\ held' = held
      BY <2>6 DEF vars, clockVars, haltVars, tokenVars, depositVars, withdrawalVars, commitVars,
         disputeVars, erc20Vars, Claims, Claim, Waiting, Proven, Since, DepositedIn, Horizon,
         Provable, HaltDue, IsMissingCommits, HasOpenDisputes
    <3>2. sound' = sound
      BY <2>6, ProofsStay DEF vars
    <3> QED
      BY <1>0, <3>1, <3>2
  <2>7. (sound[t] => left <= held'[t]) /\ sound' = sound
    BY <1>2, <2>3, <2>5, <2>6, StepsAfterHalt DEF IInv
  <2> QED
    BY <1>0, <2>4, <2>7
<1> QED
  BY <1>0, <1>1, <1>2
-----------------------------------------------------------------------------
(* The invariant of the money. *)

LEMMA WaitingAtStart ==
    ASSUME Init, NEW h \in Int, NEW t \in Tokens
    PROVE  SumFunction([c \in Clients |-> Waiting(h, t, c)]) = 0
<1> DEFINE f == [c \in Clients |-> Waiting(h, t, c)]
<1>1. \A c \in Clients : f[c] = 0
  BY DEF Init, Waiting
<1>2. IsFiniteSet(Clients) /\ DOMAIN f = Clients
  BY ConstantsAssumption
<1> HIDE DEF f
<1>3. SumFunctionOnSet(f, Clients) = 0
  BY <1>1, <1>2, SumZero
<1>4. SumFunction(f) = 0
  BY <1>2, <1>3, SumOverClients
<1> QED
  BY <1>4 DEF f

\* Before the first call the contract holds nothing and has booked nothing.
LEMMA PoolAtStart == Init => RootInv /\ BlankInv /\ PoolInv
<1> SUFFICES ASSUME Init PROVE RootInv /\ BlankInv /\ PoolInv
  OBVIOUS
<1>1. RootInv
  BY ConstantsAssumption DEF Init, RootInv
<1>2. BlankInv
  BY DEF Init, BlankInv
<1>3. ASSUME NEW t \in Tokens, NEW h \in (-2)..MaxRound, h <= committedRounds
      PROVE  held[t] = Book(h, t)
  <2>1. h \in Int
    BY ConstantsAssumption
  <2>2. WaitingSum(h, t) = 0
    BY <2>1, WaitingAtStart DEF WaitingSum
  <2>3. /\ OpeningOf(t, h) = 0 /\ TotalDepositedIn(t, h) = 0
        /\ TotalDepositedIn(t, h + 1) = 0 /\ TotalDepositedIn(t, h + 2) = 0
    BY DEF Init, OpeningOf, TotalDepositedIn
  <2>4. held[t] = 0
    BY DEF Init
  <2> QED
    BY <2>2, <2>3, <2>4 DEF Book, WaitingSum
<1>4. PoolInv
  BY <1>3 DEF PoolInv, NobodyRecovered, Init
<1> QED
  BY <1>1, <1>2, <1>4

\* No root proves a balance above the opening one, and nothing is booked ahead.
LEMMA RootsAndBlanks == Spec => [](RootInv /\ BlankInv)
<1>1. /\ IInv /\ IInv' /\ RootInv /\ BlankInv /\ [AnyNext]_vars => RootInv' /\ BlankInv'
  BY RootStep, BlankStep DEF IInv
<1> QED
  BY <1>1, PoolAtStart, Inductive, NextIsAnyNext, PTL DEF Spec

\* What is owed to a client is the sum of what the contract would pay it.
LEMMA OwedIsClaimed == Spec => []ClaimsAreOwed
<1>1. IInv /\ RootInv /\ BlankInv /\ TotalsMatch => ClaimsAreOwed
  BY OwedAsClaim DEF IInv
<1> QED
  BY <1>1, Inductive, RootsAndBlanks, TotalsAreSums, PTL

LEMMA PoolStep ==
    ASSUME HaltDelay <= 1, IInv, IInv', MoneyInv, RootInv', BlankInv',
           ClaimsAreOwed, ClaimsAreOwed', [AnyNext]_vars
    PROVE  PoolInv'
<1>1. round' <= committedRounds' + 2
  BY RoundInReach DEF IInv, MoneyInv, PoolInv
<1>2. ASSUME NEW t \in Tokens, NobodyRecovered(t)',
             NEW h \in (-2)..MaxRound, Horizon' <= h, h <= committedRounds'
      PROVE  held'[t] = Book(h, t)'
  BY <1>2, PoolBeforeRecovery
<1>3. ASSUME NEW t \in Tokens, ~NobodyRecovered(t)'
      PROVE  halted' /\ (sound[t]' => SumFunction(owed[t])' <= held'[t])
  BY <1>3, PoolAfterRecovery, HeldForTheClaims
<1> QED
  BY <1>1, <1>2, <1>3 DEF PoolInv

\* The contract holds what its books say, from the horizon to the last complete
\* round, provided a halt that is due is recorded before the next round but one.
THEOREM BooksAreHeld == HaltDelay <= 1 => (Spec => []MoneyInv)
<1> SUFFICES ASSUME HaltDelay <= 1 PROVE Spec => []MoneyInv
  OBVIOUS
<1>1. MoneyInv <=> TotalsMatch /\ RootInv /\ BlankInv /\ PoolInv
  BY DEF MoneyInv
<1>2. /\ IInv /\ IInv' /\ MoneyInv /\ RootInv' /\ BlankInv'
      /\ ClaimsAreOwed /\ ClaimsAreOwed' /\ [AnyNext]_vars
      => PoolInv'
  BY PoolStep
<1> QED
  BY <1>1, <1>2, PoolAtStart, Inductive, RootsAndBlanks, TotalsAreSums, OwedIsClaimed,
     NextIsAnyNext, PTL DEF Spec

\* The books add up, and after a halt what is owed differs from what the contract
\* holds by exactly what the operator's root proves too much or too little, until a
\* client has recovered.
THEOREM NothingIsLost == HaltDelay <= 1 => (Spec => []NothingLost)
<1>1. ClaimsCovered => NothingStranded
  BY DEF ClaimsCovered, NothingStranded, NobodyRecovered
<1>2. IInv /\ MoneyInv => NothingLost
  BY <1>1, HeldForTheClaims DEF NothingLost, MoneyInv
<1> QED
  BY <1>2, BooksAreHeld, Inductive, PTL
-----------------------------------------------------------------------------
(* The contract implements the vault. *)

\* The sum of the vault is the one of the contract.
LEMMA SameSum == \A f : V!SumFunction(f) = SumFunction(f)
BY DEF V!SumFunction, V!SumFunctionOnSet, V!FoldFunctionOnSet, V!MapThenFoldSet, SumFunction,
       SumFunctionOnSet, FoldFunctionOnSet, MapThenFoldSet

LEMMA OwedAreClaims ==
    ASSUME ClaimsAreOwed
    PROVE  /\ owed = [t \in Tokens |-> [c \in Clients |-> Claim(t, c)]]
           /\ owed \in [Tokens -> [Clients -> Nat]]
BY DEF ClaimsAreOwed, owed

LEMMA OwedAreClaimsNext ==
    ASSUME ClaimsAreOwed'
    PROVE  /\ owed' = [t \in Tokens |-> [c \in Clients |-> Claim(t, c)']]
           /\ owed' \in [Tokens -> [Clients -> Nat]]
BY DEF ClaimsAreOwed, owed

\* Every deposit, confirmation and recovery is one of the vault's own.
LEMMA DepositOfTheVault ==
    ASSUME IInv, IInv', RootInv, PoolInv, ClaimsAreOwed, ClaimsAreOwed', [AnyNext]_vars,
           NEW e \in Clients, NEW u \in Tokens, NEW amount \in Nat, depositTokens(e, u, amount)
    PROVE  V!Deposit(e, u)
<1>1. /\ ~halted /\ ~halted' /\ amount > 0 /\ held' = [held EXCEPT ![u] = @ + amount]
      /\ held \in [Tokens -> Nat]
  BY DEF depositTokens, notHalted, haltVars, transferTokenFromClient, IInv, TypeOK
<1>2. amount = held'[u] - held[u]
  BY <1>1
<1>3. owed' = [owed EXCEPT ![u][e] = @ + amount]
  BY DepositClaims, OwedAreClaims, OwedAreClaimsNext DEF ClaimsExcept
<1>4. sound' = sound
  BY ProofsStay DEF depositTokens
<1> HIDE DEF owed, sound
<1> QED
  BY <1>1, <1>2, <1>3, <1>4 DEF V!Deposit

LEMMA PaymentOfTheVault ==
    ASSUME IInv, ClaimsAreOwed, ClaimsAreOwed', halted => halted', sound' = sound,
           NEW e \in Clients, NEW u \in Tokens, NEW amount \in Nat, NEW rest \in Nat,
           held[u] >= amount, held' = [held EXCEPT ![u] = @ - amount],
           ClaimsExcept(u, e, rest), amount <= Claim(u, e) - rest,
           halted' \/ amount = Claim(u, e) - rest
    PROVE  V!Pay(e, u)
<1>1. held \in [Tokens -> Nat] /\ Claim(u, e) \in Nat
  BY DEF IInv, TypeOK, ClaimsAreOwed
<1>2. amount = held[u] - held'[u]
  BY <1>1
<1>3. owed' = [owed EXCEPT ![u][e] = rest] /\ owed'[u][e] = rest /\ owed[u][e] = Claim(u, e)
  BY OwedAreClaims, OwedAreClaimsNext DEF ClaimsExcept
<1>4. 0 <= rest /\ rest <= Claim(u, e) - amount /\ (halted' \/ rest = Claim(u, e) - amount)
  BY <1>1
<1>5. /\ held' = [held EXCEPT ![u] = @ - (held[u] - held'[u])]
      /\ owed' = [owed EXCEPT ![u][e] = owed'[u][e]]
  BY <1>2, <1>3
<1>6. 0 <= owed'[u][e] /\ owed'[u][e] <= owed[u][e] - (held[u] - held'[u])
      /\ (halted' \/ owed'[u][e] = owed[u][e] - (held[u] - held'[u])) /\ held[u] - held'[u] >= 0
  BY <1>2, <1>3, <1>4
<1> QED
  BY <1>5, <1>6 DEF V!Pay

\* Any other step before the halt moves the claims only, and what is sound of them
\* stays covered.
LEMMA ReallocationOfTheVault ==
    ASSUME ClaimsAreOwed', ClaimsCovered', ~halted, ~halted', held' = held
    PROVE  V!Reallocate
<1>1. owed' \in [Tokens -> [Clients -> Nat]] /\ sound' \in [Tokens -> BOOLEAN]
  BY OwedAreClaimsNext DEF sound
<1>2. \A t \in Tokens : sound'[t] => SumFunction(owed'[t]) <= held'[t]
  BY DEF ClaimsCovered
<1>3. V!Covered(held', owed', sound')
  BY <1>2, SameSum DEF V!Covered
<1> QED
  BY <1>1, <1>3 DEF V!Reallocate

\* Recording the halt moves nothing: the horizon has been chosen by then.
LEMMA ClaimsStay ==
    ASSUME IInv, IInv', ClaimsAreOwed, ClaimsAreOwed', [AnyNext]_vars,
           UNCHANGED <<clockVars, depositVars, withdrawalVars, commitVars, recovered>>
    PROVE  owed' = owed /\ sound' = sound
<1>1. /\ Horizon' = Horizon
      /\ \A t \in Tokens, c \in Clients : Proven(t, c)' = Proven(t, c)
      /\ sound' = sound
  BY ProofsStay, Zenon DEF clockVars, commitVars
<1>2. PICK h \in Int : h = Horizon /\ h = Horizon'
  <2>1. Horizon \in Int
    BY HorizonRange DEF IInv
  <2> QED
    BY <1>1, <2>1
<1>3. \A t \in Tokens, c \in Clients : /\ Waiting(h, t, c)' = Waiting(h, t, c)
                                       /\ recovered'[t][c] = recovered[t][c]
  BY DEF Waiting, withdrawalVars
<1>4. \A t \in Tokens, c \in Clients : Since(t, c)' = Since(t, c)
  BY <1>1 DEF Since, DepositedIn, depositVars
<1>5. \A t \in Tokens, c \in Clients : Claim(t, c)' = Claim(t, c)
  BY <1>1, <1>2, <1>3, <1>4 DEF Claim, Waiting
<1> QED
  BY <1>1, <1>5, OwedAreClaims, OwedAreClaimsNext

LEMMA UnhaltedSteps ==
    ASSUME [AnyNext]_vars
    PROVE  \/ \E c \in Clients, t \in Tokens : \E amount \in Amounts(t) :
                 depositTokens(c, t, amount)
           \/ \E c \in Clients, t \in Tokens : confirmWithdrawal(c, t)
           \/ \E c \in Clients, t \in Tokens :
                 recoverAllFunds(c, t) \/ recoverOnChainFundsOnly(c, t)
           \/ updateHaltedState
           \/ UNCHANGED vars
           \/ ~halted /\ ~halted' /\ held' = held
<1>1. CASE Tick
  BY <1>1 DEF Tick, haltVars, erc20Vars
<1>2. CASE \/ \E t \in Tokens : registerToken(t)
           \/ \E t \in Tokens : \E root \in Roots : commit(t, root)
           \/ \E c \in Clients, t \in Tokens, approvals \in SUBSET Approvals :
                 cancelWithdrawal(c, t, approvals)
           \/ \E c \in Clients, fills \in SUBSET Fills :
                 \E approvalOf \in ApprovalsFor(fills) : closeDispute(c, fills, approvalOf)
  <2>1. CASE \E t \in Tokens : registerToken(t)
    BY <2>1 DEF registerToken, notHalted, haltVars, erc20Vars
  <2>2. CASE \E t \in Tokens : \E root \in Roots : commit(t, root)
    BY <2>2 DEF commit, notHalted, haltVars, erc20Vars
  <2>3. CASE \E c \in Clients, t \in Tokens, approvals \in SUBSET Approvals :
                cancelWithdrawal(c, t, approvals)
    <3>1. notHalted /\ UNCHANGED erc20Vars
      BY <2>3, Zenon DEF cancelWithdrawal
    <3> QED
      BY <3>1 DEF notHalted, haltVars, erc20Vars
  <2>4. CASE \E c \in Clients, fills \in SUBSET Fills :
                \E approvalOf \in ApprovalsFor(fills) : closeDispute(c, fills, approvalOf)
    <3>1. notHalted /\ UNCHANGED erc20Vars
      BY <2>4, Zenon DEF closeDispute
    <3> QED
      BY <3>1 DEF notHalted, haltVars, erc20Vars
  <2> QED
    BY <1>2, <2>1, <2>2, <2>3, <2>4, Zenon
<1>3. CASE \E c \in Clients, t \in Tokens : \E amount \in Amounts(t) :
              initiateWithdrawal(c, t, amount)
  <2>1. notHalted /\ UNCHANGED erc20Vars
    BY <1>3, Zenon DEF initiateWithdrawal
  <2> QED
    BY <2>1 DEF notHalted, haltVars, erc20Vars
<1>4. CASE \E c \in Clients, fills \in SUBSET Fills, byProof \in BOOLEAN :
              openDispute(c, fills, byProof)
  <2>1. notHalted /\ UNCHANGED erc20Vars
    BY <1>4, Zenon DEF openDispute
  <2> QED
    BY <2>1 DEF notHalted, haltVars, erc20Vars
<1> QED
  BY <1>1, <1>2, <1>3, <1>4, Steps

LEMMA ConfirmationOfTheVault ==
    ASSUME IInv, IInv', MoneyInv, ClaimsAreOwed, ClaimsAreOwed', [AnyNext]_vars,
           NEW e \in Clients, NEW u \in Tokens, confirmWithdrawal(e, u)
    PROVE  V!Pay(e, u)
<1>1. /\ ClaimsExcept(u, e, Claim(u, e) - Waiting(Horizon, u, e))
      /\ Waiting(Horizon, u, e) \in Nat
      /\ transferTokenToClient(u, e, Waiting(Horizon, u, e))
      /\ Waiting(Horizon, u, e) <= Claim(u, e)
  BY ConfirmClaims DEF MoneyInv
<1>2. PICK amount \in Nat : amount = Waiting(Horizon, u, e)
  BY <1>1
<1>3. PICK rest \in Nat : rest = Claim(u, e) - amount
  BY <1>1, <1>2 DEF ClaimsAreOwed
<1>4. halted => halted'
  BY DEF confirmWithdrawal, RecordHalt
<1>5. /\ held[u] >= amount /\ held' = [held EXCEPT ![u] = @ - amount]
      /\ ClaimsExcept(u, e, rest)
  BY <1>1, <1>2, <1>3 DEF transferTokenToClient
<1>6. amount <= Claim(u, e) - rest /\ amount = Claim(u, e) - rest
  BY <1>3 DEF ClaimsAreOwed
<1>7. sound' = sound
  BY ProofsStay DEF confirmWithdrawal
<1> QED
  BY <1>4, <1>5, <1>6, <1>7, PaymentOfTheVault

LEMMA RecoveryOfTheVault ==
    ASSUME IInv, IInv', RootInv, ClaimsAreOwed, ClaimsAreOwed', [AnyNext]_vars,
           NEW e \in Clients, NEW u \in Tokens,
           recoverAllFunds(e, u) \/ recoverOnChainFundsOnly(e, u)
    PROVE  V!Pay(e, u)
<1>1. /\ ClaimsExcept(u, e, Waiting(Horizon, u, e)) /\ halted'
      /\ \E amount \in Nat : /\ transferTokenToClient(u, e, amount)
                             /\ amount <= Claim(u, e) - Waiting(Horizon, u, e)
  BY RecoveryClaims
<1>2. PICK rest \in Nat : rest = Waiting(Horizon, u, e)
  BY HorizonRange, WaitingType DEF IInv
<1>3. PICK amount \in Nat : /\ transferTokenToClient(u, e, amount)
                            /\ amount <= Claim(u, e) - Waiting(Horizon, u, e)
  BY <1>1
<1>4. /\ held[u] >= amount /\ held' = [held EXCEPT ![u] = @ - amount]
      /\ ClaimsExcept(u, e, rest) /\ amount <= Claim(u, e) - rest
  BY <1>1, <1>2, <1>3 DEF transferTokenToClient
<1>5. sound' = sound
  BY ProofsStay DEF recoverAllFunds, recoverOnChainFundsOnly
<1> QED
  BY <1>1, <1>4, <1>5, PaymentOfTheVault

LEMMA StepOfTheVault ==
    ASSUME IInv, IInv', MoneyInv, ClaimsAreOwed, ClaimsAreOwed', ClaimsCovered', [AnyNext]_vars
    PROVE  [V!VaultNext]_(V!vaultVars)
<1>1. ASSUME NEW e \in Clients, NEW u \in Tokens, NEW amount \in Amounts(u),
             depositTokens(e, u, amount)
      PROVE  V!VaultNext
  BY <1>1, DepositOfTheVault DEF V!VaultNext, MoneyInv, Amounts
<1>2. ASSUME NEW e \in Clients, NEW u \in Tokens, confirmWithdrawal(e, u)
      PROVE  V!VaultNext
  BY <1>2, ConfirmationOfTheVault DEF V!VaultNext
<1>3. ASSUME NEW e \in Clients, NEW u \in Tokens,
             recoverAllFunds(e, u) \/ recoverOnChainFundsOnly(e, u)
      PROVE  V!VaultNext
  BY <1>3, RecoveryOfTheVault DEF V!VaultNext, MoneyInv
<1>4. ASSUME updateHaltedState
      PROVE  V!VaultNext
  <2>1. owed' = owed /\ sound' = sound
    BY <1>4, ClaimsStay DEF updateHaltedState
  <2>2. ~halted /\ halted' /\ held' = held
    BY <1>4 DEF updateHaltedState, HaltDue, RecordHalt, erc20Vars
  <2> QED
    BY <2>1, <2>2 DEF V!VaultNext, V!Freeze
<1>5. ASSUME UNCHANGED vars
      PROVE  UNCHANGED V!vaultVars
  <2>1. owed' = owed /\ sound' = sound
    BY <1>5, ClaimsStay DEF vars
  <2> QED
    BY <1>5, <2>1 DEF vars, V!vaultVars, haltVars, erc20Vars
<1>6. ASSUME ~halted /\ ~halted' /\ held' = held
      PROVE  V!VaultNext
  BY <1>6, ReallocationOfTheVault DEF V!VaultNext
<1> QED
  BY <1>1, <1>2, <1>3, <1>4, <1>5, <1>6, UnhaltedSteps

\* At the start the vault is empty.
LEMMA StartOfTheVault ==
    ASSUME Init, TypeOK, HaltInv, RootInv, BlankInv, TotalsMatch
    PROVE  V!VaultInit
<1>1. owed = [t \in Tokens |-> [c \in Clients |-> Claim(t, c)]]
  BY OwedAsClaim, OwedAreClaims
<1>2. Horizon = -2 \/ Horizon = -1
  BY HorizonRange DEF Init
<1>3. ASSUME NEW t \in Tokens, NEW c \in Clients
      PROVE  Claim(t, c) = 0 /\ Proven(t, c) = 0
  <2>1. \A r \in Int : DepositedIn(c, t, r) = 0
    BY <1>3 DEF Init, DepositedIn
  <2>2. Since(t, c) = 0
    BY <1>2, <2>1 DEF Since
  <2>3. Proven(t, c) = 0
    <3>1. Provable(c, t, Horizon) = {}
      BY <1>2 DEF Provable, Rounds
    <3>2. Proven(t, c) = Max({0})
      BY <3>1 DEF Proven
    <3>3. Max({0}) \in {0}
      <4>1. {0} \in SUBSET (0..0)
        OBVIOUS
      <4> QED
        BY <4>1, GreatestIsIn
    <3> QED
      BY <3>2, <3>3
  <2>4. Waiting(Horizon, t, c) = 0
    BY <1>3 DEF Init, Waiting
  <2> QED
    BY <2>2, <2>3, <2>4 DEF Claim
<1>4. sound = [t \in Tokens |-> TRUE]
  <2>1. ASSUME NEW t \in Tokens PROVE ProvenOf(t) = 0 /\ OpeningOf(t, Horizon) = 0
    <3> DEFINE f == [c \in Clients |-> Proven(t, c)]
    <3>1. IsFiniteSet(Clients) /\ \A c \in Clients : f[c] = 0
      BY <1>3, ConstantsAssumption
    <3>2. SumFunctionOnSet(f, Clients) = 0
      <4> HIDE DEF f
      <4> QED
        BY <3>1, SumZero
    <3>3. ProvenOf(t) = 0
      BY <3>2, ProvenAddsUp
    <3>4. OpeningOf(t, Horizon) = 0
      BY <1>2 DEF OpeningOf, Rounds
    <3> QED
      BY <3>3, <3>4
  <2> QED
    <3>1. \A t \in Tokens : ProvenOf(t) <= OpeningOf(t, Horizon)
      BY <2>1
    <3> QED
      BY <3>1, Zenon DEF sound
<1> QED
  BY <1>1, <1>3, <1>4 DEF V!VaultInit, Init

\* The contract is a vault: whatever clients and operator call, in any order, and
\* whatever roots are committed, a payment is taken from the claim of the one it is
\* paid to, after the halt nothing else changes a claim, and the claims are covered
\* whenever the root of the horizon proves no more than there was.
THEOREM MediatorIsAVault == HaltDelay <= 1 => (Spec => ImplementsVault)
<1> SUFFICES ASSUME HaltDelay <= 1 PROVE Spec => ImplementsVault
  OBVIOUS
<1>1. Init => V!VaultInit
  BY InitIInv, PoolAtStart, TotalsAtStart, StartOfTheVault DEF IInv
<1>2. IInv /\ MoneyInv => ClaimsCovered
  BY HeldForTheClaims
<1>3. /\ IInv /\ IInv' /\ MoneyInv /\ ClaimsAreOwed /\ ClaimsAreOwed' /\ ClaimsCovered'
      /\ [AnyNext]_vars
      => [V!VaultNext]_(V!vaultVars)
  BY StepOfTheVault
<1>4. ImplementsVault <=> V!VaultInit /\ [][V!VaultNext]_(V!vaultVars)
  BY DEF ImplementsVault, V!VaultSpec
<1>5. HaltDelay <= 1 => (Spec => []MoneyInv)
  BY BooksAreHeld
<1> QED
  BY <1>1, <1>2, <1>3, <1>4, <1>5, Inductive, OwedIsClaimed, NextIsAnyNext, PTL DEF Spec
=============================================================================
