---------------------------- MODULE OperatorProofs ----------------------------
(***************************************************************************)
(* Proofs about the operator: its types, that it loses no deposit, and     *)
(* that its books are those of the contract: the tree of a round that was  *)
(* committed stays the one committed.                                      *)
(***************************************************************************)
EXTENDS OperatorInvariant, MediatorProofs, SequenceTheorems

SetsWithdrawn(r, t, c, value) ==
    accounts' = [accounts EXCEPT ![r][t][c].withdrawn = value]

SetsLocked(r, t, c, value) ==
    accounts' = [accounts EXCEPT ![r][t][c].locked = value]

Credits(r, t, c, amount) ==
    accounts' = [accounts EXCEPT ![r][t][c].deposited = @ + amount]

\* What an order locks or a withdrawal takes leaves the deposits alone.
LEMMA AccountsKept ==
    ASSUME accounts \in [Rounds -> [Tokens -> [Clients -> Account]]],
           \E r \in Rounds, t \in Tokens, c \in Clients, v \in Int :
              SetsWithdrawn(r, t, c, v) \/ SetsLocked(r, t, c, v)
    PROVE  /\ accounts' \in [Rounds -> [Tokens -> [Clients -> Account]]]
           /\ \A r \in Rounds, t \in Tokens, c \in Clients :
                 accounts'[r][t][c].deposited = accounts[r][t][c].deposited
<1>1. PICK r \in Rounds, t \in Tokens, c \in Clients, v \in Int :
         SetsWithdrawn(r, t, c, v) \/ SetsLocked(r, t, c, v)
  OBVIOUS
<1>2. CASE SetsWithdrawn(r, t, c, v)
  <2> DEFINE new == [accounts[r][t][c] EXCEPT !.withdrawn = v]
  <2>0. accounts[r][t][c] \in Account
    OBVIOUS
  <2>1. new \in Account /\ new.deposited = accounts[r][t][c].deposited
    BY <2>0 DEF Account
  <2>2. accounts' = [accounts EXCEPT ![r][t][c] = new]
    BY <1>2 DEF SetsWithdrawn
  <2> HIDE DEF new
  <2>3. /\ accounts' \in [Rounds -> [Tokens -> [Clients -> Account]]]
        /\ accounts'[r][t][c] = new
        /\ \A q \in Rounds, u \in Tokens, d \in Clients :
              <<q, u, d>> # <<r, t, c>> => accounts'[q][u][d] = accounts[q][u][d]
    BY <1>1, <2>1, <2>2
  <2>4. ASSUME NEW q \in Rounds, NEW u \in Tokens, NEW d \in Clients
        PROVE  accounts'[q][u][d].deposited = accounts[q][u][d].deposited
    <3>1. CASE <<q, u, d>> = <<r, t, c>>
      BY <2>1, <2>3, <3>1
    <3>2. CASE <<q, u, d>> # <<r, t, c>>
      BY <2>3, <3>2
    <3> QED
      BY <3>1, <3>2
  <2> QED
    BY <2>3, <2>4
<1>3. CASE SetsLocked(r, t, c, v)
  <2> DEFINE new == [accounts[r][t][c] EXCEPT !.locked = v]
  <2>0. accounts[r][t][c] \in Account
    OBVIOUS
  <2>1. new \in Account /\ new.deposited = accounts[r][t][c].deposited
    BY <2>0 DEF Account
  <2>2. accounts' = [accounts EXCEPT ![r][t][c] = new]
    BY <1>3 DEF SetsLocked
  <2> HIDE DEF new
  <2>3. /\ accounts' \in [Rounds -> [Tokens -> [Clients -> Account]]]
        /\ accounts'[r][t][c] = new
        /\ \A q \in Rounds, u \in Tokens, d \in Clients :
              <<q, u, d>> # <<r, t, c>> => accounts'[q][u][d] = accounts[q][u][d]
    BY <1>1, <2>1, <2>2
  <2>4. ASSUME NEW q \in Rounds, NEW u \in Tokens, NEW d \in Clients
        PROVE  accounts'[q][u][d].deposited = accounts[q][u][d].deposited
    <3>1. CASE <<q, u, d>> = <<r, t, c>>
      BY <2>1, <2>3, <3>1
    <3>2. CASE <<q, u, d>> # <<r, t, c>>
      BY <2>3, <3>2
    <3> QED
      BY <3>1, <3>2
  <2> QED
    BY <2>3, <2>4
<1> QED
  BY <1>1, <1>2, <1>3

LEMMA AccountCredited ==
    ASSUME accounts \in [Rounds -> [Tokens -> [Clients -> Account]]],
           NEW r \in Rounds, NEW t \in Tokens, NEW c \in Clients, NEW amount \in Nat,
           Credits(r, t, c, amount)
    PROVE  /\ accounts' \in [Rounds -> [Tokens -> [Clients -> Account]]]
           /\ accounts'[r][t][c].deposited = accounts[r][t][c].deposited + amount
           /\ \A q \in Rounds, u \in Tokens, d \in Clients :
                 <<q, u, d>> # <<r, t, c>> => accounts'[q][u][d] = accounts[q][u][d]
<1> DEFINE new == [accounts[r][t][c] EXCEPT !.deposited = @ + amount]
<1>1. new \in Account /\ new.deposited = accounts[r][t][c].deposited + amount
  BY DEF Account
<1>2. accounts' = [accounts EXCEPT ![r][t][c] = new]
  BY DEF Credits
<1> HIDE DEF new
<1> QED
  BY <1>1, <1>2

-----------------------------------------------------------------------------
(* Types. *)

\* A block is appended, of the current quarter.
LEMMA MineType ==
    ASSUME OperatorTypeOK, NEW event \in Event, Mine(event)
    PROVE  /\ unprocessed' \in Seq(Block)
           /\ Len(unprocessed') = Len(unprocessed) + 1
           /\ unprocessed'[Len(unprocessed) + 1].event = event
           /\ unprocessed'[Len(unprocessed) + 1].round = round
           /\ \A i \in DOMAIN unprocessed : unprocessed'[i] = unprocessed[i]
<1> DEFINE new == [round |-> round, quarter |-> quarter, event |-> event]
<1>1. new \in Block /\ new.event = event /\ new.round = round
  BY DEF OperatorTypeOK, Block
<1>2. unprocessed' = Append(unprocessed, new) /\ unprocessed \in Seq(Block)
  BY DEF Mine, OperatorTypeOK
<1> HIDE DEF new
<1> QED
  BY <1>1, <1>2

\* The process goes on to the next item.
LEMMA RowIn ==
    ASSUME OperatorTypeOK, pc \in Moderating
    PROVE  row \in todo /\ row \in DOMAIN withdrawals /\ request \in Withdrawal
<1>1. todo \subseteq DOMAIN withdrawals /\ todo # {} /\ DOMAIN withdrawals \in SUBSET Nat
  BY DEF OperatorTypeOK, TodoOK, Moderating
<1>2. row \in todo
  BY <1>1, LeastIsIn DEF row
<1>3. withdrawals \in Seq(Withdrawal)
  BY DEF OperatorTypeOK
<1> QED
  BY <1>1, <1>2, <1>3 DEF request

LEMMA DisputeRowIn ==
    ASSUME OperatorTypeOK, pc \in {"dispute", "closed"}, todo # {}
    PROVE  row \in todo /\ row \in DOMAIN disputeRows /\ disputeRow \in DisputeRow
<1>1. todo \subseteq DOMAIN disputeRows /\ DOMAIN disputeRows \in SUBSET Nat
  BY DEF OperatorTypeOK, TodoOK
<1>2. row \in todo
  BY <1>1, LeastIsIn DEF row
<1>3. disputeRows \in Seq(DisputeRow)
  BY DEF OperatorTypeOK
<1> QED
  BY <1>1, <1>2, <1>3 DEF disputeRow

LEMMA BlockIn ==
    ASSUME OperatorTypeOK, unprocessed # <<>>
    PROVE  /\ block \in Block /\ block = unprocessed[1] /\ 1 \in DOMAIN unprocessed
           /\ block.event \in Event /\ block.round \in Rounds /\ block.quarter \in Quarters
<1>1. unprocessed \in Seq(Block) /\ unprocessed # <<>>
  BY DEF OperatorTypeOK
<1>2. block \in Block /\ block = unprocessed[1] /\ 1 \in DOMAIN unprocessed
  BY <1>1 DEF block
<1> QED
  BY <1>2 DEF Block

(* What the steps do that neither mine an event nor handle one. *)

PlaceKept ==
    \/ pc' = pc
    \/ /\ pc # "recordDeposit" /\ pc' # "recordDeposit"
       /\ pc' # "idle" => unprocessed # <<>>
       /\ pc' \notin {"idle", "event"} =>
             (pc \notin {"idle", "event"} \/ ~IsDeposit(1) \/ block.event.id \in deposits)

DepositsKept ==
    /\ UNCHANGED <<clientDeposits, unprocessed, events, deposits, lost, crashes>>
    /\ \A r \in Rounds, t \in Tokens, c \in Clients :
          accounts'[r][t][c].deposited = accounts[r][t][c].deposited
    /\ PlaceKept
    /\ pc' # "idle" => up'

Kept == OperatorTypeOK' /\ DepositsKept

\* The tables stay as they are.
LEMMA KeptByTables ==
    ASSUME OperatorTypeOK, PlaceKept, pc' # "idle" => up',
           UNCHANGED <<totalDisputes, clientDeposits, unprocessed, events, accounts,
                       deposits, withdrawals, disputeRows, lost, crashes>>,
           round' \in Rounds, quarter' \in Quarters, _round' \in Rounds,
           _quarter' \in Quarters, pc' \in ProcessPlaces, TodoOK'
    PROVE  Kept
BY DEF OperatorTypeOK, Kept, DepositsKept

\* Only the contract's books, its clock or the orders change.
LEMMA KeptByChain ==
    ASSUME OperatorTypeOK, AtABlock,
           UNCHANGED <<totalDisputes, clientDeposits, unprocessed, events, accounts,
                       deposits, withdrawals, disputeRows, lost, crashes, up, _round,
                       _quarter, pc, todo>>,
           round' \in Rounds, quarter' \in Quarters
    PROVE  Kept
<1>1. TodoOK'
  BY DEF OperatorTypeOK, TodoOK
<1>2. /\ _round' \in Rounds /\ _quarter' \in Quarters /\ pc' \in ProcessPlaces
      /\ PlaceKept /\ (pc' # "idle" => up')
  BY DEF OperatorTypeOK, PlaceKept, AtABlock
<1> QED
  BY <1>1, <1>2, KeptByTables

LEMMA ClockKeeps == ASSUME OperatorTypeOK, AtABlock, Clock PROVE Kept
<1>1. round \in Rounds /\ quarter \in Quarters /\ MaxRound \in Nat
  BY ConstantsAssumption DEF OperatorTypeOK
<1>2. round' \in Rounds /\ quarter' \in Quarters
  BY <1>1 DEF Clock, Tick, Rounds, Quarters
<1> QED
  BY <1>2, KeptByChain DEF Clock, Tick, tableVars, processVars, boundVars, disputeVars,
                           depositVars

LEMMA HaltKeeps == ASSUME OperatorTypeOK, AtABlock, anybodyHalts PROVE Kept
<1>1. round' \in Rounds /\ quarter' \in Quarters
  BY DEF anybodyHalts, updateHaltedState, clockVars, OperatorTypeOK
<1> QED
  BY <1>1, KeptByChain DEF anybodyHalts, updateHaltedState, tableVars, processVars,
                           boundVars, disputeVars, depositVars, chainVars

LEMMA DeployKeeps == ASSUME OperatorTypeOK, AtABlock, NEW t \in Tokens, deploy(t) PROVE Kept
<1>1. round' \in Rounds /\ quarter' \in Quarters
  BY DEF deploy, registerToken, clockVars, OperatorTypeOK
<1> QED
  BY <1>1, KeptByChain DEF deploy, registerToken, tableVars, processVars,
                           boundVars, disputeVars, depositVars, chainVars

\* A step of the process that only moves it on.
LEMMA KeptByProcess ==
    ASSUME OperatorTypeOK, AtABlock, PlaceKept, pc' # "idle" => up', OnlyProcess,
           _round' \in Rounds, _quarter' \in Quarters, pc' \in ProcessPlaces, TodoOK'
    PROVE  Kept
<1>1. round' \in Rounds /\ quarter' \in Quarters
  BY DEF OnlyProcess, mediatorVars, vars, clockVars, OperatorTypeOK
<1> QED
  BY <1>1, KeptByTables DEF OnlyProcess, mediatorVars, vars, tableVars, boundVars,
                            disputeVars, depositVars, chainVars

LEMMA StartKeeps == ASSUME OperatorTypeOK, AtABlock, Start PROVE Kept
<1>1. 0 \in Rounds /\ 0 \in Quarters
  BY ConstantsAssumption DEF Rounds, Quarters
<1>2. pc' = "idle" /\ pc = "idle" /\ _round' = 0 /\ _quarter' = 0 /\ OnlyProcess
  BY DEF Start, AtABlock
<1>3. TodoOK' /\ PlaceKept /\ pc' \in ProcessPlaces
  BY <1>2 DEF TodoOK, PlaceKept, ProcessPlaces, Moderating
<1> QED
  BY <1>1, <1>2, <1>3, KeptByProcess

\* The process goes on elsewhere, with the same rows to go through.
LEMMA KeptByGoto ==
    ASSUME OperatorTypeOK, AtABlock, NEW next, Goto(next), OnlyProcess, PlaceKept,
           next \in ProcessPlaces, next # "idle" => up,
           next \in {"moderate"} \cup Moderating => pc \in {"moderate"} \cup Moderating,
           next \in {"closed", "dispute"} => pc \in {"dispute", "closed"},
           next \in Moderating \cup {"closed"} => todo # {},
           next # "commit"
    PROVE  Kept
<1>1. pc' = next /\ up' = up /\ _round' = _round /\ _quarter' = _quarter /\ todo' = todo
  BY DEF Goto
<1>2. withdrawals' = withdrawals /\ disputeRows' = disputeRows
  BY DEF OnlyProcess, tableVars
<1>3. TodoOK'
  BY <1>1, <1>2 DEF OperatorTypeOK, TodoOK
<1> QED
  BY <1>1, <1>3, KeptByProcess DEF OperatorTypeOK

LEMMA ProcessBlockKeeps == ASSUME OperatorTypeOK, AtABlock, processBlock PROVE Kept
<1> DEFINE next == IF block.event.type = "none" THEN "quarter" ELSE "event"
<1>1. /\ up /\ pc = "idle" /\ unprocessed # <<>> /\ Goto(next) /\ OnlyProcess
      /\ next \in {"quarter", "event"} /\ pc' = next
  BY DEF processBlock, Goto
<1>2. next = "quarter" => ~IsDeposit(1)
  BY <1>1, BlockIn DEF IsDeposit
<1>3. PlaceKept
  BY <1>1, <1>2 DEF PlaceKept
<1> HIDE DEF next
<1> QED
  BY <1>1, <1>3, KeptByGoto DEF ProcessPlaces, Moderating

LEMMA NewQuarterKeeps == ASSUME OperatorTypeOK, AtABlock, onNewQuarter PROVE Kept
<1>0. pc = "quarter" /\ up /\ unprocessed # <<>> /\ OnlyProcess /\ up' = up
  BY DEF onNewQuarter, AtABlock, Goto
<1>1. CASE Goto("save")
  <2>1. PlaceKept
    BY <1>0, <1>1 DEF PlaceKept, Goto
  <2> QED
    BY <1>0, <1>1, <2>1, KeptByGoto DEF ProcessPlaces, Moderating
<1>2. CASE /\ _round' = block.round /\ _quarter' = block.quarter /\ pc' = "moderate"
           /\ todo' = uncheckedWithdrawals
  <2>1. _round' \in Rounds /\ _quarter' \in Quarters
    BY <1>0, <1>2, BlockIn
  <2>2. PlaceKept /\ pc' \in ProcessPlaces
    BY <1>0, <1>2 DEF PlaceKept, ProcessPlaces
  <2>3. withdrawals' = withdrawals
    BY <1>0 DEF OnlyProcess, tableVars
  <2>4. TodoOK'
    BY <1>2, <2>3 DEF TodoOK, uncheckedWithdrawals, Moderating
  <2> QED
    BY <1>0, <2>1, <2>2, <2>4, KeptByProcess
<1> QED
  BY <1>1, <1>2 DEF onNewQuarter, BeginQuarter

LEMMA ModerateKeeps == ASSUME OperatorTypeOK, AtABlock, moderateWithdrawalRequest PROVE Kept
<1> DEFINE next == IF validateWithdrawal(request) THEN "approve" ELSE "cancel"
<1>1. /\ pc = "moderate" /\ todo # {} /\ Goto(next) /\ OnlyProcess
      /\ next \in {"approve", "cancel"} /\ pc' = next /\ up /\ unprocessed # <<>>
  BY DEF moderateWithdrawalRequest, Goto, AtABlock
<1>2. PlaceKept
  BY <1>1 DEF PlaceKept
<1> HIDE DEF next
<1> QED
  BY <1>1, <1>2, KeptByGoto DEF ProcessPlaces, Moderating

LEMMA ApproveKeeps == ASSUME OperatorTypeOK, AtABlock, approveWithdrawal PROVE Kept
<1> DEFINE next == IF validateWithdrawal(request) THEN "book" ELSE "failed"
<1>1. /\ pc = "approve" /\ Goto(next) /\ OnlyProcess
      /\ next \in {"book", "failed"} /\ pc' = next /\ up /\ unprocessed # <<>>
  BY DEF approveWithdrawal, Goto, AtABlock
<1>2. PlaceKept /\ todo # {}
  BY <1>1 DEF PlaceKept, OperatorTypeOK, TodoOK, Moderating
<1> HIDE DEF next
<1> QED
  BY <1>1, <1>2, KeptByGoto DEF ProcessPlaces, Moderating

\* The rows of a table change, and none is removed.
LEMMA KeptByRows ==
    ASSUME OperatorTypeOK, AtABlock, PlaceKept, pc' # "idle" => up',
           UNCHANGED <<totalDisputes, clientDeposits, unprocessed, events, deposits, lost,
                       crashes, round, quarter, _round, _quarter>>,
           accounts' \in [Rounds -> [Tokens -> [Clients -> Account]]],
           \A r \in Rounds, t \in Tokens, c \in Clients :
              accounts'[r][t][c].deposited = accounts[r][t][c].deposited,
           withdrawals' \in Seq(Withdrawal), disputeRows' \in Seq(DisputeRow),
           pc' \in ProcessPlaces, TodoOK'
    PROVE  Kept
BY DEF OperatorTypeOK, Kept, DepositsKept

\* What a step of the database leaves alone.
LEMMA DatabaseKeeps ==
    ASSUME InDatabase
    PROVE  UNCHANGED <<totalDisputes, clientDeposits, unprocessed, events, lost, crashes,
                       round, quarter>>
BY DEF InDatabase, mediatorVars, vars, depositVars, disputeVars, clockVars, chainVars,
       boundVars

LEMMA RowChange ==
    ASSUME OperatorTypeOK, NEW i \in DOMAIN withdrawals,
           NEW status \in {"unchecked", "pending", "confirmed", "canceled"}
    PROVE  LET next == [withdrawals EXCEPT ![i].status = status]
           IN /\ next \in Seq(Withdrawal) /\ DOMAIN next = DOMAIN withdrawals
              /\ next[i] = [withdrawals[i] EXCEPT !.status = status]
              /\ \A j \in DOMAIN withdrawals \ {i} : next[j] = withdrawals[j]
<1> DEFINE new == [withdrawals[i] EXCEPT !.status = status]
<1>1. withdrawals \in Seq(Withdrawal)
  BY DEF OperatorTypeOK
<1>2. new \in Withdrawal
  <2>1. withdrawals[i] \in Withdrawal
    BY <1>1
  <2> QED
    BY <2>1 DEF Withdrawal
<1>3. [withdrawals EXCEPT ![i].status = status] = [withdrawals EXCEPT ![i] = new]
  OBVIOUS
<1> HIDE DEF new
<1>4. LET next == [withdrawals EXCEPT ![i] = new]
      IN /\ next \in Seq(Withdrawal) /\ DOMAIN next = DOMAIN withdrawals
         /\ next[i] = new
         /\ \A j \in DOMAIN withdrawals \ {i} : next[j] = withdrawals[j]
  BY <1>1, <1>2
<1> QED
  BY <1>3, <1>4 DEF new

LEMMA BookKeeps == ASSUME OperatorTypeOK, AtABlock, bookWithdrawal PROVE Kept
<1>1. pc = "book" /\ pc' = "moderate" /\ todo' = todo \ {row} /\ up' = up /\ up
  BY DEF bookWithdrawal, NextItem, AtABlock
<1>2. row \in DOMAIN withdrawals /\ request \in Withdrawal /\ todo \subseteq DOMAIN withdrawals
  BY <1>1, RowIn DEF Moderating, OperatorTypeOK, TodoOK
<1>3. withdrawals' \in Seq(Withdrawal) /\ DOMAIN withdrawals' = DOMAIN withdrawals
  BY <1>2, RowChange DEF bookWithdrawal
<1>4. /\ accounts' \in [Rounds -> [Tokens -> [Clients -> Account]]]
      /\ \A r \in Rounds, t \in Tokens, c \in Clients :
            accounts'[r][t][c].deposited = accounts[r][t][c].deposited
  <2> DEFINE w == request
             value == accounts[w.round][w.asset][w.wallet].withdrawn + w.amount
  <2>1. /\ w.round \in Rounds /\ w.asset \in Tokens /\ w.wallet \in Clients /\ w.amount \in Nat
        /\ accounts \in [Rounds -> [Tokens -> [Clients -> Account]]]
    BY <1>2 DEF Withdrawal, OperatorTypeOK
  <2>2. value \in Int
    BY <2>1 DEF Account
  <2>3. SetsWithdrawn(w.round, w.asset, w.wallet, value)
    BY DEF bookWithdrawal, SetsWithdrawn
  <2> HIDE DEF w, value
  <2>4. \E r \in Rounds, t \in Tokens, c \in Clients, v \in Int :
           SetsWithdrawn(r, t, c, v)
    BY <2>1, <2>2, <2>3
  <2> QED
    BY <2>1, <2>4, AccountsKept
<1>5. PlaceKept /\ pc' \in ProcessPlaces /\ TodoOK' /\ (pc' # "idle" => up')
  BY <1>1, <1>2, <1>3 DEF PlaceKept, TodoOK, ProcessPlaces, Moderating, AtABlock
<1>6. UNCHANGED <<deposits, disputeRows, _round, _quarter>> /\ InDatabase
  BY DEF bookWithdrawal, NextItem
<1>7. disputeRows' \in Seq(DisputeRow)
  BY <1>6 DEF OperatorTypeOK
<1> QED
  BY <1>3, <1>4, <1>5, <1>6, <1>7, DatabaseKeeps, KeptByRows

LEMMA CancellationKeeps == ASSUME OperatorTypeOK, AtABlock, requestCancellation PROVE Kept
<1>1. /\ pc = "cancel" /\ up /\ unprocessed # <<>> /\ todo # {} /\ todo \subseteq DOMAIN withdrawals
      /\ \/ cancelWithdrawal(request.wallet, request.asset, ShownApprovals(request))
            /\ Goto("cancelled")
         \/ NextItem("moderate", row) /\ UNCHANGED mediatorVars
      /\ crashes' = crashes /\ lost' = lost
      /\ OnChain
  BY DEF requestCancellation, CancellationFailed, AtABlock, TxFails, boundVars,
         OperatorTypeOK, TodoOK, Moderating
<1>2. UNCHANGED <<totalDisputes, clientDeposits, round, quarter>>
  BY <1>1 DEF cancelWithdrawal, mediatorVars, vars, clockVars, depositVars, disputeVars
<1>3. UNCHANGED <<accounts, deposits, withdrawals, disputeRows, unprocessed, events>>
  BY <1>1 DEF OnChain, chainVars, tableVars
<1>4. /\ UNCHANGED <<up, _round, _quarter>> /\ pc' \in {"cancelled", "moderate"}
      /\ todo' \subseteq todo /\ (pc' = "cancelled" => todo' = todo)
  BY <1>1 DEF Goto, NextItem
<1>5. PlaceKept /\ pc' \in ProcessPlaces /\ TodoOK' /\ (pc' # "idle" => up')
  BY <1>1, <1>3, <1>4 DEF PlaceKept, TodoOK, ProcessPlaces, Moderating
<1>6. round' \in Rounds /\ quarter' \in Quarters /\ _round' \in Rounds /\ _quarter' \in Quarters
  BY <1>2, <1>4 DEF OperatorTypeOK
<1> QED
  BY <1>1, <1>2, <1>3, <1>5, <1>6, KeptByTables

LEMMA LedgerCancellationKeeps ==
    ASSUME OperatorTypeOK, AtABlock, cancelWithdrawalInLedger PROVE Kept
<1> DEFINE live == WithdrawalsOf(request.asset, request.wallet, {"unchecked", "pending"})
           i == Min(live)
           w == withdrawals[i]
           value == accounts[w.round][w.asset][w.wallet].withdrawn - w.amount
<1>1. /\ pc = "cancelled" /\ pc' = "moderate" /\ todo' = todo \ {row} /\ up' = up /\ up
      /\ unprocessed # <<>> /\ todo \subseteq DOMAIN withdrawals
  BY Zenon DEF cancelWithdrawalInLedger, NextItem, AtABlock, OperatorTypeOK, TodoOK, Moderating
<1>2. \/ UNCHANGED <<accounts, withdrawals>>
      \/ /\ live # {}
         /\ withdrawals' = [withdrawals EXCEPT ![i].status = "canceled"]
         /\ \/ accounts' = accounts
            \/ SetsWithdrawn(w.round, w.asset, w.wallet, value)
  BY Zenon DEF cancelWithdrawalInLedger, SetsWithdrawn
<1>3. UNCHANGED <<deposits, disputeRows, _round, _quarter>> /\ InDatabase
  BY Zenon DEF cancelWithdrawalInLedger, NextItem
<1>4. /\ accounts \in [Rounds -> [Tokens -> [Clients -> Account]]]
      /\ withdrawals \in Seq(Withdrawal) /\ disputeRows' \in Seq(DisputeRow)
  BY <1>3 DEF OperatorTypeOK
<1>5. live # {} => i \in DOMAIN withdrawals
  <2>1. live \subseteq DOMAIN withdrawals /\ live \in SUBSET Nat
    BY <1>4 DEF WithdrawalsOf
  <2> HIDE DEF live
  <2> QED
    BY <2>1, LeastIsIn
<1>6. i \in DOMAIN withdrawals =>
         /\ w.round \in Rounds /\ w.asset \in Tokens /\ w.wallet \in Clients
         /\ value \in Int
  <2> HIDE DEF i
  <2> SUFFICES ASSUME i \in DOMAIN withdrawals
               PROVE  /\ w.round \in Rounds /\ w.asset \in Tokens /\ w.wallet \in Clients
                      /\ value \in Int
    OBVIOUS
  <2>1. w \in Withdrawal
    BY <1>4
  <2>2. w.round \in Rounds /\ w.asset \in Tokens /\ w.wallet \in Clients /\ w.amount \in Nat
    BY <2>1 DEF Withdrawal
  <2> HIDE DEF w
  <2>3. accounts[w.round][w.asset][w.wallet] \in Account
    BY <1>4, <2>2
  <2> QED
    BY <2>2, <2>3 DEF Account
<1> HIDE DEF live, i, w, value
<1>7. withdrawals' \in Seq(Withdrawal) /\ DOMAIN withdrawals' = DOMAIN withdrawals
  BY <1>2, <1>4, <1>5, RowChange
<1>8. /\ accounts' \in [Rounds -> [Tokens -> [Clients -> Account]]]
      /\ \A r \in Rounds, t \in Tokens, c \in Clients :
            accounts'[r][t][c].deposited = accounts[r][t][c].deposited
  <2>1. CASE accounts' = accounts
    BY <1>4, <2>1
  <2>2. CASE live # {} /\ SetsWithdrawn(w.round, w.asset, w.wallet, value)
    <3>1. \E r \in Rounds, t \in Tokens, c \in Clients, v \in Int :
             SetsWithdrawn(r, t, c, v)
      BY <1>5, <1>6, <2>2
    <3> QED
      BY <1>4, <3>1, AccountsKept
  <2> QED
    BY <1>2, <2>1, <2>2
<1>9. PlaceKept /\ pc' \in ProcessPlaces /\ TodoOK' /\ (pc' # "idle" => up')
  BY <1>1, <1>7 DEF PlaceKept, TodoOK, ProcessPlaces, Moderating
<1> QED
  BY <1>3, <1>4, <1>7, <1>8, <1>9, DatabaseKeeps, KeptByRows

LEMMA ClaimKeeps ==
    ASSUME OperatorTypeOK, AtABlock, NEW c \in Clients, NEW t \in Tokens,
           claimWithdrawal(c, t)
    PROVE  Kept
<1> DEFINE paid == WithdrawalsOf(t, c, {"pending"})
           i == Min(paid)
<1>1. UNCHANGED <<totalDisputes, clientDeposits, unprocessed, events, accounts, deposits,
                  disputeRows, lost, crashes, round, quarter, up, _round, _quarter, pc, todo>>
  BY DEF claimWithdrawal, confirmWithdrawal, disputeVars, depositVars, clockVars, chainVars,
         boundVars, processVars
<1>2. \/ withdrawals' = withdrawals
      \/ paid # {} /\ withdrawals' = [withdrawals EXCEPT ![i].status = "confirmed"]
  BY DEF claimWithdrawal
<1>3. withdrawals \in Seq(Withdrawal)
  BY DEF OperatorTypeOK
<1>4. paid # {} => i \in DOMAIN withdrawals
  <2>1. paid \subseteq DOMAIN withdrawals /\ paid \in SUBSET Nat
    BY <1>3 DEF WithdrawalsOf
  <2> HIDE DEF paid
  <2> QED
    BY <2>1, LeastIsIn
<1> HIDE DEF paid, i
<1>5. withdrawals' \in Seq(Withdrawal) /\ DOMAIN withdrawals' = DOMAIN withdrawals
  BY <1>2, <1>3, <1>4, RowChange
<1>6. PlaceKept /\ pc' \in ProcessPlaces /\ TodoOK' /\ (pc' # "idle" => up')
  BY <1>1, <1>5 DEF PlaceKept, TodoOK, OperatorTypeOK, AtABlock
<1>7. /\ accounts' \in [Rounds -> [Tokens -> [Clients -> Account]]]
      /\ \A q \in Rounds, u \in Tokens, d \in Clients :
            accounts'[q][u][d].deposited = accounts[q][u][d].deposited
      /\ disputeRows' \in Seq(DisputeRow)
  BY <1>1 DEF OperatorTypeOK
<1> QED
  BY <1>1, <1>5, <1>6, <1>7, KeptByRows

LEMMA DisputesKeep == ASSUME OperatorTypeOK, AtABlock, processOpenDisputes PROVE Kept
<1>1. /\ pc = "moderate" /\ pc' = "dispute" /\ todo' = openDisputeRows
      /\ UNCHANGED <<up, _round, _quarter>> /\ OnlyProcess /\ up /\ unprocessed # <<>>
  BY DEF processOpenDisputes, AtABlock
<1>2. disputeRows' = disputeRows
  BY <1>1 DEF OnlyProcess, tableVars
<1>3. TodoOK' /\ PlaceKept /\ pc' \in ProcessPlaces
  BY <1>1, <1>2 DEF TodoOK, PlaceKept, ProcessPlaces, openDisputeRows, Moderating
<1> QED
  BY <1>1, <1>3, KeptByProcess DEF OperatorTypeOK

LEMMA ClosingKeeps == ASSUME OperatorTypeOK, AtABlock, requestClosing PROVE Kept
<1>1. /\ pc = "dispute" /\ up /\ unprocessed # <<>> /\ todo # {} /\ todo \subseteq DOMAIN disputeRows
      /\ \/ closeDispute(disputeRow.wallet, {}, <<>>) /\ Goto("closed")
         \/ Goto("failed") /\ UNCHANGED mediatorVars
      /\ crashes' = crashes /\ lost' = lost
      /\ OnChain
  BY DEF requestClosing, AtABlock, TxFails, boundVars, OperatorTypeOK, TodoOK
<1>2. UNCHANGED <<totalDisputes, clientDeposits, round, quarter>>
  BY <1>1 DEF closeDispute, mediatorVars, vars, clockVars, depositVars, disputeVars
<1>3. UNCHANGED <<accounts, deposits, withdrawals, disputeRows, unprocessed, events>>
  BY <1>1 DEF OnChain, chainVars, tableVars
<1>4. UNCHANGED <<up, _round, _quarter, todo>> /\ pc' \in {"closed", "failed"}
  BY <1>1 DEF Goto
<1>5. PlaceKept /\ pc' \in ProcessPlaces /\ TodoOK' /\ (pc' # "idle" => up')
  BY <1>1, <1>3, <1>4 DEF PlaceKept, TodoOK, ProcessPlaces, Moderating
<1>6. round' \in Rounds /\ quarter' \in Quarters /\ _round' \in Rounds /\ _quarter' \in Quarters
  BY <1>2, <1>4 DEF OperatorTypeOK
<1> QED
  BY <1>1, <1>2, <1>3, <1>5, <1>6, KeptByTables

LEMMA UpdateDisputeKeeps == ASSUME OperatorTypeOK, AtABlock, updateDispute PROVE Kept
<1>1. /\ pc = "closed" /\ up /\ unprocessed # <<>> /\ todo # {} /\ todo \subseteq DOMAIN disputeRows
      /\ UNCHANGED <<accounts, deposits, withdrawals, _round, _quarter, up>> /\ InDatabase
      /\ todo' \subseteq todo
      /\ \/ disputeRows' = disputeRows /\ pc' = "failed"
         \/ CloseRow(row) /\ pc' = "dispute"
  BY DEF updateDispute, AtABlock, OperatorTypeOK, TodoOK, Goto, NextItem
<1>2. row \in DOMAIN disputeRows
  BY <1>1, DisputeRowIn
<1>3. disputeRows' \in Seq(DisputeRow) /\ DOMAIN disputeRows' = DOMAIN disputeRows
  <2>1. disputeRows \in Seq(DisputeRow)
    BY DEF OperatorTypeOK
  <2>2. ASSUME CloseRow(row)
        PROVE  disputeRows' \in Seq(DisputeRow) /\ DOMAIN disputeRows' = DOMAIN disputeRows
    <3> DEFINE new == [disputeRows[row] EXCEPT !.open = FALSE]
    <3>1. disputeRows[row] \in DisputeRow
      BY <1>2, <2>1
    <3>2. new \in DisputeRow
      BY <3>1 DEF DisputeRow
    <3>3. disputeRows' = [disputeRows EXCEPT ![row] = new]
      BY <2>2 DEF CloseRow
    <3> HIDE DEF new
    <3> QED
      BY <1>2, <2>1, <3>2, <3>3
  <2> QED
    BY <1>1, <2>1, <2>2
<1>4. PlaceKept /\ pc' \in ProcessPlaces /\ TodoOK' /\ (pc' # "idle" => up')
  BY <1>1, <1>3 DEF PlaceKept, TodoOK, ProcessPlaces, Moderating
<1>5. /\ accounts' \in [Rounds -> [Tokens -> [Clients -> Account]]]
      /\ \A q \in Rounds, u \in Tokens, d \in Clients :
            accounts'[q][u][d].deposited = accounts[q][u][d].deposited
      /\ withdrawals' \in Seq(Withdrawal)
  BY <1>1 DEF OperatorTypeOK
<1> QED
  BY <1>1, <1>3, <1>4, <1>5, DatabaseKeeps, KeptByRows

LEMMA GoToRoundKeeps == ASSUME OperatorTypeOK, AtABlock, goToRound PROVE Kept
<1>1. /\ pc = "dispute" /\ pc' \in {"commit", "save"} /\ (pc' = "commit" => todo' = Tokens)
      /\ UNCHANGED <<up, _round, _quarter>> /\ OnlyProcess /\ up /\ unprocessed # <<>>
  BY DEF goToRound, AtABlock, Goto
<1>2. TodoOK' /\ PlaceKept /\ pc' \in ProcessPlaces
  BY <1>1 DEF TodoOK, PlaceKept, ProcessPlaces, Moderating
<1> QED
  BY <1>1, <1>2, KeptByProcess DEF OperatorTypeOK

LEMMA SendKeeps == ASSUME OperatorTypeOK, AtABlock, sendCommit PROVE Kept
<1>1. /\ pc = "commit" /\ pc' = "commit" /\ todo' \subseteq todo
      /\ UNCHANGED <<up, _round, _quarter>>
      /\ UNCHANGED <<mediatorVars, chainVars, tableVars, boundVars>>
  BY DEF sendCommit, NextItem
<1>2. TodoOK' /\ PlaceKept /\ pc' \in ProcessPlaces /\ (pc' # "idle" => up')
  BY <1>1 DEF TodoOK, PlaceKept, ProcessPlaces, Moderating, OperatorTypeOK, AtABlock
<1>3. round' \in Rounds /\ quarter' \in Quarters /\ _round' \in Rounds /\ _quarter' \in Quarters
  BY <1>1 DEF OperatorTypeOK, mediatorVars, vars, clockVars
<1> QED
  BY <1>1, <1>2, <1>3, KeptByTables DEF mediatorVars, vars, disputeVars, depositVars,
                                        chainVars, tableVars, boundVars

LEMMA AwaitKeeps == ASSUME OperatorTypeOK, AtABlock, awaitCommits \/ commitsDone PROVE Kept
<1>1. \E next \in {"committing", "save"} :
         Goto(next) /\ OnlyProcess /\ pc \in {"commit", "committing"}
  BY DEF awaitCommits, commitsDone
<1>2. PICK next \in {"committing", "save"} :
         Goto(next) /\ OnlyProcess /\ pc \in {"commit", "committing"}
  BY <1>1
<1>3. PlaceKept /\ up
  BY <1>2 DEF PlaceKept, Goto, AtABlock
<1> QED
  BY <1>2, <1>3, KeptByGoto DEF ProcessPlaces, Moderating

LEMMA CommitKeeps ==
    ASSUME OperatorTypeOK, AtABlock, NEW tx \in outbox, commitMined(tx)
    PROVE  Kept
<1>1. round' \in Rounds /\ quarter' \in Quarters
  BY DEF commitMined, CommitOf, commit, clockVars, OperatorTypeOK
<1> QED
  BY <1>1, KeptByChain DEF commitMined, CommitOf, commit, tableVars, processVars, boundVars,
                           disputeVars, depositVars, chainVars

LEMMA RejectionKeeps ==
    ASSUME OperatorTypeOK, AtABlock, NEW tx \in outbox, commitRejected(tx)
    PROVE  Kept
<1>1. /\ pc # "commit" /\ crashes' = crashes /\ lost' = lost
      /\ Goto(IF pc = "committing" THEN "failed" ELSE pc)
      /\ UNCHANGED <<mediatorVars, chainVars, tableVars>>
  BY DEF commitRejected, TxFails, boundVars
<1>2. /\ UNCHANGED <<up, _round, _quarter, todo>>
      /\ pc' = pc \/ (pc = "committing" /\ pc' = "failed")
  BY <1>1 DEF Goto
<1>3. TodoOK' /\ PlaceKept /\ pc' \in ProcessPlaces /\ (pc' # "idle" => up')
  BY <1>1, <1>2 DEF TodoOK, PlaceKept, ProcessPlaces, Moderating, OperatorTypeOK, AtABlock,
                    tableVars
<1>4. round' \in Rounds /\ quarter' \in Quarters /\ _round' \in Rounds /\ _quarter' \in Quarters
  BY <1>1, <1>2 DEF OperatorTypeOK, mediatorVars, vars, clockVars
<1> QED
  BY <1>1, <1>2, <1>3, <1>4, KeptByTables DEF mediatorVars, vars, disputeVars, depositVars,
                                              chainVars, tableVars

LEMMA FailureKeeps == ASSUME OperatorTypeOK, AtABlock, onFailure PROVE Kept
<1>1. /\ pc = "failed" /\ Goto("idle") /\ OnChain /\ crashes' = crashes /\ lost' = lost
      /\ updateHaltedState \/ UNCHANGED mediatorVars
  BY DEF onFailure, TxFails, boundVars
<1>2. UNCHANGED <<totalDisputes, clientDeposits, round, quarter>>
  BY <1>1 DEF updateHaltedState, mediatorVars, vars, clockVars, depositVars, disputeVars
<1>3. UNCHANGED <<accounts, deposits, withdrawals, disputeRows, unprocessed, events>>
  BY <1>1 DEF OnChain, chainVars, tableVars
<1>4. UNCHANGED <<_round, _quarter, todo>> /\ pc' = "idle"
  BY <1>1 DEF Goto
<1>5. PlaceKept /\ pc' \in ProcessPlaces /\ TodoOK'
  BY <1>1, <1>4 DEF PlaceKept, TodoOK, ProcessPlaces, Moderating
<1>6. round' \in Rounds /\ quarter' \in Quarters /\ _round' \in Rounds /\ _quarter' \in Quarters
  BY <1>2, <1>4, Zenon DEF OperatorTypeOK
<1> QED
  BY <1>1, <1>2, <1>3, <1>4, <1>5, <1>6, KeptByTables

\* An order locks what it sells, and its cancellation unlocks it.
LEMMA OrderKeeps ==
    ASSUME OperatorTypeOK, AtABlock, NEW a \in Approvals, insertOrder(a) \/ cancelOrder(a)
    PROVE  Kept
<1>1. /\ UNCHANGED <<mediatorVars, chainVars, deposits, withdrawals, disputeRows, processVars,
                     boundVars>>
      /\ a.round = _round
  BY DEF insertOrder, cancelOrder
<1>2. UNCHANGED <<totalDisputes, clientDeposits, unprocessed, events, deposits, withdrawals,
                  disputeRows, lost, crashes, round, quarter, up, _round, _quarter, pc, todo>>
  BY <1>1 DEF mediatorVars, vars, depositVars, disputeVars, clockVars, chainVars, boundVars,
              processVars
<1>3. /\ accounts \in [Rounds -> [Tokens -> [Clients -> Account]]]
      /\ a.round \in Rounds /\ a.sellAsset \in Tokens /\ a.client \in Clients
      /\ a.sellAmount \in Nat
  BY <1>1, ConstantsAssumption, OperatorAssumption DEF OperatorTypeOK, Approval
<1>4. \E r \in Rounds, t \in Tokens, c \in Clients, v \in Int : SetsLocked(r, t, c, v)
  <2> DEFINE now == accounts[a.round][a.sellAsset][a.client].locked
             more == now + a.sellAmount
             less == now - a.sellAmount
  <2>1. more \in Int /\ less \in Int
    BY <1>3 DEF Account
  <2>2. \/ SetsLocked(a.round, a.sellAsset, a.client, more)
        \/ SetsLocked(a.round, a.sellAsset, a.client, less)
    BY DEF insertOrder, cancelOrder, SetsLocked
  <2> HIDE DEF more, less
  <2> QED
    BY <1>3, <2>1, <2>2, Zenon
<1>5. /\ accounts' \in [Rounds -> [Tokens -> [Clients -> Account]]]
      /\ \A r \in Rounds, t \in Tokens, c \in Clients :
            accounts'[r][t][c].deposited = accounts[r][t][c].deposited
  BY <1>3, <1>4, AccountsKept
<1>6. PlaceKept /\ pc' \in ProcessPlaces /\ TodoOK' /\ (pc' # "idle" => up')
  BY <1>2 DEF PlaceKept, TodoOK, OperatorTypeOK, AtABlock
<1>7. withdrawals' \in Seq(Withdrawal) /\ disputeRows' \in Seq(DisputeRow)
  BY <1>2 DEF OperatorTypeOK
<1> QED
  BY <1>2, <1>5, <1>6, <1>7, KeptByRows

\* What the events of the three types hold.
LEMMA EventFields ==
    ASSUME NEW e \in Event
    PROVE  /\ e.type \in {"none", "deposit", "withdrawal", "dispute"}
           /\ e.type \in {"deposit", "withdrawal"} =>
                 /\ e.id \in Nat /\ e.asset \in Tokens /\ e.wallet \in Clients
                 /\ e.amount \in Nat
           /\ e.type = "dispute" => e.id \in Nat /\ e.wallet \in Clients
<1>1. CASE e \in [type : {"none"}]
  BY <1>1
<1>2. CASE e \in [type : {"deposit", "withdrawal"}, id : Nat, asset : Tokens,
                  wallet : Clients, amount : Nat]
  BY <1>2
<1>3. CASE e \in [type : {"dispute"}, id : Nat, wallet : Clients]
  BY <1>3
<1> QED
  BY <1>1, <1>2, <1>3 DEF Event

\* The places after those that handle the event of the block.
LEMMA KeptAtQuarter ==
    ASSUME OperatorTypeOK, AtABlock, pc = "event", Goto("quarter"),
           ~IsDeposit(1) \/ block.event.id \in deposits
    PROVE  /\ PlaceKept /\ pc' \in ProcessPlaces /\ TodoOK' /\ (pc' # "idle" => up')
           /\ UNCHANGED <<_round, _quarter>>
BY DEF PlaceKept, ProcessPlaces, TodoOK, Goto, AtABlock, Moderating

LEMMA WithdrawalEventKeeps ==
    ASSUME OperatorTypeOK, AtABlock, onInitiateWithdrawal PROVE Kept
<1> DEFINE e == block.event
           new == [id |-> e.id, round |-> block.round, asset |-> e.asset,
                   wallet |-> e.wallet, amount |-> e.amount, status |-> "unchecked"]
<1>1. /\ pc = "event" /\ e.type = "withdrawal" /\ Goto("quarter") /\ InDatabase
      /\ UNCHANGED <<accounts, deposits, disputeRows>>
      /\ withdrawals' = withdrawals \/ withdrawals' = Append(withdrawals, new)
  BY DEF onInitiateWithdrawal
<1>2. unprocessed # <<>> /\ e \in Event /\ block.round \in Rounds /\ block = unprocessed[1]
  BY <1>1, BlockIn DEF AtABlock
<1>3. ~IsDeposit(1)
  BY <1>1, <1>2 DEF IsDeposit
<1>4. new \in Withdrawal
  <2>1. e.id \in Nat /\ e.asset \in Tokens /\ e.wallet \in Clients /\ e.amount \in Nat
    BY <1>1, <1>2, EventFields
  <2> QED
    BY <1>2, <2>1 DEF Withdrawal
<1> HIDE DEF new, e
<1>5. /\ accounts' \in [Rounds -> [Tokens -> [Clients -> Account]]]
      /\ \A r \in Rounds, t \in Tokens, c \in Clients :
            accounts'[r][t][c].deposited = accounts[r][t][c].deposited
      /\ disputeRows' \in Seq(DisputeRow)
  BY <1>1 DEF OperatorTypeOK
<1>6. withdrawals' \in Seq(Withdrawal)
  <2>1. withdrawals \in Seq(Withdrawal)
    BY DEF OperatorTypeOK
  <2>2. Append(withdrawals, new) \in Seq(Withdrawal)
    BY <1>4, <2>1, AppendProperties
  <2> QED
    BY <1>1, <2>1, <2>2, Zenon
<1>7. /\ PlaceKept /\ pc' \in ProcessPlaces /\ TodoOK' /\ (pc' # "idle" => up')
      /\ UNCHANGED <<_round, _quarter>>
  BY <1>1, <1>3, KeptAtQuarter
<1> QED
  BY <1>1, <1>5, <1>6, <1>7, DatabaseKeeps, KeptByRows

LEMMA DisputeEventKeeps ==
    ASSUME OperatorTypeOK, AtABlock, onOpenDispute PROVE Kept
<1> DEFINE e == block.event
           new == [round |-> block.round, wallet |-> e.wallet, open |-> TRUE]
<1>1. /\ pc = "event" /\ e.type = "dispute" /\ Goto("quarter") /\ InDatabase
      /\ UNCHANGED <<accounts, deposits, withdrawals>>
      /\ disputeRows' = disputeRows \/ disputeRows' = Append(disputeRows, new)
  BY DEF onOpenDispute
<1>2. unprocessed # <<>> /\ e \in Event /\ block.round \in Rounds /\ block = unprocessed[1]
  BY <1>1, BlockIn DEF AtABlock
<1>3. ~IsDeposit(1)
  BY <1>1, <1>2 DEF IsDeposit
<1>4. new \in DisputeRow
  <2>1. e.wallet \in Clients
    BY <1>1, <1>2, EventFields
  <2> QED
    BY <1>2, <2>1 DEF DisputeRow
<1> HIDE DEF new, e
<1>5. /\ accounts' \in [Rounds -> [Tokens -> [Clients -> Account]]]
      /\ \A r \in Rounds, t \in Tokens, c \in Clients :
            accounts'[r][t][c].deposited = accounts[r][t][c].deposited
      /\ withdrawals' \in Seq(Withdrawal)
  BY <1>1 DEF OperatorTypeOK
<1>6. disputeRows' \in Seq(DisputeRow)
  <2>1. disputeRows \in Seq(DisputeRow)
    BY DEF OperatorTypeOK
  <2>2. Append(disputeRows, new) \in Seq(DisputeRow)
    BY <1>4, <2>1, AppendProperties
  <2> QED
    BY <1>1, <2>1, <2>2, Zenon
<1>7. /\ PlaceKept /\ pc' \in ProcessPlaces /\ TodoOK' /\ (pc' # "idle" => up')
      /\ UNCHANGED <<_round, _quarter>>
  BY <1>1, <1>3, KeptAtQuarter
<1> QED
  BY <1>1, <1>5, <1>6, <1>7, DatabaseKeeps, KeptByRows

\* An event that is processed again credits nothing.
LEMMA OldDepositKeeps ==
    ASSUME OperatorTypeOK, AtABlock, onDeposit, ~depositIsNew(block.event)
    PROVE  Kept
<1>1. /\ pc = "event" /\ Goto("quarter") /\ InDatabase
      /\ UNCHANGED <<accounts, deposits, withdrawals, disputeRows>>
  BY DEF onDeposit
<1>2. block.event.id \in deposits
  BY DEF depositIsNew
<1>3. /\ PlaceKept /\ pc' \in ProcessPlaces /\ TodoOK' /\ (pc' # "idle" => up')
      /\ UNCHANGED <<_round, _quarter>>
  BY <1>1, <1>2, KeptAtQuarter
<1>4. /\ accounts' \in [Rounds -> [Tokens -> [Clients -> Account]]]
      /\ \A r \in Rounds, t \in Tokens, c \in Clients :
            accounts'[r][t][c].deposited = accounts[r][t][c].deposited
      /\ withdrawals' \in Seq(Withdrawal) /\ disputeRows' \in Seq(DisputeRow)
  BY <1>1 DEF OperatorTypeOK
<1> QED
  BY <1>1, <1>3, <1>4, DatabaseKeeps, KeptByRows
-----------------------------------------------------------------------------
(* The deposits. *)

LEMMA UncreditedOK ==
    ASSUME OperatorTypeOK, NEW t, NEW c, NEW r
    PROVE  /\ Uncredited(t, c, r) \subseteq DepositBlocks(t, c, r)
           /\ DepositBlocks(t, c, r) \subseteq DOMAIN unprocessed
           /\ IsFiniteSet(DepositBlocks(t, c, r)) /\ IsFiniteSet(Uncredited(t, c, r))
           /\ \A i \in DepositBlocks(t, c, r) : AmountOfBlock[i] \in Nat
           /\ NotCredited(t, c, r) \in Nat
<1>1. /\ Uncredited(t, c, r) \subseteq DepositBlocks(t, c, r)
      /\ DepositBlocks(t, c, r) \subseteq DOMAIN unprocessed
  BY DEF Uncredited, DepositBlocks
<1>2. unprocessed \in Seq(Block)
  BY DEF OperatorTypeOK
<1>3. IsFiniteSet(DOMAIN unprocessed)
  <2>1. DOMAIN unprocessed = 1..Len(unprocessed) /\ Len(unprocessed) \in Int
    BY <1>2
  <2> QED
    BY <2>1, FS_Interval
<1>4. IsFiniteSet(DepositBlocks(t, c, r)) /\ IsFiniteSet(Uncredited(t, c, r))
  BY <1>1, <1>3, FS_Subset
<1>5. ASSUME NEW i \in DepositBlocks(t, c, r)
      PROVE  AmountOfBlock[i] \in Nat
  <2>1. unprocessed[i].event \in Event
    <3>1. i \in DOMAIN unprocessed
      BY <1>1
    <3>2. unprocessed[i] \in Block
      BY <1>2, <3>1
    <3> QED
      BY <3>2 DEF Block
  <2>2. unprocessed[i].event.type = "deposit"
    BY DEF DepositBlocks
  <2>3. unprocessed[i].event.amount \in Nat
    BY <2>1, <2>2, EventFields
  <2>4. AmountOfBlock[i] = unprocessed[i].event.amount
    BY <1>1, <2>2 DEF AmountOfBlock
  <2> QED
    BY <2>3, <2>4
<1>6. \A i \in Uncredited(t, c, r) : AmountOfBlock[i] \in Nat
  BY <1>1, <1>5
<1>7. NotCredited(t, c, r) \in Nat
  BY <1>4, <1>6, SumNat DEF NotCredited
<1> QED
  BY <1>1, <1>4, <1>5, <1>7

LEMMA BooksOK ==
    ASSUME OperatorTypeOK, NEW r \in Rounds, NEW t \in Tokens, NEW c \in Clients
    PROVE  accounts[r][t][c].deposited \in Nat /\ clientDeposits[r][t][c] \in Nat
<1>1. accounts[r][t][c] \in Account /\ clientDeposits[r][t][c] \in Nat
  BY DEF OperatorTypeOK
<1> QED
  BY <1>1 DEF Account

\* The quiet steps leave the deposits, the blocks and the process where they are, as
\* far as the invariant looks.
LEMMA KeptPreserves == ASSUME OperatorTypeOK, DepositsInv, Kept PROVE DepositsInv'
<1>1. /\ UNCHANGED <<clientDeposits, unprocessed, events, deposits, lost, crashes>>
      /\ \A r \in Rounds, t \in Tokens, c \in Clients :
            accounts'[r][t][c].deposited = accounts[r][t][c].deposited
      /\ PlaceKept /\ (pc' # "idle" => up')
  BY DEF Kept, DepositsKept
<1>2. DepositIds'
  BY <1>1 DEF DepositsInv, DepositIds, IsDeposit
<1>3. AtABlock'
  BY <1>1 DEF DepositsInv, AtABlock, PlaceKept, IsDeposit, block
<1>4. \A t, c, r : NotCredited(t, c, r)' = NotCredited(t, c, r)
  <2>1. pc' = "recordDeposit" <=> pc = "recordDeposit"
    BY <1>1 DEF PlaceKept
  <2>2. \A t, c, r : Uncredited(t, c, r)' = Uncredited(t, c, r)
    BY <1>1, <2>1 DEF Uncredited, DepositBlocks
  <2>3. AmountOfBlock' = AmountOfBlock
    BY <1>1 DEF AmountOfBlock
  <2> QED
    BY <2>2, <2>3 DEF NotCredited
<1>5. DepositsCovered'
  <2>1. DepositsCovered
    BY DEF DepositsInv
  <2> QED
    BY <1>1, <1>4, <2>1 DEF DepositsCovered
<1> QED
  BY <1>2, <1>3, <1>5 DEF DepositsInv

\* A block that is mined adds its deposit to those that the ledger has to credit.
LEMMA MineCounts ==
    ASSUME OperatorTypeOK, AtABlock, NEW event \in Event, Mine(event),
           UNCHANGED <<deposits, pc>>,
           event.type = "deposit" => event.id \notin deposits,
           NEW t, NEW c, NEW r
    PROVE  NotCredited(t, c, r)' = NotCredited(t, c, r) +
              IF event.type = "deposit" /\ event.asset = t /\ event.wallet = c /\ round = r
              THEN event.amount ELSE 0
<1> DEFINE n == Len(unprocessed) + 1
           A == AmountOfBlock
           U == Uncredited(t, c, r)
           A1 == A'
           U1 == U'
           matches == event.type = "deposit" /\ event.asset = t /\ event.wallet = c /\ round = r
<1>0. /\ unprocessed \in Seq(Block) /\ unprocessed' \in Seq(Block)
      /\ Len(unprocessed') = n /\ unprocessed'[n].event = event
      /\ unprocessed'[n].round = round /\ n \in Nat /\ n > 0
      /\ \A i \in DOMAIN unprocessed : unprocessed'[i] = unprocessed[i]
  BY MineType DEF OperatorTypeOK
<1>1. DOMAIN unprocessed' = DOMAIN unprocessed \cup {n} /\ n \notin DOMAIN unprocessed
  BY <1>0
<1>2. n = 1 => pc # "recordDeposit"
  BY <1>0 DEF AtABlock
<1>3. U1 = IF matches THEN U \cup {n} ELSE U
  <2>1. \A i \in DOMAIN unprocessed : i \in U1 <=> i \in U
    BY <1>0, <1>1 DEF Uncredited, DepositBlocks
  <2>2. n \in U1 <=> matches
    BY <1>0, <1>1, <1>2 DEF Uncredited, DepositBlocks
  <2>3. U \subseteq DOMAIN unprocessed /\ U1 \subseteq DOMAIN unprocessed'
    BY DEF Uncredited, DepositBlocks
  <2> HIDE DEF U, U1, n, matches
  <2> QED
    BY <1>1, <2>1, <2>2, <2>3
<1>4. \A i \in U : A1[i] = A[i] /\ A[i] \in Int
  <2>1. \A i \in DOMAIN unprocessed : A1[i] = A[i]
    BY <1>0, <1>1 DEF AmountOfBlock
  <2>2. \A i \in U : A[i] \in Nat /\ i \in DOMAIN unprocessed
    BY UncreditedOK
  <2> HIDE DEF U, A, A1
  <2> QED
    BY <2>1, <2>2
<1>5. IsFiniteSet(U) /\ n \notin U
  BY <1>1, UncreditedOK
<1>6. matches => A1[n] = event.amount /\ event.amount \in Int
  <2>1. matches => event.amount \in Nat
    BY EventFields
  <2>2. matches => A1[n] = event.amount
    BY <1>0, <1>1 DEF AmountOfBlock
  <2> QED
    BY <2>1, <2>2
<1>7. NotCredited(t, c, r) = SumFunctionOnSet(A, U)
  BY DEF NotCredited
<1>8. NotCredited(t, c, r)' = SumFunctionOnSet(A1, U1)
  BY DEF NotCredited
<1>9. NotCredited(t, c, r) \in Int
  BY UncreditedOK
<1> HIDE DEF A, A1, U, U1, n
<1>10. SumFunctionOnSet(A1, U) = SumFunctionOnSet(A, U)
  BY <1>4, <1>5, SumEqual
<1>11. CASE matches
  <2> DEFINE W == U \cup {n}
  <2>1. /\ IsFiniteSet(W) /\ n \in W /\ W \ {n} = U
        /\ \A i \in W : A1[i] \in Int
    BY <1>4, <1>5, <1>6, <1>11, FS_AddElement
  <2> HIDE DEF W
  <2>2. SumFunctionOnSet(A1, W) = A1[n] + SumFunctionOnSet(A1, W \ {n})
    BY <2>1, SumTakeOut
  <2>3. U1 = W
    BY <1>3, <1>11 DEF W
  <2>4. SumFunctionOnSet(A1, U1) = event.amount + SumFunctionOnSet(A, U)
    BY <1>6, <1>10, <1>11, <2>1, <2>2, <2>3
  <2>5. NotCredited(t, c, r)' = event.amount + NotCredited(t, c, r)
    BY <1>7, <1>8, <2>4
  <2> QED
    BY <1>6, <1>9, <1>11, <2>5
<1>12. CASE ~matches
  BY <1>3, <1>7, <1>8, <1>9, <1>10, <1>12
<1> QED
  BY <1>11, <1>12

\* A block is mined, with a deposit that has a new id or with another event.
LEMMA MinePreserves ==
    ASSUME OperatorTypeOK, DepositsInv, NEW event \in Event, Mine(event),
           UNCHANGED <<accounts, deposits, withdrawals, disputeRows, lost, crashes, processVars,
                       round, quarter>>,
           events' \in Nat, events' >= events, totalDisputes' \in Nat,
           clientDeposits' \in [Rounds -> [Tokens -> [Clients -> Nat]]],
           event.type = "deposit" => event.id = events + 1 /\ events' = events + 1,
           \A r \in Rounds, t \in Tokens, c \in Clients :
              clientDeposits'[r][t][c] = clientDeposits[r][t][c] +
                 IF event.type = "deposit" /\ event.asset = t /\ event.wallet = c /\ round = r
                 THEN event.amount ELSE 0
    PROVE  OperatorTypeOK' /\ DepositsInv'
<1>0. PICK n \in Nat : n = Len(unprocessed) + 1
  BY DEF OperatorTypeOK
<1>1. /\ unprocessed \in Seq(Block) /\ unprocessed' \in Seq(Block)
      /\ Len(unprocessed') = n /\ unprocessed'[n].event = event
      /\ \A i \in DOMAIN unprocessed : unprocessed'[i] = unprocessed[i]
  BY <1>0, MineType DEF OperatorTypeOK
<1>2. DOMAIN unprocessed' = DOMAIN unprocessed \cup {n} /\ n \notin DOMAIN unprocessed
      /\ unprocessed' # <<>>
  BY <1>0, <1>1
<1>3. OperatorTypeOK'
  <2>1. TodoOK'
    BY DEF OperatorTypeOK, TodoOK, processVars
  <2> QED
    BY <1>1, <2>1 DEF OperatorTypeOK, processVars
<1>4. deposits' = deposits /\ events \in Nat /\ deposits \subseteq 1..events
  BY DEF DepositsInv, DepositIds, OperatorTypeOK
<1>5. DepositIds'
  <2>1. \A i \in DOMAIN unprocessed : /\ IsDeposit(i)' <=> IsDeposit(i)
                                      /\ unprocessed'[i].event.id = unprocessed[i].event.id
    BY <1>1 DEF IsDeposit
  <2>2. IsDeposit(n)' => unprocessed'[n].event.id = events + 1 /\ events' = events + 1
    BY <1>1 DEF IsDeposit
  <2>3. \A i \in DOMAIN unprocessed : IsDeposit(i) => unprocessed[i].event.id \in 1..events
    BY DEF DepositsInv, DepositIds
  <2>4. deposits' \subseteq 1..events'
    BY <1>4
  <2>5. ASSUME NEW i \in DOMAIN unprocessed', IsDeposit(i)'
        PROVE  unprocessed'[i].event.id \in 1..events'
    BY <1>2, <1>4, <2>1, <2>2, <2>3, <2>5
  <2>6. ASSUME NEW i \in DOMAIN unprocessed', NEW j \in DOMAIN unprocessed',
               IsDeposit(i)', IsDeposit(j)',
               unprocessed'[i].event.id = unprocessed'[j].event.id
        PROVE  i = j
    <3>1. CASE i = n /\ j \in DOMAIN unprocessed
      BY <1>4, <2>1, <2>2, <2>3, <2>6, <3>1
    <3>2. CASE j = n /\ i \in DOMAIN unprocessed
      BY <1>4, <2>1, <2>2, <2>3, <2>6, <3>2
    <3>3. CASE i \in DOMAIN unprocessed /\ j \in DOMAIN unprocessed
      BY <2>1, <2>6, <3>3 DEF DepositsInv, DepositIds
    <3> QED
      BY <1>2, <3>1, <3>2, <3>3
  <2> QED
    BY <2>4, <2>5, <2>6 DEF DepositIds
<1>6. AtABlock'
  <2>1. up' = up /\ pc' = pc /\ lost' = lost
    BY DEF processVars
  <2>2. unprocessed # <<>> => unprocessed'[1] = unprocessed[1] /\ block' = block
    BY <1>1 DEF block
  <2> QED
    BY <1>2, <1>4, <2>1, <2>2 DEF DepositsInv, AtABlock, IsDeposit
<1>7. DepositsCovered'
  <2> SUFFICES ASSUME lost = 0, NEW r \in Rounds, NEW t \in Tokens, NEW c \in Clients
               PROVE  LET sum == accounts'[r][t][c].deposited + NotCredited(t, c, r)'
                      IN /\ sum >= clientDeposits'[r][t][c]
                         /\ crashes' = 0 => sum = clientDeposits'[r][t][c]
    BY DEF DepositsCovered
  <2> DEFINE matches == event.type = "deposit" /\ event.asset = t /\ event.wallet = c /\ round = r
             more == IF matches THEN event.amount ELSE 0
             had == accounts[r][t][c].deposited
             owes == NotCredited(t, c, r)
             got == clientDeposits[r][t][c]
  <2>1. event.type = "deposit" => event.id \notin deposits
    BY <1>4
  <2>2. UNCHANGED <<deposits, pc>> /\ AtABlock
    BY DEF processVars, DepositsInv
  <2>3. NotCredited(t, c, r)' = owes + more
    BY <2>1, <2>2, MineCounts
  <2>4. clientDeposits'[r][t][c] = got + more
    OBVIOUS
  <2>5. accounts'[r][t][c].deposited = had
    OBVIOUS
  <2>6. had \in Int /\ owes \in Int /\ got \in Int
    BY BooksOK, UncreditedOK
  <2>7. more \in Int
    BY EventFields
  <2>8. had + owes >= got /\ (crashes = 0 => had + owes = got)
    BY DEF DepositsInv, DepositsCovered
  <2>9. crashes' = crashes
    OBVIOUS
  <2> HIDE DEF more, had, owes, got
  <2> QED
    BY <2>3, <2>4, <2>5, <2>6, <2>7, <2>8, <2>9
<1> QED
  BY <1>3, <1>5, <1>6, <1>7 DEF DepositsInv

LEMMA DepositPreserves ==
    ASSUME OperatorTypeOK, DepositsInv, NEW c \in Clients, NEW t \in Tokens,
           NEW amount \in Nat, deposit(c, t, amount)
    PROVE  OperatorTypeOK' /\ DepositsInv'
<1> DEFINE event == [type |-> "deposit", id |-> events + 1, asset |-> t, wallet |-> c,
                     amount |-> amount]
<1>1. depositTokens(c, t, amount) /\ ClientTransaction(event)
  BY DEF deposit
<1>2. /\ event \in Event /\ event.type = "deposit" /\ event.id = events + 1
      /\ event.asset = t /\ event.wallet = c /\ event.amount = amount
  <2>1. events + 1 \in Nat
    BY DEF OperatorTypeOK
  <2> QED
    BY <2>1 DEF Event
<1> HIDE DEF event
<1>3. Mine(event) /\ events' = events + 1 /\ events' \in Nat /\ events' >= events
  BY <1>1 DEF ClientTransaction, OperatorTypeOK
<1>4. UNCHANGED <<accounts, deposits, withdrawals, disputeRows, lost, crashes, processVars,
                  round, quarter, totalDisputes>>
  BY <1>1 DEF ClientTransaction, tableVars, boundVars, depositTokens, clockVars, disputeVars
<1>5. round \in Rounds /\ clientDeposits \in [Rounds -> [Tokens -> [Clients -> Nat]]]
      /\ totalDisputes \in Nat
  BY DEF OperatorTypeOK
<1>6. clientDeposits' = [clientDeposits EXCEPT ![round][t][c] = @ + amount]
  BY <1>1 DEF depositTokens
<1>7. clientDeposits' \in [Rounds -> [Tokens -> [Clients -> Nat]]]
  BY <1>5, <1>6
<1>8. ASSUME NEW q \in Rounds, NEW u \in Tokens, NEW d \in Clients
      PROVE  clientDeposits'[q][u][d] = clientDeposits[q][u][d] +
                 IF event.type = "deposit" /\ event.asset = u /\ event.wallet = d /\ round = q
                 THEN event.amount ELSE 0
  BY <1>2, <1>5, <1>6
<1> QED
  BY <1>2, <1>3, <1>4, <1>5, <1>7, <1>8, MinePreserves

\* The other blocks hold no deposit.
LEMMA OtherBlockPreserves ==
    ASSUME OperatorTypeOK, DepositsInv, NEW event \in Event, event.type # "deposit",
           Mine(event),
           UNCHANGED <<clientDeposits, accounts, deposits, withdrawals, disputeRows, lost,
                       crashes, processVars, round, quarter>>,
           events' \in Nat, events' >= events, totalDisputes' \in Nat
    PROVE  OperatorTypeOK' /\ DepositsInv'
<1>1. clientDeposits' \in [Rounds -> [Tokens -> [Clients -> Nat]]]
  BY DEF OperatorTypeOK
<1>2. ASSUME NEW q \in Rounds, NEW u \in Tokens, NEW d \in Clients
      PROVE  clientDeposits'[q][u][d] = clientDeposits[q][u][d] +
                 IF event.type = "deposit" /\ event.asset = u /\ event.wallet = d /\ round = q
                 THEN event.amount ELSE 0
  BY BooksOK
<1> QED
  BY <1>1, <1>2, MinePreserves

LEMMA EmptyBlockPreserves ==
    ASSUME OperatorTypeOK, DepositsInv, MineEmptyBlock PROVE OperatorTypeOK' /\ DepositsInv'
<1> DEFINE event == [type |-> "none"]
<1>1. event \in Event /\ event.type # "deposit"
  BY DEF Event
<1>2. Mine(event) /\ UNCHANGED <<mediatorVars, events, tableVars, processVars, boundVars>>
  BY DEF MineEmptyBlock
<1>3. UNCHANGED <<clientDeposits, accounts, deposits, withdrawals, disputeRows, lost,
                  crashes, processVars, round, quarter, events, totalDisputes>>
  BY <1>2 DEF mediatorVars, vars, depositVars, disputeVars, clockVars, tableVars, boundVars
<1>4. events' \in Nat /\ events' >= events /\ totalDisputes' \in Nat
  BY <1>3 DEF OperatorTypeOK
<1> HIDE DEF event
<1> QED
  BY <1>1, <1>2, <1>3, <1>4, OtherBlockPreserves

LEMMA RequestPreserves ==
    ASSUME OperatorTypeOK, DepositsInv, NEW c \in Clients, NEW t \in Tokens,
           NEW amount \in Nat, requestWithdrawal(c, t, amount)
    PROVE  OperatorTypeOK' /\ DepositsInv'
<1> DEFINE event == [type |-> "withdrawal", id |-> events + 1, asset |-> t, wallet |-> c,
                     amount |-> amount]
<1>1. initiateWithdrawal(c, t, amount) /\ ClientTransaction(event)
  BY DEF requestWithdrawal
<1>2. event \in Event /\ event.type # "deposit"
  <2>1. events + 1 \in Nat
    BY DEF OperatorTypeOK
  <2> QED
    BY <2>1 DEF Event
<1> HIDE DEF event
<1>3. Mine(event) /\ events' = events + 1 /\ events' \in Nat /\ events' >= events
  BY <1>1 DEF ClientTransaction, OperatorTypeOK
<1>4. UNCHANGED <<clientDeposits, accounts, deposits, withdrawals, disputeRows, lost,
                  crashes, processVars, round, quarter, totalDisputes>>
  BY <1>1 DEF ClientTransaction, tableVars, boundVars, initiateWithdrawal, clockVars,
              disputeVars, depositVars
<1>5. totalDisputes' \in Nat
  BY <1>4 DEF OperatorTypeOK
<1> QED
  BY <1>2, <1>3, <1>4, <1>5, OtherBlockPreserves

LEMMA DisputePreserves ==
    ASSUME OperatorTypeOK, DepositsInv, NEW c \in Clients, NEW byProof \in BOOLEAN,
           dispute(c, byProof)
    PROVE  OperatorTypeOK' /\ DepositsInv'
<1> DEFINE event == [type |-> "dispute", id |-> totalDisputes', wallet |-> c]
<1>1. openDispute(c, {}, byProof) /\ ClientTransaction(event)
  BY DEF dispute
<1>2. totalDisputes' \in Nat
  BY <1>1 DEF openDispute, OperatorTypeOK
<1>3. event \in Event /\ event.type # "deposit"
  BY <1>2 DEF Event
<1>4. Mine(event) /\ events' = events + 1 /\ events' \in Nat /\ events' >= events
  BY <1>1 DEF ClientTransaction, OperatorTypeOK
<1>5. UNCHANGED <<clientDeposits, accounts, deposits, withdrawals, disputeRows, lost,
                  crashes, processVars, round, quarter>>
  BY <1>1 DEF ClientTransaction, tableVars, boundVars, openDispute, clockVars, depositVars
<1> HIDE DEF event
<1> QED
  BY <1>2, <1>3, <1>4, <1>5, OtherBlockPreserves

\* The block that the process is in holds the deposit that it handles.
LEMMA OwnBlock ==
    ASSUME OperatorTypeOK, unprocessed # <<>>, IsDeposit(1)
    PROVE  LET e == block.event
           IN /\ block = unprocessed[1] /\ 1 \in DOMAIN unprocessed /\ e.type = "deposit"
              /\ block.round \in Rounds /\ e.asset \in Tokens /\ e.wallet \in Clients
              /\ e.amount \in Nat /\ AmountOfBlock[1] = e.amount
              /\ \A t, c, r : 1 \in DepositBlocks(t, c, r) <=>
                                 r = block.round /\ t = e.asset /\ c = e.wallet
<1>1. /\ block = unprocessed[1] /\ 1 \in DOMAIN unprocessed /\ block.event \in Event
      /\ block.round \in Rounds
  BY BlockIn
<1>2. block.event.type = "deposit"
  BY <1>1 DEF IsDeposit
<1>3. /\ block.event.asset \in Tokens /\ block.event.wallet \in Clients
      /\ block.event.amount \in Nat
  BY <1>1, <1>2, EventFields
<1>4. AmountOfBlock[1] = block.event.amount
  BY <1>1, <1>2, Zenon DEF AmountOfBlock
<1>5. \A t, c, r : 1 \in DepositBlocks(t, c, r) <=>
                      r = block.round /\ t = block.event.asset /\ c = block.event.wallet
  BY <1>1, <1>2, Zenon DEF DepositBlocks
<1> QED
  BY <1>1, <1>2, <1>3, <1>4, <1>5

\* The ledger credits the deposit of the block: what it has still to credit is less
\* by as much.
LEMMA CreditPreserves ==
    ASSUME OperatorTypeOK, DepositsInv, onDeposit, depositIsNew(block.event)
    PROVE  OperatorTypeOK' /\ DepositsInv'
<1> DEFINE e == block.event
           R == block.round
<1>1. /\ pc = "event" /\ e.type = "deposit" /\ pc' = "recordDeposit" /\ up' = up
      /\ UNCHANGED <<_round, _quarter, todo, deposits, withdrawals, disputeRows>> /\ InDatabase
      /\ e.id \notin deposits
      /\ Credits(R, e.asset, e.wallet, e.amount)
  BY DEF onDeposit, depositIsNew, creditedRound, Goto, Credits
<1>2. UNCHANGED <<totalDisputes, clientDeposits, unprocessed, events, lost, crashes, round,
                  quarter>>
  BY <1>1, DatabaseKeeps
<1>3. unprocessed # <<>> /\ up /\ IsDeposit(1)
  <2>1. unprocessed # <<>> /\ up
    BY <1>1 DEF DepositsInv, AtABlock
  <2> QED
    BY <1>1, <2>1, BlockIn DEF IsDeposit
<1>4. /\ block = unprocessed[1] /\ 1 \in DOMAIN unprocessed
      /\ R \in Rounds /\ e.asset \in Tokens /\ e.wallet \in Clients
      /\ e.amount \in Nat /\ AmountOfBlock[1] = e.amount
      /\ \A t, c, r : 1 \in DepositBlocks(t, c, r) <=>
                         r = R /\ t = e.asset /\ c = e.wallet
  BY <1>3, OwnBlock
<1>5. accounts \in [Rounds -> [Tokens -> [Clients -> Account]]]
  BY DEF OperatorTypeOK
<1> HIDE DEF e, R
<1>6. /\ accounts' \in [Rounds -> [Tokens -> [Clients -> Account]]]
      /\ accounts'[R][e.asset][e.wallet].deposited =
            accounts[R][e.asset][e.wallet].deposited + e.amount
      /\ \A q \in Rounds, u \in Tokens, d \in Clients :
            <<q, u, d>> # <<R, e.asset, e.wallet>> => accounts'[q][u][d] = accounts[q][u][d]
  BY <1>1, <1>4, <1>5, AccountCredited
<1>7. OperatorTypeOK'
  <2>1. TodoOK' /\ pc' \in ProcessPlaces
    BY <1>1 DEF TodoOK, ProcessPlaces, Moderating
  <2> QED
    BY <1>1, <1>2, <1>6, <2>1 DEF OperatorTypeOK
<1>8. DepositIds'
  BY <1>1, <1>2 DEF DepositsInv, DepositIds, IsDeposit
<1>9. AtABlock'
  BY <1>1, <1>2, <1>3 DEF AtABlock, IsDeposit
<1>10. DepositsCovered'
  <2> SUFFICES ASSUME lost = 0, NEW r \in Rounds, NEW t \in Tokens, NEW c \in Clients
               PROVE  LET sum == accounts'[r][t][c].deposited + NotCredited(t, c, r)'
                      IN /\ sum >= clientDeposits[r][t][c]
                         /\ crashes = 0 => sum = clientDeposits[r][t][c]
    BY <1>2 DEF DepositsCovered
  <2> DEFINE A == AmountOfBlock
             U == Uncredited(t, c, r)
             matches == r = R /\ t = e.asset /\ c = e.wallet
             had == accounts[r][t][c].deposited
             owes == NotCredited(t, c, r)
             got == clientDeposits[r][t][c]
             has == accounts'[r][t][c].deposited
             left == NotCredited(t, c, r)'
  <2>1. had \in Int /\ owes \in Int /\ got \in Int
    BY BooksOK, UncreditedOK
  <2>2. had + owes >= got /\ (crashes = 0 => had + owes = got)
    BY DEF DepositsInv, DepositsCovered
  <2>3. Uncredited(t, c, r)' = U \ {1}
    BY <1>1, <1>2 DEF Uncredited, DepositBlocks
  <2>4. 1 \in U <=> matches
    <3>1. unprocessed[1].event.id \notin deposits
      BY <1>1, <1>4 DEF e
    <3> QED
      BY <1>1, <1>4, <3>1 DEF Uncredited
  <2>5. left = SumFunctionOnSet(A, U \ {1}) /\ owes = SumFunctionOnSet(A, U)
    BY <1>2, <2>3 DEF NotCredited, AmountOfBlock
  <2>6. IsFiniteSet(U) /\ \A i \in U : A[i] \in Int
    <3>1. IsFiniteSet(U) /\ \A i \in U : A[i] \in Nat
      BY UncreditedOK
    <3> HIDE DEF A, U
    <3> QED
      BY <3>1
  <2>7. A[1] = e.amount /\ e.amount \in Int
    BY <1>4
  <2> HIDE DEF A, U
  <2>8. CASE matches
    <3>1. 1 \in U
      BY <2>4, <2>8
    <3>2. owes = e.amount + left
      BY <2>5, <2>6, <2>7, <3>1, SumTakeOut
    <3>3. has = had + e.amount
      BY <1>6, <2>8
    <3>4. left \in Int
      <4>1. IsFiniteSet(U \ {1}) /\ \A i \in U \ {1} : A[i] \in Int
        BY <2>6, FS_RemoveElement
      <4> QED
        BY <2>5, <4>1, SumInt
    <3> HIDE DEF had, owes, got, has, left
    <3>5. has + left = had + owes
      BY <2>1, <2>7, <3>2, <3>3, <3>4
    <3> QED
      BY <2>2, <3>5 DEF had, owes, got, has, left
  <2>9. CASE ~matches
    <3>1. U \ {1} = U
      BY <2>4, <2>9
    <3>2. left = owes
      BY <2>5, <3>1
    <3>3. has = had
      BY <1>6, <2>9
    <3> QED
      BY <2>2, <3>2, <3>3
  <2> QED
    BY <2>8, <2>9
<1> QED
  BY <1>7, <1>8, <1>9, <1>10, Zenon DEF DepositsInv

\* The deposit that was just credited is recorded.
LEMMA RecordPreserves ==
    ASSUME OperatorTypeOK, DepositsInv, saveDepositRecord
    PROVE  OperatorTypeOK' /\ DepositsInv'
<1>1. /\ pc = "recordDeposit" /\ pc' = "quarter" /\ up' = up
      /\ deposits' = deposits \cup {block.event.id}
      /\ UNCHANGED <<_round, _quarter, todo, accounts, withdrawals, disputeRows>> /\ InDatabase
  BY DEF saveDepositRecord, Goto
<1>2. UNCHANGED <<totalDisputes, clientDeposits, unprocessed, events, lost, crashes, round,
                  quarter>>
  BY <1>1, DatabaseKeeps
<1>3. unprocessed # <<>> /\ up /\ IsDeposit(1)
  BY <1>1 DEF DepositsInv, AtABlock
<1>4. block = unprocessed[1] /\ 1 \in DOMAIN unprocessed
  BY <1>3, BlockIn
<1>5. OperatorTypeOK'
  <2>1. TodoOK' /\ pc' \in ProcessPlaces
    BY <1>1 DEF TodoOK, ProcessPlaces, Moderating
  <2> QED
    BY <1>1, <1>2, <2>1 DEF OperatorTypeOK
<1>6. DepositIds'
  <2>1. block.event.id \in 1..events
    BY <1>3, <1>4 DEF DepositsInv, DepositIds
  <2> QED
    BY <1>1, <1>2, <2>1 DEF DepositsInv, DepositIds, IsDeposit
<1>7. AtABlock'
  BY <1>1, <1>2, <1>3, <1>4 DEF AtABlock, IsDeposit, block
<1>8. ASSUME NEW t, NEW c, NEW r PROVE NotCredited(t, c, r)' = NotCredited(t, c, r)
  <2>1. \A i \in DOMAIN unprocessed :
           IsDeposit(i) /\ i # 1 => unprocessed[i].event.id # block.event.id
    BY <1>3, <1>4 DEF DepositsInv, DepositIds
  <2>2. \A i \in DepositBlocks(t, c, r) :
           i \in Uncredited(t, c, r)' <=> i \in Uncredited(t, c, r)
    BY <1>1, <1>2, <1>4, <2>1 DEF Uncredited, DepositBlocks, IsDeposit
  <2>3. Uncredited(t, c, r)' = Uncredited(t, c, r)
    <3>1. DepositBlocks(t, c, r)' = DepositBlocks(t, c, r)
      BY <1>2 DEF DepositBlocks
    <3>2. /\ Uncredited(t, c, r)' \subseteq DepositBlocks(t, c, r)
          /\ Uncredited(t, c, r) \subseteq DepositBlocks(t, c, r)
      BY <3>1 DEF Uncredited
    <3> QED
      BY <2>2, <3>2
  <2> QED
    BY <1>2, <2>3 DEF NotCredited, AmountOfBlock
<1>9. DepositsCovered'
  <2>1. DepositsCovered
    BY DEF DepositsInv
  <2> QED
    BY <1>1, <1>2, <1>8, <2>1 DEF DepositsCovered
<1> QED
  BY <1>5, <1>6, <1>7, <1>9 DEF DepositsInv

\* A handler that fails loses its event, and is counted.
LEMMA FailedEventPreserves ==
    ASSUME OperatorTypeOK, DepositsInv, eventFails
    PROVE  OperatorTypeOK' /\ DepositsInv'
<1>1. /\ pc \in {"event", "recordDeposit"} /\ pc' = "quarter" /\ up' = up
      /\ lost' = lost + 1 /\ crashes' = crashes
      /\ UNCHANGED <<_round, _quarter, todo>>
      /\ UNCHANGED <<mediatorVars, chainVars, tableVars>>
  BY DEF eventFails, Goto
<1>2. UNCHANGED <<totalDisputes, clientDeposits, unprocessed, events, round, quarter, accounts,
                  deposits, withdrawals, disputeRows>>
  BY <1>1 DEF mediatorVars, vars, depositVars, disputeVars, clockVars, chainVars, tableVars
<1>3. lost' \in Nat /\ lost' # 0
  BY <1>1 DEF OperatorTypeOK
<1>4. OperatorTypeOK'
  <2>1. TodoOK' /\ pc' \in ProcessPlaces
    BY <1>1 DEF TodoOK, ProcessPlaces, Moderating
  <2> QED
    BY <1>1, <1>2, <1>3, <2>1 DEF OperatorTypeOK
<1>5. DepositIds' /\ AtABlock'
  BY <1>1, <1>2, <1>3 DEF DepositsInv, DepositIds, AtABlock, IsDeposit
<1>6. DepositsCovered'
  BY <1>3 DEF DepositsCovered
<1> QED
  BY <1>4, <1>5, <1>6 DEF DepositsInv

\* After a crash the block is begun again, and what was credited and not recorded is
\* credited once more: the ledger has too much, and never too little.
LEMMA CrashPreserves ==
    ASSUME OperatorTypeOK, DepositsInv, Crash PROVE OperatorTypeOK' /\ DepositsInv'
<1>1. /\ crashes' = crashes + 1 /\ pc' = "idle" /\ todo' = {} /\ _round' = 0 /\ _quarter' = 0
      /\ lost' = lost /\ UNCHANGED <<mediatorVars, chainVars, tableVars>>
  BY DEF Crash
<1>2. UNCHANGED <<totalDisputes, clientDeposits, unprocessed, events, round, quarter, accounts,
                  deposits, withdrawals, disputeRows>>
  BY <1>1 DEF mediatorVars, vars, depositVars, disputeVars, clockVars, chainVars, tableVars
<1>3. crashes' \in Nat /\ crashes' # 0
  BY <1>1 DEF OperatorTypeOK
<1>4. OperatorTypeOK'
  <2>1. TodoOK' /\ pc' \in ProcessPlaces
    BY <1>1 DEF TodoOK, ProcessPlaces, Moderating
  <2>2. 0 \in Rounds /\ 0 \in Quarters
    BY ConstantsAssumption DEF Rounds, Quarters
  <2> QED
    BY <1>1, <1>2, <1>3, <2>1, <2>2 DEF OperatorTypeOK
<1>5. DepositIds' /\ AtABlock'
  BY <1>1, <1>2 DEF DepositsInv, DepositIds, AtABlock, IsDeposit
<1>6. ASSUME lost = 0, NEW r \in Rounds, NEW t \in Tokens, NEW c \in Clients
      PROVE  accounts'[r][t][c].deposited + NotCredited(t, c, r)' >= clientDeposits'[r][t][c]
  <2> DEFINE A == AmountOfBlock
             U == Uncredited(t, c, r)
             U1 == Uncredited(t, c, r)'
             had == accounts[r][t][c].deposited
             got == clientDeposits[r][t][c]
  <2>1. had \in Int /\ got \in Int /\ NotCredited(t, c, r) \in Int
    BY BooksOK, UncreditedOK
  <2>2. NotCredited(t, c, r) = SumFunctionOnSet(A, U) /\ NotCredited(t, c, r)' = SumFunctionOnSet(A, U1)
    BY <1>2 DEF NotCredited, AmountOfBlock
  <2>3. U \in SUBSET U1
    BY <1>1, <1>2 DEF Uncredited, DepositBlocks
  <2>4. NotCredited(t, c, r)' \in Int /\ IsFiniteSet(U1) /\ \A i \in U1 : A[i] \in Nat
    <3>1. U1 \subseteq DepositBlocks(t, c, r)
      BY <1>2 DEF Uncredited, DepositBlocks
    <3>2. IsFiniteSet(U1) /\ \A i \in U1 : A[i] \in Nat
      <4>1. /\ IsFiniteSet(DepositBlocks(t, c, r))
            /\ \A i \in DepositBlocks(t, c, r) : A[i] \in Nat
        BY UncreditedOK
      <4> HIDE DEF A, U1
      <4> QED
        BY <3>1, <4>1, FS_Subset
    <3> HIDE DEF A, U1
    <3>3. SumFunctionOnSet(A, U1) \in Nat
      BY <3>2, SumNat
    <3> QED
      BY <2>2, <3>2, <3>3
  <2> HIDE DEF A, U, U1
  <2>5. SumFunctionOnSet(A, U) <= SumFunctionOnSet(A, U1)
    BY <2>3, <2>4, SumSubset
  <2>6. had + NotCredited(t, c, r) >= got
    BY <1>6 DEF DepositsInv, DepositsCovered
  <2>7. accounts'[r][t][c].deposited = had /\ clientDeposits'[r][t][c] = got
    BY <1>2
  <2> HIDE DEF had, got
  <2> QED
    BY <2>1, <2>2, <2>4, <2>5, <2>6, <2>7
<1>7. DepositsCovered'
  BY <1>1, <1>3, <1>6 DEF DepositsCovered
<1> QED
  BY <1>4, <1>5, <1>7 DEF DepositsInv

\* The block is saved as processed: what it held is credited.
LEMMA SavePreserves ==
    ASSUME OperatorTypeOK, DepositsInv, saveLastProcessedBlock
    PROVE  OperatorTypeOK' /\ DepositsInv'
<1>1. /\ pc = "save" /\ pc' = "idle" /\ up' = up /\ unprocessed' = Tail(unprocessed)
      /\ UNCHANGED <<_round, _quarter, todo>>
      /\ UNCHANGED <<mediatorVars, events, tableVars, boundVars>>
  BY DEF saveLastProcessedBlock, RemainingBlocks, Goto
<1>2. UNCHANGED <<totalDisputes, clientDeposits, events, round, quarter, accounts, deposits,
                  withdrawals, disputeRows, lost, crashes>>
  BY <1>1 DEF mediatorVars, vars, depositVars, disputeVars, clockVars, tableVars, boundVars
<1>3. unprocessed # <<>> /\ unprocessed \in Seq(Block)
  BY <1>1 DEF DepositsInv, AtABlock, OperatorTypeOK
<1>4. /\ unprocessed' \in Seq(Block)
      /\ \A i \in DOMAIN unprocessed' : i \in Nat /\ i + 1 \in DOMAIN unprocessed
                                        /\ unprocessed'[i] = unprocessed[i + 1]
      /\ \A i \in DOMAIN unprocessed : i \in Nat /\ (i # 1 => i - 1 \in DOMAIN unprocessed')
  BY <1>1, <1>3
<1>5. OperatorTypeOK'
  <2>1. TodoOK' /\ pc' \in ProcessPlaces
    BY <1>1 DEF TodoOK, ProcessPlaces, Moderating
  <2> QED
    BY <1>1, <1>2, <1>4, <2>1 DEF OperatorTypeOK
<1>6. DepositIds'
  <2>1. \A i \in DOMAIN unprocessed' : IsDeposit(i)' <=> IsDeposit(i + 1)
    BY <1>4 DEF IsDeposit
  <2>2. deposits' \subseteq 1..events'
    BY <1>2 DEF DepositsInv, DepositIds
  <2>3. ASSUME NEW i \in DOMAIN unprocessed', IsDeposit(i)'
        PROVE  unprocessed'[i].event.id \in 1..events'
    BY <1>2, <1>4, <2>1, <2>3 DEF DepositsInv, DepositIds
  <2>4. ASSUME NEW i \in DOMAIN unprocessed', NEW j \in DOMAIN unprocessed',
               IsDeposit(i)', IsDeposit(j)',
               unprocessed'[i].event.id = unprocessed'[j].event.id
        PROVE  i = j
    <3>1. i + 1 = j + 1
      BY <1>4, <2>1, <2>4 DEF DepositsInv, DepositIds
    <3> QED
      BY <1>4, <3>1
  <2> QED
    BY <2>2, <2>3, <2>4 DEF DepositIds
<1>7. AtABlock'
  BY <1>1 DEF AtABlock
<1>8. ASSUME lost = 0, NEW t, NEW c, NEW r
      PROVE  NotCredited(t, c, r)' = NotCredited(t, c, r)
  <2> DEFINE A == AmountOfBlock
             A1 == AmountOfBlock'
             U == Uncredited(t, c, r)
             U1 == Uncredited(t, c, r)'
             before == [i \in DOMAIN unprocessed |-> i - 1]
  <2>1. 1 \notin U
    <3>1. block = unprocessed[1]
      BY <1>3, BlockIn
    <3>2. IsDeposit(1) => block.event.id \in deposits
      BY <1>1, <1>8 DEF DepositsInv, AtABlock
    <3> QED
      BY <3>1, <3>2 DEF Uncredited, DepositBlocks, IsDeposit
  <2>2. \A i \in DOMAIN unprocessed' : i \in U1 <=> i + 1 \in U
    BY <1>1, <1>2, <1>4 DEF Uncredited, DepositBlocks
  <2>3. U \subseteq DOMAIN unprocessed /\ U1 \subseteq DOMAIN unprocessed'
    BY DEF Uncredited, DepositBlocks
  <2>4. \A i \in U : A[i] \in Nat
    BY UncreditedOK
  <2>5. \A i \in DOMAIN unprocessed' : A1[i] = A[i + 1]
    BY <1>4 DEF AmountOfBlock
  <2>6. IsFiniteSet(U)
    BY UncreditedOK
  <2>7. NotCredited(t, c, r) = SumFunctionOnSet(A, U) /\ NotCredited(t, c, r)' = SumFunctionOnSet(A1, U1)
    BY DEF NotCredited
  <2> HIDE DEF A, A1, U, U1
  <2>8. \A i \in U : before[i] = i - 1 /\ i - 1 \in U1 /\ i \in Nat
    BY <1>4, <2>1, <2>2, <2>3
  <2>9. \A j \in U1 : j + 1 \in U /\ before[j + 1] = j
    <3>1. \A j \in U1 : j + 1 \in U /\ j \in Nat
      BY <1>4, <2>2, <2>3
    <3> QED
      BY <2>8, <3>1
  <2>10. U1 = {before[i] : i \in U}
    <3> HIDE DEF before
    <3> QED
      BY <2>8, <2>9
  <2>11. \A i \in U : A[i] \in Int /\ A1[before[i]] = A[i]
    <3>1. ASSUME NEW i \in U PROVE A[i] \in Int /\ A1[before[i]] = A[i]
      <4>1. before[i] \in DOMAIN unprocessed' /\ before[i] + 1 = i
        BY <2>3, <2>8
      <4> QED
        BY <2>4, <2>5, <4>1
    <3> QED
      BY <3>1
  <2>12. \A i, j \in U : before[i] = before[j] => i = j
    BY <2>8
  <2> HIDE DEF before
  <2>13. SumFunctionOnSet(A1, {before[i] : i \in U}) = SumFunctionOnSet(A, U)
    BY <2>6, <2>11, <2>12, SumRenamed
  <2> QED
    BY <2>7, <2>10, <2>13
<1>9. DepositsCovered'
  <2>1. DepositsCovered
    BY DEF DepositsInv
  <2> QED
    BY <1>2, <1>8, <2>1 DEF DepositsCovered
<1> QED
  BY <1>5, <1>6, <1>7, <1>9 DEF DepositsInv

-----------------------------------------------------------------------------
(* The theorems. *)

LEMMA OpInitOK == ASSUME OpInit PROVE OperatorTypeOK /\ DepositsInv
<1>1. /\ round = 0 /\ quarter = 0 /\ totalDisputes = 0
      /\ clientDeposits = [r \in Rounds |-> [t \in Tokens |-> [c \in Clients |-> 0]]]
      /\ unprocessed = <<>> /\ events = 0 /\ deposits = {} /\ withdrawals = <<>>
      /\ disputeRows = <<>> /\ up = FALSE /\ _round = 0 /\ _quarter = 0 /\ pc = "idle"
      /\ todo = {} /\ crashes = 0 /\ lost = 0
  BY DEF OpInit, Init
<1>2. /\ accounts \in [Rounds -> [Tokens -> [Clients -> Account]]]
      /\ \A r \in Rounds, t \in Tokens, c \in Clients :
            accounts[r][t][c].deposited = 0 /\ clientDeposits[r][t][c] = 0
  <2> DEFINE new == [deposited |-> 0, withdrawn |-> 0, locked |-> 0]
  <2>1. new \in Account /\ new.deposited = 0
    BY DEF Account
  <2>2. accounts = [r \in Rounds |-> [t \in Tokens |-> [c \in Clients |-> new]]]
    BY DEF OpInit
  <2> HIDE DEF new
  <2> QED
    BY <1>1, <2>1, <2>2
<1>3. OperatorTypeOK
  <2>1. 0 \in Rounds /\ 0 \in Quarters
    BY ConstantsAssumption DEF Rounds, Quarters
  <2>2. TodoOK /\ pc \in ProcessPlaces
    BY <1>1 DEF TodoOK, ProcessPlaces, Moderating
  <2>3. clientDeposits \in [Rounds -> [Tokens -> [Clients -> Nat]]]
    BY <1>1
  <2>4. unprocessed \in Seq(Block) /\ withdrawals \in Seq(Withdrawal) /\ disputeRows \in Seq(DisputeRow)
    BY <1>1
  <2> QED
    BY <1>1, <1>2, <2>1, <2>2, <2>3, <2>4 DEF OperatorTypeOK
<1>4. DepositIds /\ AtABlock
  BY <1>1 DEF DepositIds, AtABlock
<1>5. DepositsCovered
  <2>1. \A t, c, r : NotCredited(t, c, r) = 0
    <3>1. \A t, c, r : Uncredited(t, c, r) = {}
      BY <1>1 DEF Uncredited, DepositBlocks
    <3> QED
      BY <3>1, SumEmpty DEF NotCredited
  <2> QED
    BY <1>2, <2>1 DEF DepositsCovered
<1> QED
  BY <1>3, <1>4, <1>5 DEF DepositsInv


LEMMA StepPreserves ==
    ASSUME OperatorTypeOK, DepositsInv, [OpNext]_opVars
    PROVE  OperatorTypeOK' /\ DepositsInv'
<1> USE DEF Kept
<1>0. AtABlock
  BY DEF DepositsInv
<1>1. ASSUME Kept PROVE OperatorTypeOK' /\ DepositsInv'
  BY <1>1, KeptPreserves
<1>2. CASE Clock \/ MineEmptyBlock \/ anybodyHalts \/ Start \/ Crash
  BY <1>0, <1>1, <1>2, ClockKeeps, EmptyBlockPreserves, HaltKeeps, StartKeeps, CrashPreserves
<1>3. ASSUME NEW t \in Tokens, deploy(t) PROVE OperatorTypeOK' /\ DepositsInv'
  BY <1>0, <1>1, <1>3, DeployKeeps
<1>4. CASE Process
  <2>1. CASE \/ processBlock \/ onNewQuarter \/ moderateWithdrawalRequest
             \/ approveWithdrawal \/ bookWithdrawal \/ requestCancellation
             \/ cancelWithdrawalInLedger \/ processOpenDisputes \/ requestClosing
             \/ updateDispute \/ goToRound \/ sendCommit \/ awaitCommits \/ commitsDone
             \/ onFailure \/ onInitiateWithdrawal \/ onOpenDispute
    BY <1>0, <1>1, <2>1, ProcessBlockKeeps, NewQuarterKeeps, ModerateKeeps, ApproveKeeps,
       BookKeeps, CancellationKeeps, LedgerCancellationKeeps, DisputesKeep, ClosingKeeps,
       UpdateDisputeKeeps, GoToRoundKeeps, SendKeeps, AwaitKeeps, FailureKeeps,
       WithdrawalEventKeeps, DisputeEventKeeps
  <2>2. CASE onDeposit
    BY <1>0, <1>1, <2>2, CreditPreserves, OldDepositKeeps
  <2>3. CASE saveDepositRecord
    BY <2>3, RecordPreserves
  <2>4. CASE eventFails
    BY <2>4, FailedEventPreserves
  <2>5. CASE saveLastProcessedBlock
    BY <2>5, SavePreserves
  <2> QED
    BY <1>4, <2>1, <2>2, <2>3, <2>4, <2>5 DEF Process
<1>5. ASSUME NEW tx \in outbox, commitMined(tx) \/ commitRejected(tx)
      PROVE  OperatorTypeOK' /\ DepositsInv'
  BY <1>0, <1>1, <1>5, CommitKeeps, RejectionKeeps
<1>6. ASSUME NEW a \in Approvals, insertOrder(a) \/ cancelOrder(a)
      PROVE  OperatorTypeOK' /\ DepositsInv'
  BY <1>0, <1>1, <1>6, OrderKeeps
<1>7. ASSUME NEW c \in Clients, OpClientStep(c) PROVE OperatorTypeOK' /\ DepositsInv'
  <2>1. ASSUME NEW t \in Tokens, NEW amount \in Amounts(t),
               deposit(c, t, amount) \/ requestWithdrawal(c, t, amount)
        PROVE  OperatorTypeOK' /\ DepositsInv'
    <3>1. amount \in Nat
      BY DEF Amounts
    <3> QED
      BY <2>1, <3>1, DepositPreserves, RequestPreserves
  <2>2. ASSUME NEW t \in Tokens, claimWithdrawal(c, t) PROVE OperatorTypeOK' /\ DepositsInv'
    BY <1>0, <1>1, <2>2, ClaimKeeps
  <2>3. ASSUME NEW byProof \in BOOLEAN, dispute(c, byProof)
        PROVE  OperatorTypeOK' /\ DepositsInv'
    BY <2>3, DisputePreserves
  <2> QED
    BY <1>7, <2>1, <2>2, <2>3 DEF OpClientStep
<1>8. CASE UNCHANGED opVars
  <2>1. UNCHANGED <<round, quarter, totalDisputes, clientDeposits, unprocessed, events,
                    accounts, deposits, withdrawals, disputeRows, up, _round, _quarter, pc,
                    todo, lost, crashes>>
    BY <1>8 DEF opVars, mediatorVars, vars, clockVars, disputeVars, depositVars, chainVars,
                tableVars, processVars, boundVars
  <2>2. round' \in Rounds /\ quarter' \in Quarters
    BY <2>1 DEF OperatorTypeOK
  <2> QED
    BY <1>0, <1>1, <2>1, <2>2, KeptByChain
<1> QED
  BY <1>2, <1>3, <1>4, <1>5, <1>6, <1>7, <1>8 DEF OpNext

\* The variables of the operator hold values of their types, and the process goes
\* only through rows that there are (processBlocksUpTo and what it calls).
THEOREM OperatorIsTyped == OpSpec => []OperatorTypeOK
<1>1. OpInit => OperatorTypeOK /\ DepositsInv
  BY OpInitOK
<1>2. OperatorTypeOK /\ DepositsInv /\ [OpNext]_opVars => OperatorTypeOK' /\ DepositsInv'
  BY StepPreserves
<1> QED
  BY <1>1, <1>2, PTL DEF OpSpec

\* What the ledger has credited and has still to credit of the blocks that the chain
\* mined covers what the contract received, and is exactly that as long as the process
\* has not crashed: no deposit is credited twice (onDeposit, saveDepositRecord).
THEOREM DepositsAreCovered == OpSpec => []DepositsInv
<1>1. OpInit => OperatorTypeOK /\ DepositsInv
  BY OpInitOK
<1>2. OperatorTypeOK /\ DepositsInv /\ [OpNext]_opVars => OperatorTypeOK' /\ DepositsInv'
  BY StepPreserves
<1> QED
  BY <1>1, <1>2, PTL DEF OpSpec

\* Whenever the process crashes, and however often, the ledger credits every deposit
\* of a block that it saves as processed (onDeposit, saveLastProcessedBlock).
THEOREM NoDepositIsLost == OpSpec => []DepositsNotLost
<1>1. OperatorTypeOK /\ DepositsInv => DepositsNotLost
  <2> SUFFICES ASSUME OperatorTypeOK, DepositsInv, lost = 0, NEW r \in Rounds,
                      NEW t \in Tokens, NEW c \in Clients
               PROVE  accounts[r][t][c].deposited
                         >= clientDeposits[r][t][c] - NotProcessed(t, c, r)
    BY DEF DepositsNotLost
  <2> DEFINE A == AmountOfBlock
             U == Uncredited(t, c, r)
             B == DepositBlocks(t, c, r)
             had == accounts[r][t][c].deposited
             got == clientDeposits[r][t][c]
  <2>1. had \in Int /\ got \in Int /\ NotCredited(t, c, r) \in Int
    BY BooksOK, UncreditedOK
  <2>2. U \in SUBSET B /\ IsFiniteSet(B) /\ \A i \in B : A[i] \in Nat
    BY UncreditedOK
  <2>3. had + NotCredited(t, c, r) >= got
    BY DEF DepositsInv, DepositsCovered
  <2>4. NotCredited(t, c, r) = SumFunctionOnSet(A, U) /\ NotProcessed(t, c, r) = SumFunctionOnSet(A, B)
    BY DEF NotCredited, NotProcessed
  <2> HIDE DEF A, U, B, had, got
  <2>5. SumFunctionOnSet(A, U) <= SumFunctionOnSet(A, B)
    BY <2>2, SumSubset
  <2>6. SumFunctionOnSet(A, B) \in Int
    BY <2>2, SumNat
  <2>7. had >= got - NotProcessed(t, c, r)
    BY <2>1, <2>3, <2>4, <2>5, <2>6
  <2> QED
    BY <2>7 DEF had, got
<1> QED
  BY <1>1, OperatorIsTyped, DepositsAreCovered, PTL

-----------------------------------------------------------------------------
(* The books of the operator.  What each group of variables can undergo in a step. *)

OwnStep ==
    \/ Start \/ processBlock \/ onNewQuarter \/ moderateWithdrawalRequest
    \/ approveWithdrawal \/ processOpenDisputes \/ goToRound \/ awaitCommits \/ commitsDone

DatabaseStep ==
    \/ onDeposit \/ saveDepositRecord \/ onInitiateWithdrawal \/ onOpenDispute
    \/ bookWithdrawal \/ cancelWithdrawalInLedger \/ updateDispute

CallStep == onFailure \/ requestCancellation \/ requestClosing

\* An event of the chain that the books do not follow.
OtherEvent ==
    \/ MineEmptyBlock
    \/ \E c \in Clients, byProof \in BOOLEAN : dispute(c, byProof)

DepositStep ==
    \E c \in Clients, t \in Tokens : \E amount \in Amounts(t) : deposit(c, t, amount)

RequestStep ==
    \E c \in Clients, t \in Tokens : \E amount \in Amounts(t) : requestWithdrawal(c, t, amount)

ClaimStep == \E c \in Clients, t \in Tokens : claimWithdrawal(c, t)

MinedStep == \E tx \in outbox : commitMined(tx)

RejectedStep == \E tx \in outbox : commitRejected(tx)

OrderStep == \E a \in Approvals : insertOrder(a) \/ cancelOrder(a)

DeployStep == \E t \in Tokens : deploy(t)

\* The steps of the process alone.
LEMMA OwnFrame == OwnStep => OnlyProcess
BY Zenon DEF OwnStep, Start, processBlock, onNewQuarter, moderateWithdrawalRequest, approveWithdrawal,
       processOpenDisputes, goToRound, awaitCommits, commitsDone

\* Writes to the database leave the chain alone.
LEMMA DatabaseFrame == DatabaseStep => InDatabase
BY Zenon DEF DatabaseStep, onDeposit, saveDepositRecord, onInitiateWithdrawal, onOpenDispute,
       bookWithdrawal, cancelWithdrawalInLedger, updateDispute

\* The calls that a step waits for leave the database alone.
LEMMA CallFrame == CallStep => OnChain
BY DEF CallStep, onFailure, requestCancellation, requestClosing

\* A step is one action, or none.
LEMMA OpSteps ==
    ASSUME [OpNext]_opVars
    PROVE  \/ OwnStep \/ DatabaseStep \/ CallStep
           \/ Clock \/ anybodyHalts \/ DeployStep \/ Crash
           \/ eventFails \/ saveLastProcessedBlock \/ sendCommit
           \/ MinedStep \/ RejectedStep \/ OrderStep
           \/ DepositStep \/ RequestStep \/ ClaimStep \/ OtherEvent
           \/ UNCHANGED opVars
<1>1. CASE Process
  BY <1>1 DEF Process, OwnStep, DatabaseStep, CallStep
<1>2. ASSUME NEW c \in Clients, OpClientStep(c)
      PROVE  DepositStep \/ RequestStep \/ ClaimStep \/ OtherEvent
  BY <1>2, Zenon DEF OpClientStep, DepositStep, RequestStep, ClaimStep, OtherEvent
<1>3. CASE MineEmptyBlock
  BY <1>3 DEF OtherEvent
<1>4. CASE Start
  BY <1>4 DEF OwnStep
<1> QED
  BY <1>1, <1>2, <1>3, <1>4
     DEF OpNext, DeployStep, MinedStep, RejectedStep, OrderStep

\* A stuttering step.
LEMMA NothingFrame ==
    ASSUME UNCHANGED opVars
    PROVE  /\ UNCHANGED <<vars, unprocessed, events, outbox, accounts, withdrawals, approvals,
                          openApprovals, up, _round, _quarter, pc, todo, crashes, lost>>
           /\ UNCHANGED <<disputeRows, deposits, failures>>
BY DEF opVars, mediatorVars, chainVars, tableVars, orderVars, processVars, boundVars

\* What the contract's books undergo.
LEMMA ContractPart ==
    ASSUME [OpNext]_opVars
    PROVE  \/ Clock \/ DepositStep \/ RequestStep \/ ClaimStep \/ MinedStep
           \/ /\ requestCancellation /\ pc' = "cancelled"
              /\ cancelWithdrawal(request.wallet, request.asset, ShownApprovals(request))
           \/ UNCHANGED <<clockVars, depositVars, withdrawalVars, commitVars>>
<1>1. CASE OwnStep \/ DatabaseStep
  BY <1>1, OwnFrame, DatabaseFrame DEF OnlyProcess, InDatabase, mediatorVars, vars
<1>2. CASE requestCancellation
  BY <1>2 DEF requestCancellation, mediatorVars, vars, Goto
<1>3. CASE onFailure
  BY <1>3 DEF onFailure, mediatorVars, vars, updateHaltedState
<1>4. CASE requestClosing
  BY <1>4 DEF requestClosing, mediatorVars, vars, closeDispute
<1>5. CASE anybodyHalts \/ DeployStep
  BY <1>5 DEF anybodyHalts, DeployStep, deploy, updateHaltedState, registerToken
<1>6. CASE Crash \/ eventFails \/ saveLastProcessedBlock \/ sendCommit
  BY <1>6 DEF Crash, eventFails, saveLastProcessedBlock, sendCommit, mediatorVars, vars
<1>7. CASE RejectedStep
  BY <1>7, Zenon DEF RejectedStep, commitRejected, mediatorVars, vars
<1>8. CASE OrderStep
  BY <1>8 DEF OrderStep, insertOrder, cancelOrder, mediatorVars, vars
<1>9. CASE OtherEvent
  <2>1. CASE MineEmptyBlock
    BY <2>1 DEF MineEmptyBlock, mediatorVars, vars
  <2>2. ASSUME NEW c \in Clients, NEW byProof \in BOOLEAN, dispute(c, byProof)
        PROVE  UNCHANGED <<clockVars, depositVars, withdrawalVars, commitVars>>
    BY <2>2 DEF dispute, openDispute
  <2> QED
    BY <1>9, <2>1, <2>2 DEF OtherEvent
<1>10. CASE UNCHANGED opVars
  BY <1>10 DEF opVars, mediatorVars, vars
<1> QED
  BY <1>1, <1>2, <1>3, <1>4, <1>5, <1>6, <1>7, <1>8, <1>9, <1>10, OpSteps DEF CallStep

\* What the tables undergo.
LEMMA LedgerPart ==
    ASSUME [OpNext]_opVars
    PROVE  \/ onDeposit \/ onInitiateWithdrawal \/ bookWithdrawal \/ cancelWithdrawalInLedger
           \/ ClaimStep \/ OrderStep
           \/ UNCHANGED <<accounts, withdrawals, approvals>>
<1>1. CASE OwnStep
  BY <1>1, OwnFrame DEF OnlyProcess, tableVars, orderVars
<1>2. CASE DatabaseStep
  BY <1>2 DEF DatabaseStep, saveDepositRecord, onOpenDispute, updateDispute, orderVars
<1>3. CASE CallStep
  BY <1>3, CallFrame DEF OnChain, tableVars, orderVars
<1>4. CASE Clock \/ anybodyHalts \/ DeployStep \/ Crash
  BY <1>4 DEF Clock, anybodyHalts, DeployStep, deploy, Crash, tableVars, orderVars
<1>5. CASE eventFails \/ saveLastProcessedBlock \/ sendCommit
  BY <1>5 DEF eventFails, saveLastProcessedBlock, sendCommit, tableVars, orderVars
<1>6. CASE MinedStep \/ RejectedStep
  BY <1>6 DEF MinedStep, RejectedStep, commitMined, commitRejected, tableVars, orderVars
<1>7. CASE DepositStep \/ RequestStep \/ OtherEvent
  BY <1>7 DEF DepositStep, RequestStep, OtherEvent, deposit, requestWithdrawal, dispute,
     MineEmptyBlock, ClientTransaction, tableVars, orderVars
<1>8. CASE UNCHANGED opVars
  BY <1>8, NothingFrame
<1> QED
  BY <1>1, <1>2, <1>3, <1>4, <1>5, <1>6, <1>7, <1>8, OpSteps

\* What the blocks under way undergo.
LEMMA BlocksPart ==
    ASSUME [OpNext]_opVars
    PROVE  \/ DepositStep \/ RequestStep \/ OtherEvent \/ saveLastProcessedBlock
           \/ UNCHANGED <<unprocessed, events>>
<1>1. CASE OwnStep \/ DatabaseStep \/ CallStep
  BY <1>1, OwnFrame, DatabaseFrame, CallFrame DEF OnlyProcess, InDatabase, OnChain, chainVars
<1>2. CASE Clock \/ anybodyHalts \/ DeployStep \/ Crash \/ eventFails
  BY <1>2, Zenon DEF Clock, anybodyHalts, DeployStep, deploy, Crash, eventFails, chainVars
<1>3. CASE MinedStep \/ RejectedStep \/ sendCommit
  BY <1>3, Zenon DEF MinedStep, RejectedStep, commitMined, commitRejected, sendCommit, chainVars
<1>4. CASE OrderStep \/ ClaimStep
  BY <1>4, Zenon DEF OrderStep, ClaimStep, insertOrder, cancelOrder, claimWithdrawal, chainVars
<1>5. CASE UNCHANGED opVars
  BY <1>5, NothingFrame
<1> QED
  BY <1>1, <1>2, <1>3, <1>4, <1>5, OpSteps

\* What the transactions under way undergo.
LEMMA OutboxPart ==
    ASSUME [OpNext]_opVars
    PROVE  MinedStep \/ RejectedStep \/ sendCommit \/ outbox' = outbox
<1>1. CASE OwnStep \/ DatabaseStep \/ CallStep
  BY <1>1, OwnFrame, DatabaseFrame, CallFrame, Zenon DEF OnlyProcess, InDatabase, OnChain
<1>2. CASE Clock \/ anybodyHalts \/ DeployStep \/ Crash \/ eventFails \/ saveLastProcessedBlock
  BY <1>2, Zenon DEF Clock, anybodyHalts, DeployStep, deploy, Crash, eventFails,
     saveLastProcessedBlock
<1>3. CASE DepositStep \/ RequestStep \/ OtherEvent
  BY <1>3, Zenon DEF DepositStep, RequestStep, OtherEvent, deposit, requestWithdrawal, dispute,
     MineEmptyBlock, ClientTransaction
<1>4. CASE OrderStep \/ ClaimStep
  BY <1>4, Zenon DEF OrderStep, ClaimStep, insertOrder, cancelOrder, claimWithdrawal
<1>5. CASE UNCHANGED opVars
  BY <1>5, NothingFrame
<1> QED
  BY <1>1, <1>2, <1>3, <1>4, <1>5, OpSteps

\* What the faults undergo.
LEMMA FaultsPart ==
    ASSUME [OpNext]_opVars
    PROVE  \/ Crash \/ eventFails
           \/ UNCHANGED <<crashes, lost>>
<1>1. CASE OwnStep \/ DatabaseStep
  BY <1>1, OwnFrame, DatabaseFrame DEF OnlyProcess, InDatabase, boundVars
<1>2. CASE CallStep
  BY <1>2, Zenon DEF CallStep, onFailure, requestCancellation, requestClosing, TxFails, boundVars
<1>3. CASE Clock \/ anybodyHalts \/ DeployStep \/ saveLastProcessedBlock \/ sendCommit
  BY <1>3, Zenon DEF Clock, anybodyHalts, DeployStep, deploy, saveLastProcessedBlock, sendCommit,
     boundVars
<1>4. CASE DepositStep \/ RequestStep \/ OtherEvent
  BY <1>4, Zenon DEF DepositStep, RequestStep, OtherEvent, deposit, requestWithdrawal, dispute,
     MineEmptyBlock, ClientTransaction, boundVars
<1>5. CASE OrderStep \/ ClaimStep
  BY <1>5, Zenon DEF OrderStep, ClaimStep, insertOrder, cancelOrder, claimWithdrawal, boundVars
<1>6. CASE MinedStep \/ RejectedStep
  BY <1>6 DEF MinedStep, RejectedStep, commitMined, commitRejected, TxFails, boundVars
<1>7. CASE UNCHANGED opVars
  BY <1>7, NothingFrame
<1> QED
  BY <1>1, <1>2, <1>3, <1>4, <1>5, <1>6, <1>7, OpSteps

\* What the process undergoes: it moves on in a step of its own only, and but for the
\* start of a quarter it keeps to the quarter it is in.
LEMMA ProcessPart ==
    ASSUME [OpNext]_opVars
    PROVE  \/ OwnStep \/ DatabaseStep \/ CallStep \/ Crash \/ eventFails
           \/ saveLastProcessedBlock \/ sendCommit \/ RejectedStep
           \/ UNCHANGED processVars
<1>1. CASE Clock \/ anybodyHalts \/ DeployStep \/ MinedStep
  BY <1>1 DEF Clock, anybodyHalts, DeployStep, deploy, MinedStep, commitMined
<1>2. CASE DepositStep \/ RequestStep \/ OtherEvent
  BY <1>2, Zenon DEF DepositStep, RequestStep, OtherEvent, deposit, requestWithdrawal, dispute,
     MineEmptyBlock, ClientTransaction
<1>3. CASE OrderStep \/ ClaimStep
  BY <1>3, Zenon DEF OrderStep, ClaimStep, insertOrder, cancelOrder, claimWithdrawal
<1>4. CASE UNCHANGED opVars
  BY <1>4 DEF opVars
<1> QED
  BY <1>1, <1>2, <1>3, <1>4, OpSteps

\* The quarter that the process has reached.
LEMMA QuarterPart ==
    ASSUME [OpNext]_opVars
    PROVE  \/ (Start \/ Crash) /\ _round' = 0 /\ _quarter' = 0 /\ pc' = "idle"
           \/ onNewQuarter
           \/ UNCHANGED <<_round, _quarter>>
<1>1. CASE OwnStep
  BY <1>1, Zenon DEF OwnStep, Start, processBlock, moderateWithdrawalRequest, approveWithdrawal,
     processOpenDisputes, goToRound, awaitCommits, commitsDone, Goto
<1>2. CASE DatabaseStep
  BY <1>2, Zenon DEF DatabaseStep, onDeposit, saveDepositRecord, onInitiateWithdrawal, onOpenDispute,
     bookWithdrawal, cancelWithdrawalInLedger, updateDispute, Goto, NextItem
<1>3. CASE CallStep
  BY <1>3 DEF CallStep, onFailure, requestCancellation, requestClosing, CancellationFailed,
     Goto, NextItem
<1>4. CASE Crash \/ eventFails \/ saveLastProcessedBlock \/ sendCommit
  BY <1>4 DEF Crash, eventFails, saveLastProcessedBlock, sendCommit, Goto, NextItem
<1>5. CASE RejectedStep
  BY <1>5 DEF RejectedStep, commitRejected, Goto
<1>6. CASE UNCHANGED processVars
  BY <1>6 DEF processVars
<1> QED
  BY <1>1, <1>2, <1>3, <1>4, <1>5, <1>6, ProcessPart, Zenon

-----------------------------------------------------------------------------
(* The operator's steps as steps of the contract. *)

\* To show no orders is one of the choices of the operator.
LEMMA NoFillsShown == <<>> \in ApprovalsFor({})
<1>1. DOMAIN <<>> = {}
  OBVIOUS
<1>2. <<>> = [x \in {} |-> <<>>[x]]
  BY <1>1
<1> QED
  BY <1>2 DEF ApprovalsFor

\* What the operator and its clients do is what the contract's steps are, provided that
\* the trees are such as it takes.
LEMMA ContractStep ==
    ASSUME OperatorTypeOK, approvals \subseteq Approvals, [OpNext]_opVars,
           \A tx \in outbox : commitMined(tx)
               => /\ tx.asset \in Tokens
                  /\ Root(tx.leaves, previousClosingBalance(tx.asset)) \in Roots
    PROVE  [AnyNext]_vars
<1> USE DEF AnyNext, Next
<1>1. CASE OwnStep \/ DatabaseStep
  BY <1>1, OwnFrame, DatabaseFrame DEF OnlyProcess, InDatabase, mediatorVars
<1>2. CASE onFailure
  BY <1>2 DEF onFailure, mediatorVars
<1>3. CASE requestCancellation
  <2>1. request.wallet \in Clients /\ request.asset \in Tokens
    BY <1>3, RowIn DEF requestCancellation, Moderating, Withdrawal
  <2>2. ShownApprovals(request) \in SUBSET Approvals
    BY DEF ShownApprovals
  <2>3. \/ cancelWithdrawal(request.wallet, request.asset, ShownApprovals(request))
        \/ UNCHANGED vars
    BY <1>3 DEF requestCancellation, mediatorVars
  <2> QED
    BY <2>1, <2>2, <2>3 DEF OperatorStep
<1>4. CASE requestClosing
  <2>1. disputeRow.wallet \in Clients
    BY <1>4, DisputeRowIn DEF requestClosing, DisputeRow
  <2>2. closeDispute(disputeRow.wallet, {}, <<>>) \/ UNCHANGED vars
    BY <1>4 DEF requestClosing, mediatorVars
  <2>3. closeDispute(disputeRow.wallet, {}, <<>>) => OperatorStep
    BY <2>1, NoFillsShown DEF OperatorStep
  <2> QED
    BY <2>2, <2>3
<1>5. CASE Clock \/ anybodyHalts \/ DeployStep
  BY <1>5 DEF Clock, anybodyHalts, DeployStep, deploy, OperatorStep
<1>6. CASE Crash \/ eventFails \/ saveLastProcessedBlock \/ sendCommit
  BY <1>6 DEF Crash, eventFails, saveLastProcessedBlock, sendCommit, mediatorVars
<1>7. CASE MinedStep
  <2>1. PICK tx \in outbox : commitMined(tx)
    BY <1>7 DEF MinedStep
  <2>2. /\ tx.asset \in Tokens
        /\ Root(tx.leaves, previousClosingBalance(tx.asset)) \in Roots
    BY <2>1
  <2>3. commit(tx.asset, Root(tx.leaves, previousClosingBalance(tx.asset)))
    BY <2>1 DEF commitMined, CommitOf
  <2> QED
    BY <2>2, <2>3, Zenon
<1>8. CASE RejectedStep
  BY <1>8, Zenon DEF RejectedStep, commitRejected, mediatorVars
<1>9. CASE OrderStep
  BY <1>9 DEF OrderStep, insertOrder, cancelOrder, mediatorVars
<1>10. CASE DepositStep \/ RequestStep \/ ClaimStep
  BY <1>10, Zenon DEF DepositStep, RequestStep, ClaimStep, deposit, requestWithdrawal,
     claimWithdrawal, ClientStep
<1>11. CASE OtherEvent
  BY <1>11 DEF OtherEvent, MineEmptyBlock, dispute, ClientStep, mediatorVars
<1>12. CASE UNCHANGED opVars
  BY <1>12, NothingFrame
<1> QED
  BY <1>1, <1>2, <1>3, <1>4, <1>5, <1>6, <1>7, <1>8, <1>9, <1>10, <1>11, <1>12, OpSteps
     DEF CallStep

-----------------------------------------------------------------------------
(* What mining a block and saving it do to the blocks under way. *)

BlockOf(event) == [round |-> round, quarter |-> quarter, event |-> event]

\* A block is mined with an event in it, and nothing else happens to the operator.
Mines(event) ==
    /\ event \in Event /\ unprocessed' = Append(unprocessed, BlockOf(event))
    /\ UNCHANGED <<round, quarter, outbox, accounts, withdrawals, approvals, crashes, lost>>
    /\ UNCHANGED <<up, _round, _quarter, pc, todo>>
    /\ events' \in Nat /\ events' >= events
    /\ event.type = "withdrawal" => event.id = events + 1 /\ events' = events + 1

RequestEvent(c, t, amount) ==
    [type |-> "withdrawal", id |-> events + 1, asset |-> t, wallet |-> c, amount |-> amount]

\* A transaction of a client is mined in a block of its own.
LEMMA TransactionMines ==
    ASSUME OperatorTypeOK, NEW event \in Event, ClientTransaction(event),
           UNCHANGED <<round, quarter>>,
           event.type = "withdrawal" => event.id = events + 1
    PROVE  Mines(event)
<1>1. events \in Nat
  BY DEF OperatorTypeOK
<1>2. Mine(event) /\ events' = events + 1
  BY DEF ClientTransaction
<1>3. unprocessed' = Append(unprocessed, BlockOf(event))
  BY <1>2 DEF Mine, BlockOf
<1>4. UNCHANGED <<outbox, accounts, withdrawals, approvals, crashes, lost>>
  BY DEF ClientTransaction, tableVars, orderVars, boundVars
<1>5. UNCHANGED <<up, _round, _quarter, pc, todo>>
  BY DEF ClientTransaction, processVars
<1> QED
  BY <1>1, <1>2, <1>3, <1>4, <1>5 DEF Mines

LEMMA RequestMines ==
    ASSUME OperatorTypeOK, NEW c \in Clients, NEW t \in Tokens, NEW amount \in Nat,
           requestWithdrawal(c, t, amount)
    PROVE  initiateWithdrawal(c, t, amount) /\ Mines(RequestEvent(c, t, amount))
<1>1. initiateWithdrawal(c, t, amount) /\ ClientTransaction(RequestEvent(c, t, amount))
  BY DEF requestWithdrawal, RequestEvent
<1>2. RequestEvent(c, t, amount) \in Event /\ RequestEvent(c, t, amount).id = events + 1
  <2>1. events + 1 \in Nat
    BY DEF OperatorTypeOK
  <2> QED
    BY <2>1 DEF Event, RequestEvent
<1>3. UNCHANGED <<round, quarter>>
  BY <1>1 DEF initiateWithdrawal, clockVars
<1> QED
  BY <1>1, <1>2, <1>3, TransactionMines

LEMMA DepositMines ==
    ASSUME OperatorTypeOK, NEW c \in Clients, NEW t \in Tokens, NEW amount \in Nat,
           deposit(c, t, amount)
    PROVE  /\ depositTokens(c, t, amount)
           /\ \E event : Mines(event) /\ event.type = "deposit"
<1> DEFINE event == [type |-> "deposit", id |-> events + 1, asset |-> t, wallet |-> c,
                     amount |-> amount]
<1>1. depositTokens(c, t, amount) /\ ClientTransaction(event)
  BY DEF deposit
<1>2. event \in Event /\ event.type = "deposit"
  <2>1. events + 1 \in Nat
    BY DEF OperatorTypeOK
  <2> QED
    BY <2>1 DEF Event
<1>3. UNCHANGED <<round, quarter>>
  BY <1>1 DEF depositTokens, clockVars
<1> HIDE DEF event
<1> QED
  BY <1>1, <1>2, <1>3, TransactionMines

LEMMA OtherMines ==
    ASSUME OperatorTypeOK, OtherEvent
    PROVE  \E event : Mines(event) /\ event.type \notin {"deposit", "withdrawal"}
<1>1. CASE MineEmptyBlock
  <2> DEFINE event == [type |-> "none"]
  <2>1. event \in Event /\ event.type = "none"
    BY DEF Event
  <2>2. Mine(event) /\ UNCHANGED <<mediatorVars, events, outbox, tableVars, processVars,
                                   boundVars>>
    BY <1>1 DEF MineEmptyBlock
  <2>3. unprocessed' = Append(unprocessed, BlockOf(event))
    BY <2>2 DEF Mine, BlockOf
  <2> HIDE DEF event
  <2>4. UNCHANGED <<round, quarter, events, outbox, accounts, withdrawals, approvals,
                    crashes, lost>>
    BY <2>2 DEF mediatorVars, vars, clockVars, tableVars, orderVars, boundVars
  <2>5. UNCHANGED <<up, _round, _quarter, pc, todo>> /\ events \in Nat
    BY <2>2 DEF processVars, OperatorTypeOK
  <2>6. Mines(event)
    BY <2>1, <2>3, <2>4, <2>5 DEF Mines
  <2> QED
    BY <2>1, <2>6
<1>2. ASSUME NEW c \in Clients, NEW byProof \in BOOLEAN, dispute(c, byProof)
      PROVE  \E event : Mines(event) /\ event.type \notin {"deposit", "withdrawal"}
  <2> DEFINE event == [type |-> "dispute", id |-> totalDisputes', wallet |-> c]
  <2>1. openDispute(c, {}, byProof) /\ ClientTransaction(event)
    BY <1>2 DEF dispute
  <2>2. totalDisputes' \in Nat
    BY <2>1 DEF openDispute, OperatorTypeOK
  <2>3. event \in Event /\ event.type = "dispute"
    BY <2>2 DEF Event
  <2>4. UNCHANGED <<round, quarter>>
    BY <2>1 DEF openDispute, clockVars
  <2> HIDE DEF event
  <2>5. Mines(event)
    BY <2>1, <2>3, <2>4, TransactionMines
  <2> QED
    BY <2>3, <2>5
<1> QED
  BY <1>1, <1>2 DEF OtherEvent

\* Every step that adds a block is such a one.
LEMMA SomethingMines ==
    ASSUME OperatorTypeOK, DepositStep \/ RequestStep \/ OtherEvent
    PROVE  \E event : Mines(event)
<1>1. \A t \in Tokens : Amounts(t) \subseteq Nat
  BY DEF Amounts
<1> QED
  BY <1>1, DepositMines, RequestMines, OtherMines DEF DepositStep, RequestStep

\* What the blocks are after an event.
LEMMA BlocksAfterMining ==
    ASSUME OperatorTypeOK, NEW event, Mines(event)
    PROVE  LET n == Len(unprocessed) + 1
           IN /\ n \in Nat /\ n \in DOMAIN unprocessed' /\ n \notin DOMAIN unprocessed
              /\ unprocessed'[n] = BlockOf(event)
              /\ DOMAIN unprocessed' = DOMAIN unprocessed \cup {n}
              /\ \A i \in DOMAIN unprocessed :
                    i \in Nat /\ 1 <= i /\ i < n /\ unprocessed'[i] = unprocessed[i]
              /\ unprocessed # <<>> => block' = block
              /\ 1 \in DOMAIN unprocessed => unprocessed # <<>>
<1>1. unprocessed \in Seq(Block) /\ unprocessed' = Append(unprocessed, BlockOf(event))
  BY DEF OperatorTypeOK, Mines
<1>2. BlockOf(event) \in Block
  BY DEF Mines, BlockOf, Block, OperatorTypeOK
<1>3. unprocessed # <<>> => block' = block
  BY <1>1, <1>2 DEF block
<1> HIDE DEF block
<1> QED
  BY <1>1, <1>2, <1>3

\* The block that is saved is the first one; the others move up.
LEMMA BlocksAfterSaving ==
    ASSUME OperatorTypeOK, AtABlock, saveLastProcessedBlock
    PROVE  /\ \A i \in DOMAIN unprocessed' :
                 /\ i \in Nat /\ 1 <= i /\ i + 1 \in DOMAIN unprocessed
                 /\ unprocessed'[i] = unprocessed[i + 1]
           /\ \A i \in DOMAIN unprocessed : i \in Nat /\ (i # 1 => i - 1 \in DOMAIN unprocessed')
           /\ unprocessed # <<>> /\ 1 \in DOMAIN unprocessed /\ block = unprocessed[1]
           /\ pc = "save" /\ pc' = "idle" /\ unprocessed' = Tail(unprocessed)
           /\ UNCHANGED <<round, quarter, commits, accounts, withdrawals, approvals, outbox,
                          crashes, lost, up, _round, _quarter, todo, events, vars>>
<1>1. /\ pc = "save" /\ pc' = "idle" /\ up' = up /\ unprocessed' = Tail(unprocessed)
      /\ UNCHANGED <<_round, _quarter, todo>>
      /\ UNCHANGED <<mediatorVars, events, outbox, tableVars, boundVars>>
  BY DEF saveLastProcessedBlock, RemainingBlocks, Goto
<1>2. UNCHANGED <<round, quarter, commits, accounts, withdrawals, approvals, crashes, lost,
                  vars>>
  BY <1>1 DEF mediatorVars, vars, clockVars, commitVars, tableVars, orderVars, boundVars
<1>3. unprocessed # <<>> /\ unprocessed \in Seq(Block)
  BY <1>1 DEF AtABlock, OperatorTypeOK
<1>4. block = unprocessed[1] /\ 1 \in DOMAIN unprocessed
  BY <1>3, BlockIn
<1> QED
  BY <1>1, <1>2, <1>3, <1>4

-----------------------------------------------------------------------------
(* The order of the blocks. *)

\* Only the clock moves the rounds and quarters of the chain.
LEMMA ClockPart ==
    ASSUME [OpNext]_opVars
    PROVE  Clock \/ UNCHANGED <<round, quarter>>
<1>1. CASE DepositStep \/ RequestStep \/ ClaimStep
  BY <1>1 DEF DepositStep, RequestStep, ClaimStep, deposit, requestWithdrawal,
     claimWithdrawal, depositTokens, initiateWithdrawal, confirmWithdrawal, clockVars
<1>2. CASE MinedStep
  BY <1>2, Zenon DEF MinedStep, commitMined, CommitOf, commit, clockVars
<1>3. CASE cancelWithdrawal(request.wallet, request.asset, ShownApprovals(request))
  BY <1>3 DEF cancelWithdrawal, clockVars
<1>4. CASE UNCHANGED clockVars
  BY <1>4 DEF clockVars
<1> QED
  BY <1>1, <1>2, <1>3, <1>4, ContractPart

LEMMA ClockFrame ==
    ASSUME OperatorTypeOK, Clock
    PROVE  /\ UNCHANGED <<unprocessed, events, outbox, accounts, withdrawals, approvals,
                          crashes, lost, up, _round, _quarter, pc, todo, commits>>
           /\ 4 * round' + quarter' = 4 * round + quarter + 1
           /\ quarter' # 0 => round' = round
           /\ round <= round' /\ round \in Nat
<1>1. round \in Nat /\ quarter \in 0..3
  BY ConstantsAssumption DEF OperatorTypeOK, Rounds, Quarters
<1>2. UNCHANGED <<unprocessed, events, outbox, accounts, withdrawals, approvals, crashes,
                  lost, up, _round, _quarter, pc, todo, commits>>
  BY DEF Clock, Tick, tableVars, orderVars, processVars, boundVars, commitVars
<1>3. \/ quarter' = quarter + 1 /\ round' = round
      \/ quarter = 3 /\ quarter' = 0 /\ round' = round + 1
  BY DEF Clock, Tick
<1> QED
  BY <1>1, <1>2, <1>3

\* Rounds and quarters are numbers.
LEMMA BlockTimes ==
    ASSUME OperatorTypeOK
    PROVE  /\ 4 * round + quarter \in Nat /\ 4 * _round + _quarter \in Nat
           /\ round \in Nat /\ quarter \in 0..3 /\ _round \in Nat /\ _quarter \in 0..3
           /\ \A i \in DOMAIN unprocessed :
                 /\ i \in Nat /\ 1 <= i /\ unprocessed[i] \in Block
                 /\ unprocessed[i].round \in Nat /\ unprocessed[i].quarter \in 0..3
                 /\ TimeOf(unprocessed[i]) \in Nat
<1>1. \A i \in DOMAIN unprocessed : unprocessed[i] \in Block /\ i \in Nat /\ 1 <= i
  BY DEF OperatorTypeOK
<1>2. \A i \in DOMAIN unprocessed :
         unprocessed[i].round \in Nat /\ unprocessed[i].quarter \in 0..3
  BY <1>1, ConstantsAssumption DEF Block, Rounds, Quarters
<1>3. /\ round \in Nat /\ quarter \in 0..3 /\ _round \in Nat /\ _quarter \in 0..3
  BY ConstantsAssumption DEF OperatorTypeOK, Rounds, Quarters
<1> QED
  BY <1>1, <1>2, <1>3 DEF TimeOf

\* The blocks stay in order: a new one is of now, and the process goes on.
LEMMA BlocksInOrderStep ==
    ASSUME OperatorTypeOK, OperatorTypeOK', AtABlock, BlocksInOrder, [OpNext]_opVars
    PROVE  BlocksInOrder'
<1>0. /\ 4 * round + quarter \in Nat /\ 4 * _round + _quarter \in Nat
      /\ \A i \in DOMAIN unprocessed : TimeOf(unprocessed[i]) \in Nat /\ i \in Nat /\ 1 <= i
  BY BlockTimes
<1>1. ASSUME NEW event, Mines(event) PROVE BlocksInOrder'
  <2> DEFINE n == Len(unprocessed) + 1
  <2>1. /\ n \in Nat /\ n \notin DOMAIN unprocessed /\ unprocessed'[n] = BlockOf(event)
        /\ DOMAIN unprocessed' = DOMAIN unprocessed \cup {n}
        /\ \A i \in DOMAIN unprocessed :
              i \in Nat /\ i < n /\ unprocessed'[i] = unprocessed[i]
    BY <1>1, BlocksAfterMining
  <2>2. UNCHANGED <<round, quarter, _round, _quarter>>
    BY <1>1 DEF Mines
  <2>3. TimeOf(BlockOf(event)) = 4 * round + quarter
    BY DEF TimeOf, BlockOf
  <2> HIDE DEF n
  <2>4. \A i \in DOMAIN unprocessed' :
           /\ TimeOf(unprocessed'[i]) <= 4 * round + quarter
           /\ 4 * _round + _quarter <= TimeOf(unprocessed'[i])
    BY <1>0, <2>1, <2>3 DEF BlocksInOrder
  <2>5. \A i, j \in DOMAIN unprocessed' :
           i <= j => TimeOf(unprocessed'[i]) <= TimeOf(unprocessed'[j])
    <3> SUFFICES ASSUME NEW i \in DOMAIN unprocessed', NEW j \in DOMAIN unprocessed', i <= j
                 PROVE  TimeOf(unprocessed'[i]) <= TimeOf(unprocessed'[j])
      OBVIOUS
    <3>1. CASE j = n
      BY <1>0, <2>1, <2>3, <2>4, <3>1
    <3>2. CASE j # n
      BY <1>0, <2>1, <3>2 DEF BlocksInOrder
    <3> QED
      BY <3>1, <3>2
  <2>6. 4 * _round + _quarter <= 4 * round + quarter
    BY DEF BlocksInOrder
  <2> QED
    BY <2>2, <2>4, <2>5, <2>6 DEF BlocksInOrder, TimeOf
<1>2. CASE saveLastProcessedBlock
  <2>1. /\ \A i \in DOMAIN unprocessed' : /\ i \in Nat /\ i + 1 \in DOMAIN unprocessed
                                          /\ unprocessed'[i] = unprocessed[i + 1]
        /\ UNCHANGED <<round, quarter, _round, _quarter>>
    BY <1>2, BlocksAfterSaving
  <2>2. \A i, j \in DOMAIN unprocessed' : i <= j =>
           TimeOf(unprocessed[i + 1]) <= TimeOf(unprocessed[j + 1])
    BY <2>1 DEF BlocksInOrder
  <2> QED
    BY <2>1, <2>2 DEF BlocksInOrder, TimeOf
<1>3. CASE Clock
  <2>1. /\ UNCHANGED <<unprocessed, _round, _quarter>>
        /\ 4 * round' + quarter' = 4 * round + quarter + 1
    BY <1>3, ClockFrame
  <2> QED
    BY <1>0, <2>1 DEF BlocksInOrder, TimeOf
<1>4. CASE UNCHANGED <<unprocessed, round, quarter>>
  <2>1. CASE _round' = 0 /\ _quarter' = 0
    BY <1>0, <1>4, <2>1 DEF BlocksInOrder, TimeOf
  <2>2. CASE onNewQuarter
    <3>1. unprocessed # <<>> /\ block = unprocessed[1] /\ 1 \in DOMAIN unprocessed
      BY <2>2, BlockIn DEF AtABlock, onNewQuarter
    <3>2. (_round' = block.round /\ _quarter' = block.quarter) \/ UNCHANGED <<_round, _quarter>>
      BY <2>2 DEF onNewQuarter, BeginQuarter, Goto
    <3> QED
      BY <1>0, <1>4, <3>1, <3>2 DEF BlocksInOrder, TimeOf
  <2>3. CASE UNCHANGED <<_round, _quarter>>
    BY <1>4, <2>3 DEF BlocksInOrder, TimeOf
  <2> QED
    BY <2>1, <2>2, <2>3, QuarterPart
<1>5. CASE UNCHANGED unprocessed
  BY <1>3, <1>4, <1>5, ClockPart
<1> QED
  BY <1>1, <1>2, <1>5, BlocksPart, SomethingMines

\* How the process gets to work: it begins a quarter, or is at work already.
LEMMA WorkPart ==
    ASSUME [OpNext]_opVars, pc' \in WorkPlaces
    PROVE  \/ onNewQuarter /\ BeginQuarter /\ block.quarter # _quarter /\ pc' = "moderate"
                           /\ todo' = uncheckedWithdrawals
           \/ pc \in WorkPlaces /\ ~saveLastProcessedBlock /\ ~Start /\ ~Crash
                                /\ UNCHANGED <<_round, _quarter>>
<1> USE DEF WorkPlaces, Moderating
<1>1. CASE Start \/ Crash \/ eventFails \/ saveLastProcessedBlock
  BY <1>1, Zenon DEF Start, Crash, eventFails, saveLastProcessedBlock, Goto
<1>2. CASE onNewQuarter
  BY <1>2, Zenon DEF onNewQuarter, Goto
<1>3. CASE OwnStep /\ ~Start /\ ~onNewQuarter
  BY <1>1, <1>3, Zenon DEF OwnStep, processBlock, moderateWithdrawalRequest, approveWithdrawal,
     processOpenDisputes, goToRound, awaitCommits, commitsDone, Goto
<1>4. CASE DatabaseStep
  BY <1>1, <1>4, Zenon DEF DatabaseStep, onDeposit, saveDepositRecord, onInitiateWithdrawal,
     onOpenDispute, bookWithdrawal, cancelWithdrawalInLedger, updateDispute, Goto, NextItem
<1>5. CASE CallStep
  BY <1>1, <1>5 DEF CallStep, onFailure, requestCancellation, requestClosing,
     CancellationFailed, Goto, NextItem
<1>6. CASE sendCommit
  BY <1>1, <1>6 DEF sendCommit, NextItem
<1>7. CASE RejectedStep
  BY <1>1, <1>7 DEF RejectedStep, commitRejected, Goto
<1>8. CASE UNCHANGED processVars
  BY <1>1, <1>8 DEF processVars, saveLastProcessedBlock, Start, Crash, Goto
<1> QED
  BY <1>1, <1>2, <1>3, <1>4, <1>5, <1>6, <1>7, <1>8, ProcessPart

\* The block stays the one under way until it is saved.
LEMMA BlockStays ==
    ASSUME OperatorTypeOK, [OpNext]_opVars, unprocessed # <<>>, ~saveLastProcessedBlock
    PROVE  block' = block
<1>1. ASSUME NEW event, Mines(event) PROVE block' = block
  BY <1>1, BlocksAfterMining, Zenon
<1>2. CASE UNCHANGED unprocessed
  BY <1>2, Zenon DEF block
<1> QED
  BY <1>1, <1>2, BlocksPart, SomethingMines

\* The process goes down by a crash only.
LEMMA UpPart ==
    ASSUME [OpNext]_opVars
    PROVE  Crash \/ Start \/ up' = up
<1>1. CASE OwnStep \/ DatabaseStep
  BY <1>1, Zenon DEF OwnStep, DatabaseStep, processBlock, onNewQuarter, moderateWithdrawalRequest,
     approveWithdrawal, processOpenDisputes, goToRound, awaitCommits, commitsDone, onDeposit,
     saveDepositRecord, onInitiateWithdrawal, onOpenDispute, bookWithdrawal,
     cancelWithdrawalInLedger, updateDispute, Goto, NextItem
<1>2. CASE CallStep \/ RejectedStep
  BY <1>2 DEF CallStep, onFailure, requestCancellation, requestClosing, CancellationFailed,
     RejectedStep, commitRejected, Goto, NextItem
<1>3. CASE eventFails \/ saveLastProcessedBlock \/ sendCommit
  BY <1>3 DEF eventFails, saveLastProcessedBlock, sendCommit, Goto, NextItem
<1>4. CASE UNCHANGED processVars
  BY <1>4 DEF processVars
<1> QED
  BY <1>1, <1>2, <1>3, <1>4, ProcessPart, Zenon

\* How the process gets to the commits.
LEMMA CommitPart ==
    ASSUME [OpNext]_opVars, pc' \in {"commit", "committing"}
    PROVE  /\ _quarter' = _quarter
           /\ pc \in {"commit", "committing"} \/ _quarter = 0
           /\ \/ goToRound /\ todo' = Tokens /\ pc = "dispute" /\ todo = {}
              \/ pc \in {"commit", "committing"} /\ todo' \subseteq todo
<1>1. CASE OwnStep
  BY <1>1, Zenon DEF OwnStep, Start, processBlock, onNewQuarter, moderateWithdrawalRequest,
     approveWithdrawal, processOpenDisputes, goToRound, isNewRound, awaitCommits, commitsDone,
     Goto
<1>2. CASE DatabaseStep
  BY <1>2, Zenon DEF DatabaseStep, onDeposit, saveDepositRecord, onInitiateWithdrawal, onOpenDispute,
     bookWithdrawal, cancelWithdrawalInLedger, updateDispute, Goto, NextItem
<1>3. CASE CallStep
  BY <1>3 DEF CallStep, onFailure, requestCancellation, requestClosing, CancellationFailed,
     Goto, NextItem
<1>4. CASE Crash \/ eventFails \/ saveLastProcessedBlock \/ sendCommit
  BY <1>4 DEF Crash, eventFails, saveLastProcessedBlock, sendCommit, Goto, NextItem
<1>5. CASE RejectedStep
  BY <1>5 DEF RejectedStep, commitRejected, Goto
<1>6. CASE UNCHANGED processVars
  BY <1>6 DEF processVars
<1> QED
  BY <1>1, <1>2, <1>3, <1>4, <1>5, <1>6, ProcessPart

\* The work stays that of the block's quarter (onNewQuarter, goToRound).
LEMMA AtWorkStep ==
    ASSUME OperatorTypeOK, AtABlock, BlocksInOrder, AtWork, [OpNext]_opVars
    PROVE  AtWork'
<1>0. /\ _round \in Nat /\ _quarter \in 0..3
      /\ \A i \in DOMAIN unprocessed :
            unprocessed[i].round \in Nat /\ unprocessed[i].quarter \in 0..3
  BY BlockTimes
<1>1. ~up' => _round' = 0
  <2>1. CASE Crash \/ Start
    BY <2>1 DEF Crash, Start
  <2>2. CASE onNewQuarter
    BY <2>2 DEF onNewQuarter, AtABlock, Goto
  <2>3. CASE up' = up /\ UNCHANGED <<_round, _quarter>>
    BY <2>3 DEF AtWork
  <2> QED
    BY <2>1, <2>2, <2>3, UpPart, QuarterPart
<1>2. ASSUME pc' \in WorkPlaces
      PROVE  /\ _round' = block'.round /\ _quarter' = block'.quarter
             /\ _quarter' = 0 => _round' > 0
  <2>1. pc # "idle" /\ ~saveLastProcessedBlock
    BY <1>2, WorkPart DEF onNewQuarter, saveLastProcessedBlock, WorkPlaces, Moderating
  <2>2. unprocessed # <<>>
    BY <2>1 DEF AtABlock
  <2>3. block' = block /\ block = unprocessed[1] /\ 1 \in DOMAIN unprocessed
    BY <2>1, <2>2, BlockStays, BlockIn
  <2>4. CASE BeginQuarter /\ block.quarter # _quarter
    <3>1. 4 * _round + _quarter <= 4 * block.round + block.quarter
      BY <2>3 DEF BlocksInOrder, TimeOf
    <3>2. _round' = block.round /\ _quarter' = block.quarter
      BY <2>4 DEF BeginQuarter
    <3> QED
      BY <1>0, <2>3, <2>4, <3>1, <3>2
  <2>5. CASE pc \in WorkPlaces /\ UNCHANGED <<_round, _quarter>>
    BY <2>3, <2>5 DEF AtWork
  <2> QED
    BY <1>2, <2>4, <2>5, WorkPart
<1>3. pc' \in {"commit", "committing"} => _quarter' = 0
  BY CommitPart DEF AtWork
<1> QED
  BY <1>1, <1>2, <1>3 DEF AtWork

-----------------------------------------------------------------------------
(* The table of the withdrawals. *)

SetsStatus(i, status) == withdrawals' = [withdrawals EXCEPT ![i].status = status]

SameRequest(x, y) ==
    /\ x.id = y.id /\ x.round = y.round /\ x.asset = y.asset /\ x.wallet = y.wallet
    /\ x.amount = y.amount

\* A request is inserted that was not in the table.
RowInserted ==
    /\ onInitiateWithdrawal /\ withdrawalIsNew(block.event)
    /\ withdrawals' = Append(withdrawals, RowOf(block))

\* The rows stay, whatever becomes of their status.
RowsKept ==
    /\ DOMAIN withdrawals' = DOMAIN withdrawals
    /\ \A i \in DOMAIN withdrawals : SameRequest(withdrawals'[i], withdrawals[i])

\* A row is inserted, or the status of one is set, or nothing happens to the table.
LEMMA RowsPart ==
    ASSUME OperatorTypeOK, [OpNext]_opVars
    PROVE  \/ RowInserted
           \/ bookWithdrawal /\ SetsStatus(row, "pending")
           \/ /\ cancelWithdrawalInLedger
              /\ \E i \in WithdrawalsOf(request.asset, request.wallet, {"unchecked", "pending"}) :
                    SetsStatus(i, "canceled")
           \/ \E c \in Clients, t \in Tokens :
                 /\ claimWithdrawal(c, t) /\ up
                 /\ \E i \in WithdrawalsOf(t, c, {"pending"}) : SetsStatus(i, "confirmed")
           \/ withdrawals' = withdrawals
<1>0. DOMAIN withdrawals \in SUBSET Nat
  BY DEF OperatorTypeOK
<1>1. CASE onInitiateWithdrawal
  <2>1. CASE withdrawalIsNew(block.event)
    BY <1>1, <2>1 DEF onInitiateWithdrawal, RowInserted, RowOf
  <2>2. CASE ~withdrawalIsNew(block.event)
    BY <1>1, <2>2 DEF onInitiateWithdrawal
  <2> QED
    BY <2>1, <2>2
<1>2. CASE bookWithdrawal
  BY <1>2 DEF bookWithdrawal, SetsStatus
<1>3. CASE cancelWithdrawalInLedger
  <2> DEFINE rows == WithdrawalsOf(request.asset, request.wallet, {"unchecked", "pending"})
  <2>1. CASE rows = {}
    BY <1>3, <2>1, Zenon DEF cancelWithdrawalInLedger
  <2>2. CASE rows # {}
    <3>1. rows \in SUBSET Nat
      BY <1>0, Zenon DEF WithdrawalsOf
    <3>2. SetsStatus(Min(rows), "canceled")
      BY <1>3, <2>2, Zenon DEF cancelWithdrawalInLedger, SetsStatus
    <3> HIDE DEF rows
    <3>3. Min(rows) \in rows
      BY <2>2, <3>1, LeastIsIn
    <3> QED
      BY <1>3, <3>2, <3>3, Zenon DEF rows
  <2> QED
    BY <2>1, <2>2
<1>4. ASSUME NEW c \in Clients, NEW t \in Tokens, claimWithdrawal(c, t)
      PROVE  \/ up /\ \E i \in WithdrawalsOf(t, c, {"pending"}) : SetsStatus(i, "confirmed")
             \/ withdrawals' = withdrawals
  <2> DEFINE rows == WithdrawalsOf(t, c, {"pending"})
  <2>1. CASE ~(up /\ rows # {})
    BY <1>4, <2>1 DEF claimWithdrawal
  <2>2. CASE up /\ rows # {}
    <3>1. rows \in SUBSET Nat
      BY <1>0 DEF WithdrawalsOf
    <3>2. SetsStatus(Min(rows), "confirmed")
      BY <1>4, <2>2, Zenon DEF claimWithdrawal, SetsStatus
    <3> HIDE DEF rows
    <3>3. Min(rows) \in rows
      BY <2>2, <3>1, LeastIsIn, Zenon
    <3> QED
      BY <2>2, <3>2, <3>3 DEF rows
  <2> QED
    BY <2>1, <2>2
<1>5. CASE onDeposit \/ OrderStep
  BY <1>5, Zenon DEF onDeposit, OrderStep, insertOrder, cancelOrder
<1> QED
  BY <1>1, <1>2, <1>3, <1>4, <1>5, LedgerPart DEF ClaimStep

\* What setting a status changes and what it does not.
LEMMA StatusSet ==
    ASSUME OperatorTypeOK, NEW i \in DOMAIN withdrawals,
           NEW status \in {"unchecked", "pending", "confirmed", "canceled"},
           SetsStatus(i, status)
    PROVE  /\ DOMAIN withdrawals' = DOMAIN withdrawals /\ withdrawals[i] \in Withdrawal
           /\ withdrawals'[i].status = status /\ SameRequest(withdrawals'[i], withdrawals[i])
           /\ withdrawals'[i] = [withdrawals[i] EXCEPT !.status = status]
           /\ \A j \in DOMAIN withdrawals \ {i} : withdrawals'[j] = withdrawals[j]
           /\ RowsKept
<1> DEFINE next == [withdrawals EXCEPT ![i].status = status]
           changed == [withdrawals[i] EXCEPT !.status = status]
<1>1. withdrawals[i] \in Withdrawal
  BY DEF OperatorTypeOK
<1>2. changed.status = status /\ SameRequest(changed, withdrawals[i])
  BY <1>1 DEF Withdrawal, SameRequest
<1>3. /\ DOMAIN next = DOMAIN withdrawals /\ next[i] = changed
      /\ \A j \in DOMAIN withdrawals \ {i} : next[j] = withdrawals[j]
  BY RowChange
<1>4. withdrawals' = next
  BY DEF SetsStatus
<1> HIDE DEF next, changed
<1>5. \A j \in DOMAIN withdrawals : SameRequest(withdrawals'[j], withdrawals[j])
  BY <1>2, <1>3, <1>4 DEF SameRequest
<1> QED
  BY <1>1, <1>2, <1>3, <1>4, <1>5 DEF RowsKept, changed

\* No row is removed or becomes that of another request.
LEMMA RowsStay ==
    ASSUME OperatorTypeOK, [OpNext]_opVars
    PROVE  RowInserted \/ RowsKept
<1>1. ASSUME NEW i \in DOMAIN withdrawals,
             NEW status \in {"unchecked", "pending", "confirmed", "canceled"},
             SetsStatus(i, status)
      PROVE  RowsKept
  BY <1>1, StatusSet
<1>2. CASE bookWithdrawal /\ SetsStatus(row, "pending")
  <2>1. row \in DOMAIN withdrawals
    BY <1>2, RowIn DEF bookWithdrawal, Moderating
  <2> QED
    BY <1>1, <1>2, <2>1
<1>3. ASSUME NEW t, NEW c, NEW statuses, NEW i \in WithdrawalsOf(t, c, statuses)
      PROVE  i \in DOMAIN withdrawals
  BY DEF WithdrawalsOf
<1>4. withdrawals' = withdrawals => RowsKept
  BY DEF RowsKept, SameRequest
<1> QED
  BY <1>1, <1>2, <1>3, <1>4, RowsPart

\* What the rows are when one is inserted.
LEMMA RowsAfterInsertion ==
    ASSUME OperatorTypeOK, AtABlock, RowInserted
    PROVE  LET n == Len(withdrawals) + 1
           IN /\ n \in DOMAIN withdrawals' /\ n \notin DOMAIN withdrawals
              /\ DOMAIN withdrawals' = DOMAIN withdrawals \cup {n}
              /\ withdrawals'[n] = RowOf(block)
              /\ \A i \in DOMAIN withdrawals : withdrawals'[i] = withdrawals[i]
              /\ unprocessed # <<>> /\ block = unprocessed[1] /\ 1 \in DOMAIN unprocessed
              /\ IsRequest(1) /\ pc = "event" /\ pc' = "quarter" /\ withdrawalIsNew(block.event)
              /\ block.event.asset \in Tokens /\ block.event.wallet \in Clients
              /\ block.event.amount \in Nat
<1>1. /\ pc = "event" /\ block.event.type = "withdrawal" /\ withdrawalIsNew(block.event)
      /\ pc' = "quarter"
  BY DEF RowInserted, onInitiateWithdrawal, Goto
<1>2. unprocessed # <<>>
  BY <1>1 DEF AtABlock
<1>3. block = unprocessed[1] /\ 1 \in DOMAIN unprocessed /\ block.event \in Event
  BY <1>2, BlockIn
<1>4. withdrawals \in Seq(Withdrawal) /\ withdrawals' = Append(withdrawals, RowOf(block))
  BY DEF OperatorTypeOK, RowInserted
<1>5. /\ block.event.asset \in Tokens /\ block.event.wallet \in Clients
      /\ block.event.amount \in Nat
  BY <1>1, <1>3, EventFields
<1>6. IsRequest(1)
  BY <1>1, <1>3 DEF IsRequest
<1> HIDE DEF block, RowOf
<1> QED
  BY <1>1, <1>2, <1>3, <1>4, <1>5, <1>6

-----------------------------------------------------------------------------
(* The ids of the requests. *)

\* How the process gets beyond the handlers.
LEMMA EventPart ==
    ASSUME [OpNext]_opVars, pc \in {"idle", "event"}, pc' \notin {"idle", "event"}
    PROVE  \/ processBlock /\ block.event.type = "none"
           \/ onDeposit \/ onInitiateWithdrawal \/ onOpenDispute \/ eventFails
<1>1. CASE OwnStep
  BY <1>1, Zenon DEF OwnStep, Start, processBlock, onNewQuarter, moderateWithdrawalRequest,
     approveWithdrawal, processOpenDisputes, goToRound, awaitCommits, commitsDone, Goto
<1>2. CASE DatabaseStep
  BY <1>2, Zenon DEF DatabaseStep, saveDepositRecord, bookWithdrawal, cancelWithdrawalInLedger,
     updateDispute
<1>3. CASE CallStep
  BY <1>3 DEF CallStep, onFailure, requestCancellation, requestClosing
<1>4. CASE Crash \/ saveLastProcessedBlock \/ sendCommit
  BY <1>4 DEF Crash, saveLastProcessedBlock, sendCommit, Goto
<1>5. CASE RejectedStep
  BY <1>5 DEF RejectedStep, commitRejected, Goto
<1>6. CASE UNCHANGED processVars
  BY <1>6 DEF processVars
<1> QED
  BY <1>1, <1>2, <1>3, <1>4, <1>5, <1>6, ProcessPart, Zenon

\* The ids of events are counted upwards.
LEMMA EventsGrow ==
    ASSUME OperatorTypeOK, AtABlock, [OpNext]_opVars
    PROVE  events \in Nat /\ events' \in Nat /\ events <= events'
<1>0. events \in Nat
  BY DEF OperatorTypeOK
<1>1. ASSUME NEW event, Mines(event) PROVE events' \in Nat /\ events <= events'
  BY <1>0, <1>1 DEF Mines
<1>2. CASE saveLastProcessedBlock
  BY <1>0, <1>2, BlocksAfterSaving
<1> QED
  BY <1>0, <1>1, <1>2, BlocksPart, SomethingMines

\* The block whose handlers have run is in the table.
LEMMA HandledStep ==
    ASSUME OperatorTypeOK, DepositsInv, RequestIds, [OpNext]_opVars,
           lost' = 0, pc' \notin {"idle", "event"}, IsRequest(1)', unprocessed' # <<>>
    PROVE  ~withdrawalIsNew(block.event)'
<1>0. AtABlock /\ lost \in Nat
  BY DEF DepositsInv, OperatorTypeOK
<1>1. lost = 0 /\ ~eventFails /\ ~Crash
  <2>1. ~Crash
    BY DEF Crash
  <2>2. ~eventFails
    BY <1>0 DEF eventFails
  <2> QED
    BY <2>1, <2>2, FaultsPart
<1>2. ~saveLastProcessedBlock
  BY DEF saveLastProcessedBlock, Goto
<1>3. pc # "idle" => /\ block' = block /\ block = unprocessed[1] /\ unprocessed # <<>>
                     /\ 1 \in DOMAIN unprocessed
  BY <1>0, <1>2, BlockStays, BlockIn DEF AtABlock
<1>4. pc # "idle" => IsRequest(1) /\ block.event.type = "withdrawal"
  <2> SUFFICES ASSUME pc # "idle" PROVE IsRequest(1)
    BY <1>3 DEF IsRequest
  <2>1. ASSUME NEW event, Mines(event) PROVE unprocessed'[1] = unprocessed[1]
    BY <1>3, <2>1, BlocksAfterMining
  <2>2. unprocessed'[1] = unprocessed[1]
    BY <1>2, <2>1, BlocksPart, SomethingMines
  <2> QED
    BY <2>2 DEF IsRequest
<1>5. ASSUME ~withdrawalIsNew(block.event), pc # "idle" PROVE ~withdrawalIsNew(block.event)'
  <2>1. PICK i \in DOMAIN withdrawals : withdrawals[i].id = block.event.id
    BY <1>5 DEF withdrawalIsNew
  <2>2. i \in DOMAIN withdrawals' /\ withdrawals'[i].id = block.event.id
    <3>1. CASE RowInserted
      BY <1>0, <2>1, <3>1, RowsAfterInsertion
    <3>2. CASE RowsKept
      BY <2>1, <3>2 DEF RowsKept, SameRequest
    <3> QED
      BY <3>1, <3>2, RowsStay
  <2>3. block'.event = block.event
    BY <1>3, <1>5
  <2> QED
    BY <2>2, <2>3 DEF withdrawalIsNew
<1>6. CASE pc \notin {"idle", "event"}
  BY <1>1, <1>4, <1>5, <1>6 DEF RequestIds
<1>7. CASE processBlock /\ block.event.type = "none"
  <2>1. unprocessed' = unprocessed /\ unprocessed # <<>>
    BY <1>7 DEF processBlock, OnlyProcess, chainVars
  <2>2. unprocessed[1].event.type = "withdrawal" /\ block = unprocessed[1]
    BY <2>1, BlockIn DEF IsRequest
  <2> QED
    BY <1>7, <2>2
<1>8. CASE onInitiateWithdrawal
  <2>1. CASE withdrawalIsNew(block.event)
    <3>1. RowInserted /\ pc # "idle"
      BY <1>8, <2>1 DEF onInitiateWithdrawal, RowInserted, RowOf
    <3> DEFINE n == Len(withdrawals) + 1
    <3>2. n \in DOMAIN withdrawals' /\ withdrawals'[n] = RowOf(block)
      BY <1>0, <3>1, RowsAfterInsertion
    <3>3. RowOf(block).id = block.event.id
      BY DEF RowOf
    <3> HIDE DEF n
    <3>4. block'.event = block.event
      BY <1>3, <3>1
    <3> QED
      BY <3>2, <3>3, <3>4 DEF withdrawalIsNew
  <2>2. CASE ~withdrawalIsNew(block.event)
    BY <1>5, <1>8, <2>2 DEF onInitiateWithdrawal
  <2> QED
    BY <2>1, <2>2
<1>9. CASE onDeposit \/ onOpenDispute
  BY <1>4, <1>9 DEF onDeposit, onOpenDispute
<1> QED
  BY <1>1, <1>6, <1>7, <1>8, <1>9, EventPart

\* The ids of the rows stay as they are, and those of the blocks are of their own.
LEMMA RowIdsStep ==
    ASSUME OperatorTypeOK, AtABlock, RequestIds, [OpNext]_opVars
    PROVE  /\ \A i \in DOMAIN withdrawals' : withdrawals'[i].id \in 1..events'
           /\ \A i, j \in DOMAIN withdrawals' :
                 withdrawals'[i].id = withdrawals'[j].id => i = j
<1>0. events \in Nat /\ events' \in Nat /\ events <= events'
  BY EventsGrow
<1>1. CASE RowInserted
  <2> DEFINE n == Len(withdrawals) + 1
  <2>1. /\ DOMAIN withdrawals' = DOMAIN withdrawals \cup {n} /\ n \notin DOMAIN withdrawals
        /\ withdrawals'[n] = RowOf(block)
        /\ \A i \in DOMAIN withdrawals : withdrawals'[i] = withdrawals[i]
        /\ block = unprocessed[1] /\ 1 \in DOMAIN unprocessed
        /\ IsRequest(1) /\ withdrawalIsNew(block.event)
    BY <1>1, RowsAfterInsertion
  <2>2. withdrawals'[n].id = block.event.id
    BY <2>1 DEF RowOf
  <2>3. block.event.id \in 1..events
    BY <2>1 DEF RequestIds
  <2> HIDE DEF n
  <2>4. \A i \in DOMAIN withdrawals : withdrawals[i].id # block.event.id
    BY <2>1 DEF withdrawalIsNew
  <2> QED
    BY <1>0, <2>1, <2>2, <2>3, <2>4 DEF RequestIds
<1>2. CASE RowsKept
  BY <1>0, <1>2 DEF RowsKept, SameRequest, RequestIds
<1> QED
  BY <1>1, <1>2, RowsStay

\* So do those of the blocks under way.
LEMMA BlockIdsStep ==
    ASSUME OperatorTypeOK, AtABlock, RequestIds, [OpNext]_opVars
    PROVE  /\ \A i \in DOMAIN unprocessed' :
                 IsRequest(i)' => unprocessed'[i].event.id \in 1..events'
           /\ \A i, j \in DOMAIN unprocessed' :
                 (IsRequest(i)' /\ IsRequest(j)' /\
                     unprocessed'[i].event.id = unprocessed'[j].event.id) => i = j
<1>0. events \in Nat /\ events' \in Nat /\ events <= events'
  BY EventsGrow
<1>1. ASSUME NEW event, Mines(event)
      PROVE  /\ \A i \in DOMAIN unprocessed' :
                   IsRequest(i)' => unprocessed'[i].event.id \in 1..events'
             /\ \A i, j \in DOMAIN unprocessed' :
                   (IsRequest(i)' /\ IsRequest(j)' /\
                       unprocessed'[i].event.id = unprocessed'[j].event.id) => i = j
  <2>1. PICK n \in Nat :
              /\ DOMAIN unprocessed' = DOMAIN unprocessed \cup {n}
              /\ unprocessed'[n] = BlockOf(event)
              /\ \A i \in DOMAIN unprocessed : unprocessed'[i] = unprocessed[i]
    BY <1>1, BlocksAfterMining
  <2>2. unprocessed'[n].event = event
    BY <2>1 DEF BlockOf
  <2>3. event.type = "withdrawal" => event.id = events + 1 /\ events' = events + 1
    BY <1>1 DEF Mines
  <2>4. IsRequest(n)' => /\ unprocessed'[n].event.id = events + 1 /\ events' = events + 1
    BY <2>2, <2>3 DEF IsRequest
  <2>5. \A i \in DOMAIN unprocessed :
           /\ IsRequest(i)' <=> IsRequest(i)
           /\ IsRequest(i)' => unprocessed'[i].event.id \in 1..events
    BY <2>1 DEF IsRequest, RequestIds
  <2>6. \A i \in DOMAIN unprocessed :
           IsRequest(i)' => unprocessed'[i].event.id # events + 1
    BY <1>0, <2>5
  <2>7. \A i \in DOMAIN unprocessed' :
           IsRequest(i)' => unprocessed'[i].event.id \in 1..events'
    BY <1>0, <2>1, <2>4, <2>5
  <2>8. ASSUME NEW i \in DOMAIN unprocessed', NEW j \in DOMAIN unprocessed',
               IsRequest(i)', IsRequest(j)',
               unprocessed'[i].event.id = unprocessed'[j].event.id
        PROVE  i = j
    <3>1. CASE i \in DOMAIN unprocessed /\ j \in DOMAIN unprocessed
      <4>1. /\ IsRequest(i) /\ IsRequest(j)
            /\ unprocessed[i].event.id = unprocessed[j].event.id
        BY <2>1, <2>5, <2>8, <3>1
      <4> QED
        BY <3>1, <4>1 DEF RequestIds
    <3>2. CASE ~(i \in DOMAIN unprocessed /\ j \in DOMAIN unprocessed)
      BY <2>1, <2>4, <2>6, <2>8, <3>2
    <3> QED
      BY <3>1, <3>2
  <2> QED
    BY <2>7, <2>8
<1>2. CASE saveLastProcessedBlock
  <2>1. /\ \A i \in DOMAIN unprocessed' :
              /\ i \in Nat /\ i + 1 \in DOMAIN unprocessed
              /\ unprocessed'[i] = unprocessed[i + 1]
        /\ events' = events
    BY <1>2, BlocksAfterSaving
  <2>2. \A i \in DOMAIN unprocessed' : IsRequest(i)' => IsRequest(i + 1)
    BY <2>1 DEF IsRequest
  <2>3. ASSUME NEW i \in DOMAIN unprocessed', NEW j \in DOMAIN unprocessed',
               IsRequest(i)', IsRequest(j)',
               unprocessed'[i].event.id = unprocessed'[j].event.id
        PROVE  i = j
    <3>1. i + 1 = j + 1 /\ i \in Nat /\ j \in Nat
      BY <2>1, <2>2, <2>3 DEF RequestIds
    <3> QED
      BY <3>1
  <2>4. \A i \in DOMAIN unprocessed' :
           IsRequest(i)' => unprocessed'[i].event.id \in 1..events'
    BY <2>1, <2>2 DEF RequestIds
  <2> QED
    BY <2>3, <2>4
<1>3. CASE UNCHANGED <<unprocessed, events>>
  BY <1>3 DEF RequestIds, IsRequest
<1> QED
  BY <1>1, <1>2, <1>3, BlocksPart, SomethingMines

\* No two rows and no two blocks ever share an id.
LEMMA RequestIdsStep ==
    ASSUME OperatorTypeOK, DepositsInv, DepositsInv', RequestIds, [OpNext]_opVars
    PROVE  RequestIds'
<1>1. AtABlock
  BY DEF DepositsInv
<1>2. ASSUME lost' = 0, pc' \notin {"idle", "event"}, IsRequest(1)'
      PROVE  ~withdrawalIsNew(block.event)'
  <2>1. unprocessed' # <<>>
    BY <1>2 DEF DepositsInv, AtABlock
  <2> QED
    BY <1>2, <2>1, HandledStep
<1> QED
  BY <1>1, <1>2, RowIdsStep, BlockIdsStep DEF RequestIds

\* The order of the blocks, the work of the quarters and the ids stay as they are said
\* to be, whatever happens.
LEMMA OrderStays ==
    ASSUME OperatorTypeOK, OperatorTypeOK', DepositsInv, DepositsInv', OrderInv,
           [OpNext]_opVars
    PROVE  OrderInv'
<1>1. BlocksInOrder /\ AtWork /\ RequestIds /\ approvals \subseteq Approvals /\ AtABlock
  BY DEF OrderInv, DepositsInv
<1>2. approvals' \subseteq Approvals
  <2>1. CASE OrderStep
    <3>1. PICK a \in Approvals : insertOrder(a) \/ cancelOrder(a)
      BY <2>1 DEF OrderStep
    <3>2. approvals' = approvals \cup {a} \/ approvals' = approvals
      BY <3>1, Zenon DEF insertOrder, cancelOrder
    <3> QED
      BY <1>1, <3>2
  <2>2. CASE onDeposit \/ onInitiateWithdrawal \/ bookWithdrawal \/ cancelWithdrawalInLedger
             \/ ClaimStep
    BY <1>1, <2>2, Zenon DEF onDeposit, onInitiateWithdrawal, bookWithdrawal,
       cancelWithdrawalInLedger, ClaimStep, claimWithdrawal, orderVars
  <2> QED
    BY <1>1, <2>1, <2>2, LedgerPart
<1>3. BlocksInOrder' /\ AtWork' /\ RequestIds'
  BY <1>1, BlocksInOrderStep, AtWorkStep, RequestIdsStep
<1> QED
  BY <1>2, <1>3 DEF OrderInv

-----------------------------------------------------------------------------
(* Opening balances, as sums of what every round adds. *)

Before(r) == {k \in Rounds : k < r}

LedgerFlow(t, c) ==
    [k \in Rounds |-> accounts[k][t][c].deposited - accounts[k][t][c].withdrawn]

ChainFlow(t, c) == [k \in Rounds |-> clientDeposits[k][t][c] - Requested(k, t, c)]

\* The opening balance is the sum of what the rounds before have added.
LEMMA OpeningIs ==
    ASSUME NEW t, NEW c, NEW r
    PROVE  openingBalance(t, c, r) = SumFunctionOnSet(LedgerFlow(t, c), Before(r))
BY ZenonT(60) DEF LedgerFlow, Before, openingBalance, Sum, MapThenSumSet, SumFunctionOnSet,
   FoldFunctionOnSet, MapThenFoldSet

LEMMA OpeningIsNext ==
    ASSUME NEW t, NEW c, NEW r
    PROVE  openingBalance(t, c, r)' = SumFunctionOnSet(LedgerFlow(t, c)', Before(r))
BY ZenonT(60) DEF LedgerFlow, Before, openingBalance, Sum, MapThenSumSet, SumFunctionOnSet,
   FoldFunctionOnSet, MapThenFoldSet

LEMMA ChainOpeningIs ==
    ASSUME NEW t, NEW c, NEW r
    PROVE  ChainOpening(t, c, r) = SumFunctionOnSet(ChainFlow(t, c), Before(r))
BY DEF ChainOpening, ChainFlow, Before

\* The rounds before the next one are those before this one and this one.
LEMMA BeforeOK ==
    ASSUME NEW r
    PROVE  /\ IsFiniteSet(Before(r)) /\ Before(r) \subseteq Rounds
           /\ r \in Rounds => /\ r \notin Before(r)
                              /\ r + 1 \in Int /\ Before(r + 1) = Before(r) \cup {r}
<1>1. MaxRound \in Nat /\ Rounds = 0..MaxRound
  BY ConstantsAssumption DEF Rounds
<1>2. IsFiniteSet(Rounds)
  BY <1>1, FS_Interval
<1>3. Before(r) \subseteq Rounds
  BY DEF Before
<1>4. IsFiniteSet(Before(r))
  BY <1>2, <1>3, FS_Subset
<1> QED
  BY <1>1, <1>3, <1>4 DEF Before

LEMMA LedgerFlowOK ==
    ASSUME OperatorTypeOK, NEW t \in Tokens, NEW c \in Clients
    PROVE  \A k \in Rounds : LedgerFlow(t, c)[k] \in Int
<1>1. ASSUME NEW k \in Rounds PROVE accounts[k][t][c] \in Account
  BY DEF OperatorTypeOK
<1> QED
  BY <1>1 DEF LedgerFlow, Account

LEMMA RequestedOK ==
    ASSUME TypeOK, NEW t \in Tokens, NEW c \in Clients, NEW k \in Rounds
    PROVE  /\ Requested(k, t, c) \in Nat /\ clientDeposits[k][t][c] \in Nat
           /\ clientRequestedWithdrawals[k][t][c] \in [amount : Nat, openingBalance : Nat]
<1>1. /\ clientRequestedWithdrawals[k][t][c] \in [amount : Nat, openingBalance : Nat]
      /\ clientDeposits[k][t][c] \in Nat
  BY DEF TypeOK
<1> QED
  BY <1>1 DEF Requested

LEMMA ChainFlowOK ==
    ASSUME TypeOK, NEW t \in Tokens, NEW c \in Clients
    PROVE  /\ \A k \in Rounds : ChainFlow(t, c)[k] \in Int
           /\ \A k \in Rounds :
                 ChainFlow(t, c)[k] = clientDeposits[k][t][c] - Requested(k, t, c)
BY RequestedOK DEF ChainFlow

LEMMA OpeningOK ==
    ASSUME OperatorTypeOK, NEW t \in Tokens, NEW c \in Clients, NEW r
    PROVE  openingBalance(t, c, r) \in Int
<1>1. IsFiniteSet(Before(r)) /\ \A k \in Before(r) : LedgerFlow(t, c)[k] \in Int
  BY LedgerFlowOK, BeforeOK
<1> QED
  BY <1>1, SumInt, OpeningIs

LEMMA ChainOpeningOK ==
    ASSUME TypeOK, NEW t \in Tokens, NEW c \in Clients, NEW r
    PROVE  ChainOpening(t, c, r) \in Int
<1>1. IsFiniteSet(Before(r)) /\ \A k \in Before(r) : ChainFlow(t, c)[k] \in Int
  BY ChainFlowOK, BeforeOK
<1> QED
  BY <1>1, SumInt, ChainOpeningIs

\* The opening balance is that of the round before and what the round adds.
LEMMA ChainOpeningOfNext ==
    ASSUME TypeOK, NEW t \in Tokens, NEW c \in Clients, NEW r \in Rounds
    PROVE  ChainOpening(t, c, r + 1) =
              ChainOpening(t, c, r) + (clientDeposits[r][t][c] - Requested(r, t, c))
<1> DEFINE f == ChainFlow(t, c)
           A == SumFunctionOnSet(f, Before(r))
<1>1. /\ IsFiniteSet(Before(r)) /\ r \notin Before(r) /\ Before(r + 1) = Before(r) \cup {r}
      /\ IsFiniteSet(Before(r + 1)) /\ Before(r + 1) \subseteq Rounds
  BY BeforeOK
<1>2. /\ \A k \in Before(r + 1) : f[k] \in Int
      /\ f[r] = clientDeposits[r][t][c] - Requested(r, t, c)
  BY <1>1, ChainFlowOK
<1>3. Before(r + 1) \ {r} = Before(r) /\ r \in Before(r + 1)
  BY <1>1
<1>4. A \in Int /\ A = ChainOpening(t, c, r)
  BY ChainOpeningOK, ChainOpeningIs
<1>5. SumFunctionOnSet(f, Before(r + 1)) = f[r] + A
  <2> HIDE DEF f
  <2> QED
    BY <1>1, <1>2, <1>3, SumTakeOut
<1>6. f[r] \in Int /\ f[r] + A = A + f[r]
  <2> HIDE DEF f, A
  <2> QED
    BY <1>2, <1>3, <1>4
<1> QED
  BY <1>2, <1>4, <1>5, <1>6, ChainOpeningIs

-----------------------------------------------------------------------------
(* What the books assume, held before whenever it holds after. *)

LEMMA OrdersStay ==
    ASSUME [OpNext]_opVars
    PROVE  approvals \subseteq approvals'
<1>1. CASE OrderStep
  BY <1>1, Zenon DEF OrderStep, insertOrder, cancelOrder
<1>2. CASE onDeposit \/ onInitiateWithdrawal \/ bookWithdrawal \/ cancelWithdrawalInLedger
           \/ ClaimStep
  BY <1>2, Zenon DEF onDeposit, onInitiateWithdrawal, bookWithdrawal,
     cancelWithdrawalInLedger, ClaimStep, claimWithdrawal, orderVars
<1> QED
  BY <1>1, <1>2, LedgerPart, Zenon

\* Events lost stay lost, and a crash after which no order has been made came before
\* any.
LEMMA WholeBefore ==
    ASSUME OperatorTypeOK, [OpNext]_opVars
    PROVE  /\ Whole' => Whole /\ ~eventFails /\ (Crash => approvals = {} /\ approvals' = {})
           /\ CrashFree' => CrashFree /\ ~Crash /\ ~eventFails
           /\ CrashFree => Whole
<1>0. lost \in Nat /\ crashes \in Nat
  BY DEF OperatorTypeOK
<1>1. approvals \subseteq approvals'
  BY OrdersStay
<1>2. CASE Crash
  <2>1. crashes' = crashes + 1 /\ lost' = lost
    BY <1>2 DEF Crash
  <2>2. ~eventFails
    BY <1>2 DEF eventFails, Crash
  <2> QED
    BY <1>0, <1>1, <2>1, <2>2 DEF Whole, CrashFree, CancellationsAreWhole
<1>3. CASE eventFails
  <2>1. lost' = lost + 1
    BY <1>3 DEF eventFails
  <2> QED
    BY <1>0, <2>1 DEF Whole, CrashFree, CancellationsAreWhole
<1>4. CASE UNCHANGED <<crashes, lost>>
  <2>1. ~Crash /\ ~eventFails
    BY <1>0, <1>4 DEF Crash, eventFails
  <2> QED
    BY <1>1, <1>4, <2>1 DEF Whole, CrashFree, CancellationsAreWhole
<1> QED
  BY <1>2, <1>3, <1>4, FaultsPart

(* Moderation. *)

Moderates == {"moderate"} \cup Moderating

CancelsOnChain ==
    /\ requestCancellation /\ pc' = "cancelled" /\ todo' = todo
    /\ cancelWithdrawal(request.wallet, request.asset, ShownApprovals(request))

\* How the process moderates.
LEMMA ModerationPart ==
    ASSUME [OpNext]_opVars, pc' \in Moderates
    PROVE  \/ onNewQuarter /\ pc' = "moderate" /\ todo' = uncheckedWithdrawals /\ pc = "quarter"
           \/ /\ pc \in Moderates /\ UNCHANGED <<_round, _quarter>>
              /\ \/ pc' = pc /\ todo' = todo
                 \/ moderateWithdrawalRequest /\ todo' = todo /\ pc = "moderate"
                 \/ approveWithdrawal /\ todo' = todo /\ pc = "approve" /\ pc' = "book"
                 \/ /\ bookWithdrawal \/ cancelWithdrawalInLedger
                    /\ pc' = "moderate" /\ todo' = todo \ {row}
                 \/ CancelsOnChain
                 \/ /\ requestCancellation /\ pc' = "moderate" /\ todo' = todo \ {row}
                    /\ pc = "cancel"
<1> USE DEF Moderates, Moderating
<1>1. CASE OwnStep
  BY <1>1, Zenon DEF OwnStep, Start, processBlock, onNewQuarter, moderateWithdrawalRequest,
     approveWithdrawal, processOpenDisputes, goToRound, awaitCommits, commitsDone, Goto
<1>2. CASE DatabaseStep
  BY <1>2, Zenon DEF DatabaseStep, onDeposit, saveDepositRecord, onInitiateWithdrawal, onOpenDispute,
     bookWithdrawal, cancelWithdrawalInLedger, updateDispute, Goto, NextItem
<1>3. CASE CallStep
  BY <1>3 DEF CallStep, onFailure, requestCancellation, requestClosing, CancellationFailed,
     CancelsOnChain, Goto, NextItem
<1>4. CASE Crash \/ eventFails \/ saveLastProcessedBlock \/ sendCommit
  BY <1>4 DEF Crash, eventFails, saveLastProcessedBlock, sendCommit, Goto, NextItem
<1>5. CASE RejectedStep
  BY <1>5 DEF RejectedStep, commitRejected, Goto
<1>6. CASE UNCHANGED processVars
  BY <1>6 DEF processVars
<1> QED
  BY <1>1, <1>2, <1>3, <1>4, <1>5, <1>6, ProcessPart

\* A cancellation that is begun on the chain is ended in the ledger.
LEMMA CancelledStays ==
    ASSUME AtABlock, [OpNext]_opVars, pc = "cancelled"
    PROVE  cancelWithdrawalInLedger \/ Crash \/ (pc' = pc /\ todo' = todo)
<1>1. CASE OwnStep
  BY <1>1, Zenon DEF AtABlock, OwnStep, Start, processBlock, onNewQuarter, moderateWithdrawalRequest,
     approveWithdrawal, processOpenDisputes, goToRound, awaitCommits, commitsDone, Goto
<1>2. CASE DatabaseStep
  BY <1>2, Zenon DEF DatabaseStep, onDeposit, saveDepositRecord, onInitiateWithdrawal, onOpenDispute,
     bookWithdrawal, cancelWithdrawalInLedger, updateDispute, Goto, NextItem
<1>3. CASE CallStep
  BY <1>3 DEF CallStep, onFailure, requestCancellation, requestClosing, CancellationFailed,
     CancelsOnChain, Goto, NextItem
<1>4. CASE Crash \/ eventFails \/ saveLastProcessedBlock \/ sendCommit
  BY <1>4 DEF Crash, eventFails, saveLastProcessedBlock, sendCommit, Goto, NextItem
<1>5. CASE RejectedStep
  BY <1>5 DEF RejectedStep, commitRejected, Goto
<1>6. CASE UNCHANGED processVars
  BY <1>6 DEF processVars
<1> QED
  BY <1>1, <1>2, <1>3, <1>4, <1>5, <1>6, ProcessPart

-----------------------------------------------------------------------------
(* What the proofs of the books start from, and the requests that stand. *)

BooksStep ==
    /\ OperatorTypeOK /\ OperatorTypeOK' /\ DepositsInv /\ DepositsInv' /\ OrderInv /\ OrderInv'
    /\ Whole /\ ContractInv /\ LedgerInv /\ (CrashFree => CrashFreeInv)
    /\ [OpNext]_opVars

BooksState ==
    /\ OperatorTypeOK /\ DepositsInv /\ OrderInv
    /\ Whole /\ ContractInv /\ LedgerInv /\ (CrashFree => CrashFreeInv)

(* The requests that stand. *)

LEMMA IsStanding ==
    ASSUME NEW x
    PROVE  x \in Standing <=> \/ \E i \in LiveRows : x = withdrawals[i]
                              \/ \E i \in Coming : x = RowOf(unprocessed[i])
BY DEF Standing

\* The request of a block under way, as a row.
LEMMA ComingIn ==
    ASSUME OperatorTypeOK, NEW i \in Coming
    PROVE  /\ i \in DOMAIN unprocessed /\ IsRequest(i) /\ unprocessed[i] \in Block
           /\ RowOf(unprocessed[i]) \in Withdrawal
           /\ RowOf(unprocessed[i]).status = "unchecked"
           /\ RowOf(unprocessed[i]).id = unprocessed[i].event.id
           /\ RowOf(unprocessed[i]).round = unprocessed[i].round
           /\ RowOf(unprocessed[i]).asset = unprocessed[i].event.asset
           /\ RowOf(unprocessed[i]).wallet = unprocessed[i].event.wallet
           /\ RowOf(unprocessed[i]).amount = unprocessed[i].event.amount
<1> DEFINE b == unprocessed[i]
<1>1. i \in DOMAIN unprocessed /\ IsRequest(i)
  BY DEF Coming
<1>2. b \in Block
  BY <1>1 DEF OperatorTypeOK
<1>3. b.event \in Event /\ b.round \in Rounds /\ b.event.type = "withdrawal"
  BY <1>1, <1>2 DEF Block, IsRequest
<1>4. b.event.id \in Nat /\ b.event.asset \in Tokens /\ b.event.wallet \in Clients
      /\ b.event.amount \in Nat
  BY <1>3, EventFields
<1> HIDE DEF b
<1>5. RowOf(b) \in Withdrawal
  BY <1>3, <1>4 DEF RowOf, Withdrawal
<1> QED
  BY <1>1, <1>2, <1>5 DEF RowOf, b

\* The row of a request that stands.
LEMMA LiveIn ==
    ASSUME OperatorTypeOK, NEW i \in LiveRows
    PROVE  i \in DOMAIN withdrawals /\ i \in Nat /\ withdrawals[i] \in Withdrawal
           /\ withdrawals[i].status \in {"unchecked", "pending", "confirmed"}
<1>1. i \in DOMAIN withdrawals
  BY DEF LiveRows
<1>2. withdrawals[i] \in Withdrawal /\ i \in Nat
  BY <1>1 DEF OperatorTypeOK
<1> QED
  BY <1>1, <1>2 DEF LiveRows, Withdrawal

\* The types of a request that stands.
LEMMA StandingIn ==
    ASSUME OperatorTypeOK, NEW x \in Standing
    PROVE  /\ x \in Withdrawal /\ x.round \in Rounds /\ x.asset \in Tokens /\ x.wallet \in Clients
           /\ x.amount \in Nat /\ x.id \in Nat
           /\ x.status \in {"unchecked", "pending", "confirmed"}
<1>1. x \in Withdrawal /\ x.status \in {"unchecked", "pending", "confirmed"}
  BY IsStanding, ComingIn, LiveIn
<1> QED
  BY <1>1 DEF Withdrawal

\* A request that stands is known by its id.
LEMMA StandingById ==
    ASSUME OperatorTypeOK, RequestIds, NEW x \in Standing, NEW y \in Standing, x.id = y.id
    PROVE  x = y
<1>1. CASE \E i, j \in LiveRows : x = withdrawals[i] /\ y = withdrawals[j]
  BY <1>1, LiveIn DEF RequestIds
<1>2. CASE \E i, j \in Coming : x = RowOf(unprocessed[i]) /\ y = RowOf(unprocessed[j])
  BY <1>2, ComingIn DEF RequestIds
<1>3. ASSUME NEW i \in LiveRows, NEW j \in Coming
      PROVE  withdrawals[i].id # RowOf(unprocessed[j]).id
  BY <1>3, LiveIn, ComingIn DEF Coming, withdrawalIsNew
<1> QED
  BY <1>1, <1>2, <1>3, IsStanding

\* A row that stands is no other row.
LEMMA RowById ==
    ASSUME OperatorTypeOK, RequestIds, NEW i \in DOMAIN withdrawals, NEW x \in Standing,
           x.id = withdrawals[i].id
    PROVE  i \in LiveRows /\ x = withdrawals[i]
<1>1. ASSUME NEW j \in Coming PROVE RowOf(unprocessed[j]).id # withdrawals[i].id
  BY <1>1, ComingIn DEF Coming, withdrawalIsNew
<1>2. ASSUME NEW j \in LiveRows, withdrawals[j].id = withdrawals[i].id PROVE i = j
  BY <1>2, LiveIn DEF RequestIds
<1> QED
  BY <1>1, <1>2, IsStanding

\* What is being moderated stands and is unchecked.
LEMMA RequestStands ==
    ASSUME OperatorTypeOK, Moderation, pc \in {"approve", "book", "cancel"}
    PROVE  /\ row \in LiveRows /\ request \in Standing /\ request.status = "unchecked"
           /\ row \in DOMAIN withdrawals /\ request = withdrawals[row] /\ row \in todo
<1>1. row \in todo /\ row \in DOMAIN withdrawals
  BY RowIn DEF Moderating
<1>2. withdrawals[row].status = "unchecked"
  BY <1>1 DEF Moderation, Moderating
<1>3. row \in LiveRows
  BY <1>1, <1>2 DEF LiveRows
<1>4. request = withdrawals[row]
  BY DEF request
<1> HIDE DEF row, request
<1> QED
  BY <1>1, <1>2, <1>3, <1>4, IsStanding

Taken == {withdrawals[i].id : i \in DOMAIN withdrawals}

\* The requests to come, by the ids in the table.
LEMMA ComingIs ==
    /\ \A e : withdrawalIsNew(e) <=> e.id \notin Taken
    /\ \A i : i \in Coming <=> /\ i \in DOMAIN unprocessed
                               /\ unprocessed[i].event.type = "withdrawal"
                               /\ unprocessed[i].event.id \notin Taken
BY DEF Coming, IsRequest, withdrawalIsNew, Taken

LEMMA ComingIsNext ==
    \A i : i \in Coming' <=> /\ i \in DOMAIN unprocessed'
                            /\ unprocessed'[i].event.type = "withdrawal"
                            /\ unprocessed'[i].event.id \notin Taken'
BY DEF Coming, IsRequest, withdrawalIsNew, Taken

\* What leaves the table and the cancellation alone leaves the rows that stand alone.
LEMMA LiveSame ==
    ASSUME withdrawals' = withdrawals,
           (pc # "cancelled" /\ pc' # "cancelled") \/ UNCHANGED <<pc, todo>>
    PROVE  LiveRows' = LiveRows
<1>1. CASE pc # "cancelled" /\ pc' # "cancelled"
  BY <1>1 DEF LiveRows
<1>2. CASE UNCHANGED <<pc, todo>>
  BY <1>2 DEF LiveRows, row
<1> QED
  BY <1>1, <1>2

\* And the requests that stand, when no block is mined or saved.
LEMMA StandingSame ==
    ASSUME withdrawals' = withdrawals, unprocessed' = unprocessed,
           (pc # "cancelled" /\ pc' # "cancelled") \/ UNCHANGED <<pc, todo>>
    PROVE  Standing' = Standing
<1>1. LiveRows' = LiveRows
  BY LiveSame
<1>2. Coming' = Coming
  BY DEF Coming, IsRequest, withdrawalIsNew
<1> QED
  BY <1>1, <1>2 DEF Standing, RowOf

\* A request that is mined stands.
LEMMA StandingAfterMining ==
    ASSUME OperatorTypeOK, RequestIds, NEW event, Mines(event)
    PROVE  Standing' = IF event.type = "withdrawal" THEN Standing \cup {RowOf(BlockOf(event))}
                                                    ELSE Standing
<1>1. LiveRows' = LiveRows /\ withdrawals' = withdrawals
  BY LiveSame DEF Mines
<1>2. PICK n : /\ DOMAIN unprocessed' = DOMAIN unprocessed \cup {n}
               /\ n \notin DOMAIN unprocessed
               /\ unprocessed'[n] = BlockOf(event)
               /\ \A i \in DOMAIN unprocessed : unprocessed'[i] = unprocessed[i]
  BY BlocksAfterMining
<1>3. Taken' = Taken
  BY <1>1 DEF Taken
<1>4. BlockOf(event).event = event
  BY DEF BlockOf
<1>5. event.type = "withdrawal" => event.id \notin Taken
  <2>1. events \in Nat /\ (event.type = "withdrawal" => event.id = events + 1)
    BY DEF Mines, OperatorTypeOK
  <2>2. \A i \in DOMAIN withdrawals : withdrawals[i].id \in 1..events
    BY DEF RequestIds
  <2> QED
    BY <2>1, <2>2 DEF Taken
<1>6. Coming' = IF event.type = "withdrawal" THEN Coming \cup {n} ELSE Coming
  <2>1. n \in Coming' <=> event.type = "withdrawal"
    BY <1>2, <1>3, <1>4, <1>5, ComingIsNext
  <2>2. \A i : i # n => (i \in Coming' <=> i \in Coming)
    BY <1>2, <1>3, ComingIs, ComingIsNext
  <2>3. n \notin Coming
    BY <1>2, ComingIs
  <2> QED
    BY <2>1, <2>2, <2>3
<1>7. Standing' = {withdrawals[i] : i \in LiveRows} \cup {RowOf(unprocessed'[i]) : i \in Coming'}
  BY <1>1 DEF Standing, RowOf
<1>8. \A i \in Coming : unprocessed'[i] = unprocessed[i]
  BY <1>2 DEF Coming
<1> QED
  BY <1>2, <1>6, <1>7, <1>8 DEF Standing

\* The block saved has been handled: its request has a row.
LEMMA StandingAfterSaving ==
    ASSUME OperatorTypeOK, AtABlock, RequestIds, lost = 0, saveLastProcessedBlock
    PROVE  Standing' = Standing
<1>1. /\ \A i \in DOMAIN unprocessed' :
            i \in Nat /\ i + 1 \in DOMAIN unprocessed /\ unprocessed'[i] = unprocessed[i + 1]
      /\ \A i \in DOMAIN unprocessed : i \in Nat /\ (i # 1 => i - 1 \in DOMAIN unprocessed')
      /\ unprocessed # <<>> /\ block = unprocessed[1]
      /\ pc = "save" /\ pc' = "idle" /\ withdrawals' = withdrawals
  BY BlocksAfterSaving
<1>2. LiveRows' = LiveRows
  BY <1>1, LiveSame
<1>3. Taken' = Taken
  BY <1>1 DEF Taken
<1>4. 1 \notin Coming
  BY <1>1 DEF RequestIds, Coming
<1>7. \A i \in Coming' : i + 1 \in Coming /\ unprocessed'[i] = unprocessed[i + 1]
  BY <1>1, <1>3, ComingIs, ComingIsNext
<1>8. \A i \in Coming : i - 1 \in Coming' /\ unprocessed'[i - 1] = unprocessed[i]
  <2> SUFFICES ASSUME NEW i \in Coming
               PROVE  i - 1 \in Coming' /\ unprocessed'[i - 1] = unprocessed[i]
    OBVIOUS
  <2>1. i \in DOMAIN unprocessed /\ i # 1 /\ i \in Nat
    BY <1>1, <1>4, ComingIs
  <2>2. i - 1 \in DOMAIN unprocessed' /\ (i - 1) + 1 = i
    BY <1>1, <2>1
  <2>3. unprocessed'[i - 1] = unprocessed[i]
    BY <1>1, <2>2
  <2> QED
    BY <1>3, <2>2, <2>3, ComingIs, ComingIsNext
<1>9. Standing' = {withdrawals[i] : i \in LiveRows} \cup {RowOf(unprocessed'[i]) : i \in Coming'}
  BY <1>1, <1>2 DEF Standing, RowOf
<1>10. {RowOf(unprocessed'[i]) : i \in Coming'} = {RowOf(unprocessed[i]) : i \in Coming}
  <2>1. \A i \in Coming' : \E j \in Coming : unprocessed'[i] = unprocessed[j]
    BY <1>7
  <2>2. \A j \in Coming : \E i \in Coming' : unprocessed'[i] = unprocessed[j]
    BY <1>8
  <2> QED
    BY <2>1, <2>2
<1> QED
  BY <1>9, <1>10 DEF Standing

\* A request that becomes a row stands as before.
LEMMA StandingAfterInsertion ==
    ASSUME OperatorTypeOK, AtABlock, RequestIds, RowInserted
    PROVE  Standing' = Standing
<1>1. PICK n : /\ n \in DOMAIN withdrawals' /\ n \notin DOMAIN withdrawals
               /\ DOMAIN withdrawals' = DOMAIN withdrawals \cup {n}
               /\ withdrawals'[n] = RowOf(block)
               /\ \A i \in DOMAIN withdrawals : withdrawals'[i] = withdrawals[i]
  BY RowsAfterInsertion
<1>2. /\ unprocessed # <<>> /\ block = unprocessed[1] /\ 1 \in DOMAIN unprocessed
      /\ IsRequest(1) /\ pc = "event" /\ pc' = "quarter" /\ withdrawalIsNew(block.event)
  BY RowsAfterInsertion
<1>3. unprocessed' = unprocessed
  BY DEF RowInserted, onInitiateWithdrawal, InDatabase, chainVars
<1>4. LiveRows' = LiveRows \cup {n}
  <2>1. RowOf(block).status = "unchecked"
    BY DEF RowOf
  <2>2. LiveRows' = {i \in DOMAIN withdrawals' : withdrawals'[i].status # "canceled"}
    BY <1>2 DEF LiveRows
  <2>3. LiveRows = {i \in DOMAIN withdrawals : withdrawals[i].status # "canceled"}
    BY <1>2 DEF LiveRows
  <2> QED
    BY <1>1, <2>1, <2>2, <2>3
<1>5. Coming' = Coming \ {1} /\ 1 \in Coming
  <2>1. RowOf(block).id = block.event.id
    BY DEF RowOf
  <2>2. Taken' = Taken \cup {block.event.id}
    BY <1>1, <2>1 DEF Taken
  <2>3. \A i \in DOMAIN unprocessed : unprocessed[i].event.type = "withdrawal" =>
           (unprocessed[i].event.id = block.event.id <=> i = 1)
    BY <1>2 DEF RequestIds, IsRequest
  <2>4. \A i : i \in Coming' <=> i \in Coming /\ i # 1
    BY <1>3, <2>2, <2>3, ComingIs, ComingIsNext
  <2>5. 1 \in Coming
    BY <1>2 DEF Coming
  <2> QED
    BY <2>4, <2>5
<1>6. Standing' = {withdrawals'[i] : i \in LiveRows'} \cup {RowOf(unprocessed[i]) : i \in Coming'}
  BY <1>3 DEF Standing, RowOf
<1>7. \A i \in LiveRows : withdrawals'[i] = withdrawals[i]
  BY <1>1 DEF LiveRows
<1>8. RowOf(unprocessed[1]) = withdrawals'[n]
  BY <1>1, <1>2
<1> HIDE DEF RowOf
<1> QED
  BY <1>4, <1>5, <1>6, <1>7, <1>8 DEF Standing

\* Between the two halves of a cancellation nothing has crashed, and the row to be
\* canceled is the one that was moderated.
LEMMA InCancellation ==
    ASSUME BooksState, pc = "cancelled"
    PROVE  /\ approvals # {} /\ CrashFree /\ OneAtATime
           /\ WithdrawalsOf(request.asset, request.wallet, {"unchecked", "pending"}) = {row}
           /\ row \in DOMAIN withdrawals /\ row \in todo /\ withdrawals[row].status = "unchecked"
           /\ request = withdrawals[row]
<1>1. approvals # {} /\ Moderation
  BY DEF BooksState, LedgerInv, Moderation
<1>2. CrashFree
  BY <1>1 DEF BooksState, Whole, CancellationsAreWhole, CrashFree
<1>3. OneAtATime
  BY <1>2 DEF BooksState, CrashFreeInv
<1>4. row \in todo /\ row \in DOMAIN withdrawals
  BY RowIn DEF BooksState, Moderating
<1>5. withdrawals[row].status = "unchecked"
  BY <1>1, <1>4 DEF Moderation, Moderating
<1>6. request = withdrawals[row]
  BY DEF request
<1> QED
  BY <1>1, <1>2, <1>3, <1>4, <1>5, <1>6 DEF OneAtATime

Changed(x, status) == [x EXCEPT !.status = status]

\* What a row's new status makes of the requests that stand.
LEMMA StandingAfterStatus ==
    ASSUME OperatorTypeOK, RequestIds, NEW i \in LiveRows, NEW status \in {"pending", "confirmed"},
           SetsStatus(i, status), unprocessed' = unprocessed,
           (pc # "cancelled" /\ pc' # "cancelled") \/ UNCHANGED <<pc, todo>>
    PROVE  /\ withdrawals[i] \in Standing
           /\ Standing' = (Standing \ {withdrawals[i]}) \cup {Changed(withdrawals[i], status)}
<1>1. i \in DOMAIN withdrawals
  BY DEF LiveRows
<1>2. /\ DOMAIN withdrawals' = DOMAIN withdrawals
      /\ withdrawals'[i] = Changed(withdrawals[i], status) /\ withdrawals'[i].status = status
      /\ \A j \in DOMAIN withdrawals \ {i} : withdrawals'[j] = withdrawals[j]
      /\ RowsKept
  BY <1>1, StatusSet DEF Changed
<1>3. LiveRows' = LiveRows
  <2>1. CASE pc # "cancelled" /\ pc' # "cancelled"
    <3>1. LiveRows = {j \in DOMAIN withdrawals : withdrawals[j].status # "canceled"}
      BY <2>1 DEF LiveRows
    <3>2. LiveRows' = {j \in DOMAIN withdrawals' : withdrawals'[j].status # "canceled"}
      BY <2>1 DEF LiveRows
    <3> QED
      BY <1>1, <1>2, <3>1, <3>2
  <2>2. CASE UNCHANGED <<pc, todo>>
    <3>1. row' = row
      BY <2>2 DEF row
    <3>2. LiveRows = {j \in DOMAIN withdrawals :
                         withdrawals[j].status # "canceled" /\ (pc = "cancelled" => j # row)}
      BY DEF LiveRows
    <3>3. LiveRows' = {j \in DOMAIN withdrawals' :
                         withdrawals'[j].status # "canceled" /\ (pc = "cancelled" => j # row)}
      BY <2>2, <3>1 DEF LiveRows
    <3> QED
      BY <1>1, <1>2, <3>2, <3>3
  <2> QED
    BY <2>1, <2>2
<1>4. Taken' = Taken
  <2>1. \A j \in DOMAIN withdrawals : withdrawals'[j].id = withdrawals[j].id
    BY <1>2 DEF RowsKept, SameRequest
  <2> QED
    BY <1>2, <2>1 DEF Taken
<1>5. Coming' = Coming
  <2>1. \A j : j \in Coming' <=> j \in Coming
    BY <1>4, ComingIs, ComingIsNext
  <2>2. Coming \subseteq DOMAIN unprocessed /\ Coming' \subseteq DOMAIN unprocessed
    BY ComingIs, ComingIsNext
  <2> QED
    BY <2>1, <2>2
<1>6. Standing' = {withdrawals'[j] : j \in LiveRows} \cup {RowOf(unprocessed[j]) : j \in Coming}
  BY <1>3, <1>5 DEF Standing, RowOf
<1>7. \A j \in LiveRows : j # i => withdrawals'[j] = withdrawals[j]
  BY <1>2 DEF LiveRows
<1>8. \A j \in LiveRows : j # i => withdrawals[j] # withdrawals[i]
  BY LiveIn DEF RequestIds
<1>9. \A j \in Coming : RowOf(unprocessed[j]) # withdrawals[i]
  <2>1. \A j \in Coming : RowOf(unprocessed[j]).id # withdrawals[i].id
    BY <1>1, ComingIn, ComingIs DEF Taken
  <2> QED
    BY <2>1
<1>10. withdrawals[i] \in Standing
  BY IsStanding
<1> HIDE DEF RowOf
<1>11. \A x : x \in Standing' <=> \/ \E j \in LiveRows : x = withdrawals'[j]
                                  \/ \E j \in Coming : x = RowOf(unprocessed[j])
  BY <1>6
<1>12. \A x : x \in Standing' <=> x = Changed(withdrawals[i], status)
                                  \/ (x \in Standing /\ x # withdrawals[i])
  BY <1>2, <1>7, <1>8, <1>9, <1>11, IsStanding
<1> QED
  BY <1>10, <1>12

\* When a request is canceled on the chain it does not stand any more.
LEMMA StandingAfterCancellation ==
    ASSUME OperatorTypeOK, RequestIds, Moderation, CancelsOnChain
    PROVE  Standing' = Standing \ {request}
<1>1. pc = "cancel" /\ pc' = "cancelled" /\ todo' = todo
      /\ withdrawals' = withdrawals /\ unprocessed' = unprocessed
  BY DEF CancelsOnChain, requestCancellation, OnChain, tableVars, chainVars
<1>2. row' = row /\ row \in LiveRows /\ request = withdrawals[row]
  BY <1>1, RequestStands DEF row
<1>3. LiveRows' = LiveRows \ {row}
  <2>1. LiveRows = {j \in DOMAIN withdrawals : withdrawals[j].status # "canceled"}
    BY <1>1 DEF LiveRows
  <2>2. LiveRows' = {j \in DOMAIN withdrawals : withdrawals[j].status # "canceled" /\ j # row}
    BY <1>1, <1>2 DEF LiveRows
  <2> HIDE DEF row
  <2> QED
    BY <2>1, <2>2
<1>4. Coming' = Coming
  BY <1>1 DEF Coming, IsRequest, withdrawalIsNew
<1>5. Standing' = {withdrawals[j] : j \in LiveRows \ {row}}
                      \cup {RowOf(unprocessed[j]) : j \in Coming}
  BY <1>1, <1>3, <1>4 DEF Standing, RowOf
<1>6. \A j \in LiveRows : j # row => withdrawals[j] # request
  BY <1>2, LiveIn DEF RequestIds
<1>7. \A j \in Coming : RowOf(unprocessed[j]) # request
  <2>1. row \in DOMAIN withdrawals
    BY <1>2, LiveIn
  <2>2. \A j \in Coming : RowOf(unprocessed[j]).id # withdrawals[row].id
    BY <2>1, ComingIn, ComingIs DEF Taken
  <2> QED
    BY <1>2, <2>2
<1> HIDE DEF RowOf, row, request
<1>8. \A x : x \in Standing' <=> x \in Standing /\ x # request
  BY <1>2, <1>5, <1>6, <1>7, IsStanding, Zenon
<1> QED
  BY <1>8

\* And it is canceled in the ledger, which makes no difference.
LEMMA StandingAfterEnd ==
    ASSUME BooksState, cancelWithdrawalInLedger
    PROVE  /\ Standing' = Standing /\ LiveRows' = LiveRows /\ accounts' = accounts
           /\ SetsStatus(row, "canceled") /\ row \in DOMAIN withdrawals /\ row \in todo
           /\ pc = "cancelled" /\ pc' = "moderate" /\ todo' = todo \ {row}
           /\ unprocessed' = unprocessed /\ withdrawals[row].status = "unchecked" /\ RowsKept
<1>0. pc = "cancelled" /\ pc' = "moderate" /\ todo' = todo \ {row} /\ unprocessed' = unprocessed
  BY Zenon DEF cancelWithdrawalInLedger, NextItem, InDatabase, chainVars
<1>1. /\ WithdrawalsOf(request.asset, request.wallet, {"unchecked", "pending"}) = {row}
      /\ row \in DOMAIN withdrawals /\ row \in todo /\ withdrawals[row].status = "unchecked"
      /\ OperatorTypeOK
  BY <1>0, InCancellation DEF BooksState
<1>2. Min({row}) = row
  <2>1. row \in Nat
    BY <1>1 DEF OperatorTypeOK
  <2>2. Min({row}) \in {row}
    BY <2>1, LeastIsIn
  <2> QED
    BY <2>2
<1>3. SetsStatus(row, "canceled") /\ accounts' = accounts
  <2> DEFINE n == row
  <2>1. n = row
    BY Zenon
  <2> HIDE DEF n
  <2>2. LET live == {n}
            i == Min(live)
            w == withdrawals[i]
        IN IF live = {} THEN UNCHANGED <<accounts, withdrawals>>
           ELSE /\ withdrawals' = [withdrawals EXCEPT ![i].status = "canceled"]
                /\ accounts' = IF w.status = "pending"
                      THEN [accounts EXCEPT ![w.round][w.asset][w.wallet].withdrawn =
                               @ - w.amount]
                      ELSE accounts
    BY <1>1, <2>1, Zenon DEF cancelWithdrawalInLedger
  <2>3. /\ withdrawals' = [withdrawals EXCEPT ![n].status = "canceled"]
        /\ accounts' = accounts
    BY <1>1, <1>2, <2>1, <2>2, Zenon
  <2> QED
    BY <2>1, <2>3 DEF SetsStatus
<1>4. /\ DOMAIN withdrawals' = DOMAIN withdrawals /\ withdrawals'[row].status = "canceled"
      /\ \A j \in DOMAIN withdrawals \ {row} : withdrawals'[j] = withdrawals[j]
      /\ RowsKept
  BY <1>1, <1>3, StatusSet
<1>5. LiveRows' = LiveRows /\ row \notin LiveRows
  <2>1. LiveRows = {j \in DOMAIN withdrawals : withdrawals[j].status # "canceled" /\ j # row}
    BY <1>0 DEF LiveRows
  <2>2. LiveRows' = {j \in DOMAIN withdrawals' : withdrawals'[j].status # "canceled"}
    BY <1>0 DEF LiveRows
  <2> HIDE DEF row
  <2> QED
    BY <1>4, <2>1, <2>2
<1>6. Coming' = Coming
  <2>1. Taken' = Taken
    BY <1>4 DEF Taken, RowsKept, SameRequest
  <2>2. \A j : j \in Coming' <=> j \in Coming
    BY <1>0, <2>1, ComingIs, ComingIsNext
  <2>3. Coming \subseteq DOMAIN unprocessed /\ Coming' \subseteq DOMAIN unprocessed
    BY <1>0, ComingIs, ComingIsNext
  <2> QED
    BY <2>2, <2>3
<1>7. Standing' = {withdrawals'[j] : j \in LiveRows} \cup {RowOf(unprocessed[j]) : j \in Coming}
  BY <1>0, <1>5, <1>6 DEF Standing, RowOf
<1>8. \A j \in LiveRows : withdrawals'[j] = withdrawals[j]
  BY <1>4, <1>5 DEF LiveRows
<1> HIDE DEF RowOf, row
<1>9. Standing' = Standing
  BY <1>7, <1>8 DEF Standing
<1> QED
  BY <1>0, <1>1, <1>3, <1>4, <1>5, <1>9, Zenon

(* What a step makes of the requests that stand. *)

NewRequest(c, t, amount) ==
    [id |-> events + 1, round |-> round, asset |-> t, wallet |-> c, amount |-> amount,
     status |-> "unchecked"]

Requesting(c, t, amount) ==
    /\ initiateWithdrawal(c, t, amount) /\ Mines(RequestEvent(c, t, amount))
    /\ Standing' = Standing \cup {NewRequest(c, t, amount)}

Booking ==
    /\ bookWithdrawal /\ SetsStatus(row, "pending") /\ pc = "book" /\ UNCHANGED mediatorVars
    /\ row \in DOMAIN withdrawals /\ row \in LiveRows /\ request = withdrawals[row]
    /\ request \in Standing /\ request.status = "unchecked"
    /\ Standing' = (Standing \ {request}) \cup {Changed(request, "pending")}

Cancelling ==
    /\ CancelsOnChain /\ UNCHANGED <<accounts, withdrawals, unprocessed>> /\ pc = "cancel"
    /\ request \in Standing /\ request.status = "unchecked" /\ row \in LiveRows
    /\ request = withdrawals[row] /\ Standing' = Standing \ {request}

Claiming(c, t, x) ==
    /\ claimWithdrawal(c, t) /\ confirmWithdrawal(c, t) /\ accounts' = accounts
    /\ x.status = "pending" /\ x.asset = t /\ x.wallet = c
    /\ \E i \in LiveRows : x = withdrawals[i] /\ SetsStatus(i, "confirmed")
    /\ Standing' = (Standing \ {x}) \cup {Changed(x, "confirmed")}

\* What was asked for stays as it is.
Quiet ==
    /\ Standing' = Standing
    /\ \/ Clock \/ DepositStep \/ ClaimStep \/ MinedStep
       \/ UNCHANGED <<clockVars, depositVars, withdrawalVars, commitVars>>
    /\ onDeposit \/ OrderStep \/ accounts' = accounts

\* The request of a block just mined.
LEMMA NewRequestIs ==
    ASSUME NEW c, NEW t, NEW amount
    PROVE  RowOf(BlockOf(RequestEvent(c, t, amount))) = NewRequest(c, t, amount)
BY DEF RowOf, BlockOf, RequestEvent, NewRequest

\* A client that requests adds its request to those that stand.
LEMMA RequestingPart ==
    ASSUME BooksState, RequestStep
    PROVE  \E c \in Clients, t \in Tokens, amount \in Nat : Requesting(c, t, amount)
<1>1. PICK c \in Clients, t \in Tokens : \E amount \in Amounts(t) :
         requestWithdrawal(c, t, amount)
  BY DEF RequestStep
<1>2. PICK amount \in Nat : requestWithdrawal(c, t, amount)
  BY <1>1 DEF Amounts
<1>3. initiateWithdrawal(c, t, amount) /\ Mines(RequestEvent(c, t, amount))
  BY <1>2, RequestMines DEF BooksState
<1>4. RequestEvent(c, t, amount).type = "withdrawal"
  BY DEF RequestEvent
<1>5. Standing' = Standing \cup {NewRequest(c, t, amount)}
  BY <1>3, <1>4, StandingAfterMining, NewRequestIs DEF BooksState, OrderInv
<1> QED
  BY <1>3, <1>5 DEF Requesting

\* The operator that books a request turns it pending.
LEMMA BookingPart ==
    ASSUME BooksState, bookWithdrawal
    PROVE  Booking
<1>1. /\ pc = "book" /\ pc' = "moderate" /\ UNCHANGED mediatorVars /\ unprocessed' = unprocessed
      /\ SetsStatus(row, "pending")
  BY DEF bookWithdrawal, NextItem, InDatabase, chainVars, SetsStatus
<1>2. OperatorTypeOK /\ Moderation /\ RequestIds
  BY DEF BooksState, LedgerInv, OrderInv
<1>3. /\ row \in LiveRows /\ request \in Standing /\ request.status = "unchecked"
      /\ row \in DOMAIN withdrawals /\ request = withdrawals[row]
  BY <1>1, <1>2, RequestStands
<1>4. Standing' = (Standing \ {withdrawals[row]}) \cup {Changed(withdrawals[row], "pending")}
  <2> DEFINE n == row
  <2>1. n \in LiveRows /\ SetsStatus(n, "pending")
    BY <1>1, <1>3
  <2> HIDE DEF n
  <2>2. Standing' = (Standing \ {withdrawals[n]}) \cup {Changed(withdrawals[n], "pending")}
    BY <1>1, <1>2, <2>1, StandingAfterStatus
  <2> QED
    BY <2>2 DEF n
<1> QED
  BY <1>1, <1>3, <1>4 DEF Booking

\* The operator that cancels a request on the chain takes it from those that stand.
LEMMA CancellingPart ==
    ASSUME BooksState, CancelsOnChain
    PROVE  Cancelling
<1>1. pc = "cancel" /\ UNCHANGED <<accounts, withdrawals, unprocessed>>
  BY DEF CancelsOnChain, requestCancellation, OnChain, tableVars, chainVars
<1>2. OperatorTypeOK /\ Moderation /\ RequestIds
  BY DEF BooksState, LedgerInv, OrderInv
<1>3. /\ row \in LiveRows /\ request \in Standing /\ request.status = "unchecked"
      /\ request = withdrawals[row]
  BY <1>1, <1>2, RequestStands
<1>4. Standing' = Standing \ {request}
  BY <1>2, StandingAfterCancellation
<1> QED
  BY <1>1, <1>3, <1>4 DEF Cancelling

\* A client that claims a pending request turns it confirmed.
LEMMA ClaimingPart ==
    ASSUME BooksState, NEW c \in Clients, NEW t \in Tokens, claimWithdrawal(c, t), up,
           NEW i \in WithdrawalsOf(t, c, {"pending"}), SetsStatus(i, "confirmed")
    PROVE  withdrawals[i] \in Standing /\ Claiming(c, t, withdrawals[i])
<1>1. /\ confirmWithdrawal(c, t) /\ accounts' = accounts /\ unprocessed' = unprocessed
      /\ UNCHANGED <<pc, todo>>
  BY DEF claimWithdrawal, chainVars, processVars
<1>2. /\ i \in DOMAIN withdrawals /\ withdrawals[i].status = "pending"
      /\ withdrawals[i].asset = t /\ withdrawals[i].wallet = c
  BY DEF WithdrawalsOf
<1>3. i \in LiveRows
  BY <1>2, InCancellation DEF LiveRows
<1>4. OperatorTypeOK /\ RequestIds
  BY DEF BooksState, OrderInv
<1>5. /\ withdrawals[i] \in Standing
      /\ Standing' = (Standing \ {withdrawals[i]}) \cup {Changed(withdrawals[i], "confirmed")}
  BY <1>1, <1>3, <1>4, StandingAfterStatus
<1> QED
  BY <1>1, <1>2, <1>3, <1>5 DEF Claiming

\* There is no other way to change the requests that stand.
LEMMA StandingPart ==
    ASSUME BooksStep, Whole'
    PROVE  \/ \E c \in Clients, t \in Tokens, amount \in Nat : Requesting(c, t, amount)
           \/ Booking
           \/ Cancelling
           \/ \E c \in Clients, t \in Tokens, x \in Standing : Claiming(c, t, x)
           \/ Quiet
<1>0. /\ BooksState /\ OperatorTypeOK /\ RequestIds /\ AtABlock /\ lost = 0 /\ [OpNext]_opVars
  BY DEF BooksStep, BooksState, OrderInv, DepositsInv, Whole
<1>1. CASE RequestStep
  BY <1>0, <1>1, RequestingPart
<1>2. CASE bookWithdrawal
  BY <1>0, <1>2, BookingPart
<1>3. CASE CancelsOnChain
  BY <1>0, <1>3, CancellingPart
<1>4. CASE \E c \in Clients, t \in Tokens :
              /\ claimWithdrawal(c, t) /\ up
              /\ \E i \in WithdrawalsOf(t, c, {"pending"}) : SetsStatus(i, "confirmed")
  BY <1>0, <1>4, ClaimingPart
<1>5. ASSUME ~RequestStep, ~bookWithdrawal, ~CancelsOnChain,
             ~\E c \in Clients, t \in Tokens :
                /\ claimWithdrawal(c, t) /\ up
                /\ \E i \in WithdrawalsOf(t, c, {"pending"}) : SetsStatus(i, "confirmed")
      PROVE  Quiet
  <2>1. \/ Clock \/ DepositStep \/ ClaimStep \/ MinedStep
        \/ UNCHANGED <<clockVars, depositVars, withdrawalVars, commitVars>>
    <3>1. ~ (/\ requestCancellation /\ pc' = "cancelled"
             /\ cancelWithdrawal(request.wallet, request.asset, ShownApprovals(request)))
      BY <1>5 DEF CancelsOnChain, requestCancellation, CancellationFailed, Goto, NextItem
    <3> QED
      BY <1>0, <1>5, <3>1, ContractPart
  <2>2. onDeposit \/ OrderStep \/ accounts' = accounts
    <3>1. CASE cancelWithdrawalInLedger
      BY <1>0, <3>1, StandingAfterEnd
    <3>2. CASE onInitiateWithdrawal \/ ClaimStep
      BY <3>2 DEF onInitiateWithdrawal, ClaimStep, claimWithdrawal
    <3> QED
      BY <1>0, <1>5, <3>1, <3>2, LedgerPart
  <2>3. Standing' = Standing
    <3>1. ASSUME NEW event, Mines(event), event.type # "withdrawal" PROVE Standing' = Standing
      BY <1>0, <3>1, StandingAfterMining
    <3>2. CASE DepositStep \/ OtherEvent
      <4>1. \A t \in Tokens : Amounts(t) \subseteq Nat
        BY DEF Amounts
      <4>2. \E event : Mines(event) /\ event.type # "withdrawal"
        BY <1>0, <3>2, <4>1, DepositMines, OtherMines DEF DepositStep
      <4> QED
        BY <3>1, <4>2
    <3>3. CASE saveLastProcessedBlock
      BY <1>0, <3>3, StandingAfterSaving
    <3>4. CASE UNCHANGED unprocessed
      <4>1. CASE RowInserted
        BY <1>0, <4>1, StandingAfterInsertion
      <4>2. CASE cancelWithdrawalInLedger
        BY <1>0, <4>2, StandingAfterEnd
      <4>3. CASE withdrawals' = withdrawals /\ ~cancelWithdrawalInLedger
        <5>1. CASE pc = "cancelled"
          <6>1. ~Crash
            BY <1>0, <5>1, InCancellation, WholeBefore
          <6> QED
            BY <1>0, <3>4, <4>3, <5>1, <6>1, CancelledStays, StandingSame
        <5>2. CASE pc' = "cancelled" /\ pc # "cancelled"
          <6>1. ~moderateWithdrawalRequest
            BY <5>2 DEF moderateWithdrawalRequest, Goto
          <6> QED
            BY <1>0, <1>5, <5>2, <6>1, ModerationPart DEF Moderates, Moderating
        <5> QED
          BY <3>4, <4>3, <5>1, <5>2, StandingSame
      <4> QED
        BY <1>0, <1>5, <4>1, <4>2, <4>3, RowsPart
    <3> QED
      BY <1>0, <1>5, <3>2, <3>3, <3>4, BlocksPart
  <2> QED
    BY <2>1, <2>2, <2>3 DEF Quiet
<1> QED
  BY <1>1, <1>2, <1>3, <1>4, <1>5

-----------------------------------------------------------------------------
(* The tree that is mined. *)

\* Of a round whose blocks have all been processed no deposit is left to be credited.
LEMMA AllCredited ==
    ASSUME OperatorTypeOK, NEW t, NEW c, NEW k \in Rounds,
           \A i \in DOMAIN unprocessed : unprocessed[i].round > k
    PROVE  NotCredited(t, c, k) = 0
<1>0. k \in Int
  BY DEF Rounds
<1>1. DepositBlocks(t, c, k) = {}
  BY <1>0 DEF DepositBlocks
<1>2. Uncredited(t, c, k) = {}
  BY <1>1, UncreditedOK
<1> QED
  BY <1>2, SumEmpty DEF NotCredited

\* When all blocks before the round are processed, the ledger has no less than the
\* contract.
LEMMA LedgerCovers ==
    ASSUME OperatorTypeOK, TypeOK, DepositsCovered, RequestsStand, lost = 0,
           NEW t \in Tokens, NEW c \in Clients, NEW r \in Rounds,
           \A i \in DOMAIN unprocessed : unprocessed[i].round >= r
    PROVE  /\ \A k \in Before(r) :
                 /\ accounts[k][t][c].deposited >= clientDeposits[k][t][c]
                 /\ accounts[k][t][c].withdrawn <= Requested(k, t, c)
                 /\ accounts[k][t][c].deposited \in Nat /\ accounts[k][t][c].withdrawn \in Int
                 /\ crashes = 0 => accounts[k][t][c].deposited = clientDeposits[k][t][c]
                 /\ LedgerFlow(t, c)[k] =
                       accounts[k][t][c].deposited - accounts[k][t][c].withdrawn
                 /\ ChainFlow(t, c)[k] = clientDeposits[k][t][c] - Requested(k, t, c)
                 /\ ChainFlow(t, c)[k] \in Int /\ LedgerFlow(t, c)[k] \in Int
                 /\ ChainFlow(t, c)[k] <= LedgerFlow(t, c)[k]
           /\ ChainOpening(t, c, r) <= openingBalance(t, c, r)
<1>0. Before(r) \subseteq Rounds /\ IsFiniteSet(Before(r))
  BY BeforeOK
<1>1. ASSUME NEW k \in Before(r)
      PROVE  /\ accounts[k][t][c].deposited >= clientDeposits[k][t][c]
             /\ accounts[k][t][c].withdrawn <= Requested(k, t, c)
             /\ accounts[k][t][c].deposited \in Nat /\ accounts[k][t][c].withdrawn \in Int
             /\ crashes = 0 => accounts[k][t][c].deposited = clientDeposits[k][t][c]
             /\ LedgerFlow(t, c)[k] =
                   accounts[k][t][c].deposited - accounts[k][t][c].withdrawn
             /\ ChainFlow(t, c)[k] = clientDeposits[k][t][c] - Requested(k, t, c)
             /\ ChainFlow(t, c)[k] \in Int /\ LedgerFlow(t, c)[k] \in Int
             /\ ChainFlow(t, c)[k] <= LedgerFlow(t, c)[k]
  <2>1. k \in Rounds /\ k < r /\ k \in Int /\ r \in Int
    BY <1>0 DEF Before, Rounds
  <2>2. \A i \in DOMAIN unprocessed : unprocessed[i].round > k
    BY <2>1, BlockTimes
  <2>3. NotCredited(t, c, k) = 0
    BY <2>1, <2>2, AllCredited
  <2>4. accounts[k][t][c] \in Account
    BY <2>1 DEF OperatorTypeOK
  <2>5. accounts[k][t][c].deposited \in Nat /\ accounts[k][t][c].withdrawn \in Int
    BY <2>4 DEF Account
  <2>6. Requested(k, t, c) \in Nat /\ clientDeposits[k][t][c] \in Nat
    BY <2>1, RequestedOK
  <2>7. /\ accounts[k][t][c].deposited + NotCredited(t, c, k) >= clientDeposits[k][t][c]
        /\ crashes = 0 =>
              accounts[k][t][c].deposited + NotCredited(t, c, k) = clientDeposits[k][t][c]
    BY <2>1 DEF DepositsCovered
  <2>8. accounts[k][t][c].withdrawn \in {0, Requested(k, t, c)}
    BY <2>1 DEF RequestsStand
  <2>9. /\ LedgerFlow(t, c)[k] = accounts[k][t][c].deposited - accounts[k][t][c].withdrawn
        /\ ChainFlow(t, c)[k] = clientDeposits[k][t][c] - Requested(k, t, c)
    BY <2>1 DEF LedgerFlow, ChainFlow
  <2> QED
    BY <2>3, <2>5, <2>6, <2>7, <2>8, <2>9
<1>2. ChainOpening(t, c, r) <= openingBalance(t, c, r)
  <2>1. SumFunctionOnSet(ChainFlow(t, c), Before(r)) <= SumFunctionOnSet(LedgerFlow(t, c), Before(r))
    BY <1>0, <1>1, SumLeq
  <2> QED
    BY <2>1, OpeningIs, ChainOpeningIs
<1> QED
  BY <1>1, <1>2

\* The closing balance that the contract reckons is the sum of the clients' ones.
LEMMA ClosingIs ==
    ASSUME IInv, TotalsMatch, OpeningsAddUp, NEW t \in Tokens, round \in 1..MaxRound,
           round = 1 \/ commits[round - 1][t] # NoRoot
    PROVE  previousClosingBalance(t) =
              SumFunctionOnSet([c \in Clients |-> ChainOpening(t, c, round)], Clients)
<1> DEFINE p == round - 1
           f == [c \in Clients |-> ChainOpening(t, c, p)]
           d == clientDeposits[p][t]
           q == Requests(p, t)
           g == [c \in Clients |-> f[c] + d[c]]
           h == [c \in Clients |-> ChainOpening(t, c, round)]
<1>0. TypeOK /\ p \in Rounds /\ p + 1 = round /\ round \in Rounds /\ round \in Int
      /\ IsFiniteSet(Clients)
  BY ConstantsAssumption, SMTT(30) DEF IInv, TypeOK, Rounds
<1>1. openingBalances[p][t] = SumFunctionOnSet(f, Clients)
  <2>1. p = 0 \/ commits[p][t] # NoRoot
    BY <1>0
  <2> QED
    BY <1>0, <2>1 DEF OpeningsAddUp
<1>2. totalDeposits[p][t] = SumFunctionOnSet(d, Clients)
  <2>1. d \in [Clients -> Nat]
    BY <1>0 DEF TypeOK
  <2>2. totalDeposits[p][t] = SumFunction(d)
    BY <1>0 DEF TotalsMatch
  <2> QED
    BY <2>1, <2>2, SumOverClients
<1>3. totalRequestedWithdrawals[p][t] = SumFunctionOnSet(q, Clients)
  BY <1>0, RequestsAddUp DEF TotalsMatch
<1>4. \A c \in Clients : f[c] \in Int /\ d[c] \in Int /\ q[c] \in Int
                         /\ f[c] = ChainOpening(t, c, p) /\ q[c] = Requested(p, t, c)
  <2> SUFFICES ASSUME NEW c \in Clients
               PROVE  f[c] \in Int /\ d[c] \in Int /\ q[c] \in Int
                      /\ f[c] = ChainOpening(t, c, p) /\ q[c] = Requested(p, t, c)
    OBVIOUS
  <2>1. ChainOpening(t, c, p) \in Int
    BY <1>0, ChainOpeningOK
  <2>2. Requested(p, t, c) \in Nat /\ d[c] \in Nat
    BY <1>0, RequestedOK
  <2>3. q[c] = Requested(p, t, c)
    BY DEF Requests, Requested
  <2> QED
    BY <2>1, <2>2, <2>3
<1>5. \A c \in Clients : h[c] \in Int /\ h[c] = f[c] + (d[c] - q[c])
  <2> SUFFICES ASSUME NEW c \in Clients PROVE h[c] \in Int /\ h[c] = f[c] + (d[c] - q[c])
    OBVIOUS
  <2>1. ChainOpening(t, c, p + 1) =
           ChainOpening(t, c, p) + (clientDeposits[p][t][c] - Requested(p, t, c))
    BY <1>0, ChainOpeningOfNext
  <2>2. ChainOpening(t, c, p + 1) = ChainOpening(t, c, round)
    BY <1>0
  <2>3. ChainOpening(t, c, round) \in Int
    BY <1>0, ChainOpeningOK
  <2> QED
    BY <1>4, <2>1, <2>2, <2>3
<1>6. previousClosingBalance(t) =
         openingBalances[p][t] + totalDeposits[p][t] - totalRequestedWithdrawals[p][t]
  BY DEF previousClosingBalance
<1>7. \A c \in Clients : g[c] \in Int /\ g[c] = f[c] + d[c] /\ g[c] = h[c] + q[c]
  <2> SUFFICES ASSUME NEW c \in Clients
               PROVE  g[c] \in Int /\ g[c] = f[c] + d[c] /\ g[c] = h[c] + q[c]
    OBVIOUS
  <2>1. g[c] = f[c] + d[c]
    OBVIOUS
  <2> QED
    BY <1>4, <1>5, <2>1
<1>8. openingBalances[p][t] \in Int /\ totalDeposits[p][t] \in Int
      /\ totalRequestedWithdrawals[p][t] \in Int
  BY <1>0 DEF TypeOK
<1> HIDE DEF f, d, q, g, h, p
<1>9. SumFunctionOnSet(g, Clients) = SumFunctionOnSet(f, Clients) + SumFunctionOnSet(d, Clients)
  BY <1>0, <1>4, <1>7, SumPlus
<1>10. SumFunctionOnSet(g, Clients) = SumFunctionOnSet(h, Clients) + SumFunctionOnSet(q, Clients)
  BY <1>0, <1>4, <1>5, <1>7, SumPlus
<1>11. SumFunctionOnSet(h, Clients) \in Int
  BY <1>0, <1>5, SumInt
<1>12. previousClosingBalance(t) = SumFunctionOnSet(h, Clients)
  BY <1>1, <1>2, <1>3, <1>6, <1>8, <1>9, <1>10, <1>11
<1> QED
  BY <1>12 DEF h

\* What is mined could be mined: it is of the round that is now.
LEMMA MinedIsLive ==
    ASSUME BooksState, NEW tx \in outbox, commitMined(tx)
    PROVE  /\ CommitOf(tx) /\ Live(tx) /\ tx.asset \in Tokens
           /\ round \in 1..MaxRound /\ committedRounds = round - 1
           /\ round = 1 \/ commits[round - 1][tx.asset] # NoRoot
           /\ tx.asset \in registeredTokens
<1>1. CommitOf(tx) /\ tx.asset \in Tokens /\ tx.asset \in registeredTokens
      /\ (Dead(tx) \/ Live(tx)) /\ quarter = 0
  <2>1. CommitOf(tx)
    BY DEF commitMined
  <2>2. tx.asset \in Tokens /\ (Dead(tx) \/ Live(tx))
    BY DEF BooksState, LedgerInv, OutboxInv
  <2> QED
    BY <2>1, <2>2 DEF CommitOf, commit
<1>2. TypeOK /\ CommitInv
  BY DEF BooksState, ContractInv, IInv
<1>3. committedRounds = round - 1 /\ round \in 1..MaxRound
  <2> DEFINE a == tx.asset
             root == Root(tx.leaves, previousClosingBalance(tx.asset))
  <2>1. a \in Tokens /\ commit(a, root)
    BY <1>1 DEF CommitOf
  <2> HIDE DEF a, root
  <2> QED
    BY <1>2, <2>1, CommitsInOrder
<1>4. \A s \in 1..MaxRound : s < round => commits[s][tx.asset] # NoRoot
  <2> SUFFICES ASSUME NEW s \in 1..MaxRound, s < round PROVE commits[s][tx.asset] # NoRoot
    OBVIOUS
  <2>1. s <= committedRounds
    BY <1>3
  <2> QED
    BY <1>1, <1>2, <2>1, CompleteMeansCommitted
<1>5. MaxRound \in Nat
  BY ConstantsAssumption
<1>6. ~Dead(tx)
  BY <1>1, <1>3, <1>4, <1>5 DEF Dead
<1> QED
  BY <1>1, <1>3, <1>4, <1>5, <1>6

ClosingShares(t) == [c \in Clients |-> ChainOpening(t, c, round)]

\* At the commit every leaf of the tree is at least the client's share of the contract's
\* sum.
LEMMA MinedShares ==
    ASSUME BooksState, NEW tx \in outbox, commitMined(tx)
    PROVE  LET a == tx.asset
               tree == getSolvencyTree(a, round)
               shares == ClosingShares(a)
           IN /\ previousClosingBalance(a) = SumFunctionOnSet(shares, Clients)
              /\ SumFunction(tree) = SumFunctionOnSet(tree, Clients)
              /\ \A c \in Clients : /\ tree[c] = openingBalance(a, c, round)
                                    /\ shares[c] = ChainOpening(a, c, round)
                                    /\ tree[c] \in Int /\ shares[c] \in Int
                                    /\ 0 <= shares[c] /\ shares[c] <= tree[c]
              /\ tree \in [Clients -> Int] /\ tree \in [Clients -> Nat]
              /\ tx.leaves = tree /\ IsFiniteSet(Clients)
<1> DEFINE a == tx.asset
           tree == getSolvencyTree(a, round)
           shares == ClosingShares(a)
<1>1. /\ Live(tx) /\ a \in Tokens /\ round \in 1..MaxRound
      /\ round = 1 \/ commits[round - 1][a] # NoRoot
  BY MinedIsLive
<1>2. /\ IInv /\ TypeOK /\ TotalsMatch /\ OpeningsAddUp /\ OpeningsCovered /\ OperatorTypeOK
      /\ DepositsCovered /\ RequestsStand /\ lost = 0
  BY DEF BooksState, ContractInv, LedgerInv, IInv, DepositsInv, Whole
<1>3. round \in Rounds /\ round \in 0..(MaxRound + 1) /\ MaxRound \in Nat /\ IsFiniteSet(Clients)
  BY <1>1, ConstantsAssumption DEF Rounds
<1>4. tx.leaves = tree /\ \A i \in DOMAIN unprocessed : unprocessed[i].round = round
  BY <1>1 DEF Live
<1>5. previousClosingBalance(a) = SumFunctionOnSet(shares, Clients)
  <2> HIDE DEF a
  <2> QED
    BY <1>1, <1>2, ClosingIs DEF ClosingShares
<1>6. DOMAIN tree = Clients
  BY DEF getSolvencyTree
<1>7. SumFunction(tree) = SumFunctionOnSet(tree, Clients)
  <2> HIDE DEF tree
  <2> QED
    BY <1>6, SumOverClients
<1>8. \A c \in Clients : /\ tree[c] = openingBalance(a, c, round)
                         /\ shares[c] = ChainOpening(a, c, round)
                         /\ tree[c] \in Int /\ shares[c] \in Int
                         /\ 0 <= shares[c] /\ shares[c] <= tree[c]
  <2> SUFFICES ASSUME NEW c \in Clients
               PROVE  /\ tree[c] = openingBalance(a, c, round)
                      /\ shares[c] = ChainOpening(a, c, round)
                      /\ tree[c] \in Int /\ shares[c] \in Int
                      /\ 0 <= shares[c] /\ shares[c] <= tree[c]
    OBVIOUS
  <2>1. tree[c] = openingBalance(a, c, round)
    BY DEF getSolvencyTree
  <2>2. shares[c] = ChainOpening(a, c, round)
    BY DEF ClosingShares
  <2>3. openingBalance(a, c, round) \in Int /\ ChainOpening(a, c, round) \in Int
    BY <1>1, <1>2, OpeningOK, ChainOpeningOK
  <2>4. 0 <= ChainOpening(a, c, round)
    BY <1>1, <1>2, <1>3 DEF OpeningsCovered
  <2>5. \A i \in DOMAIN unprocessed : unprocessed[i].round >= round
    BY <1>1, <1>4
  <2>6. ChainOpening(a, c, round) <= openingBalance(a, c, round)
    <3> HIDE DEF a
    <3> QED
      BY <1>1, <1>2, <1>3, <2>5, LedgerCovers
  <2> HIDE DEF tree, shares
  <2> QED
    BY <2>1, <2>2, <2>3, <2>4, <2>6
<1>9. tree = [c \in Clients |-> tree[c]]
  BY DEF getSolvencyTree
<1>10. tree \in [Clients -> Int] /\ tree \in [Clients -> Nat]
  <2> HIDE DEF tree, shares
  <2>1. \A c \in Clients : tree[c] \in Nat
    BY <1>8
  <2> QED
    BY <1>9, <2>1
<1> QED
  BY <1>3, <1>4, <1>5, <1>7, <1>8, <1>10

\* The tree is one that the contract takes.
LEMMA MinedIsTree ==
    ASSUME BooksState, NEW tx \in outbox, commitMined(tx)
    PROVE  /\ tx.asset \in Tokens
           /\ Root(tx.leaves, previousClosingBalance(tx.asset)) \in Roots
<1>1. tx.leaves \in [Clients -> Nat] /\ tx.asset \in Tokens
  BY MinedShares, MinedIsLive
<1>2. Tree(tx.leaves) \in Roots /\ Unprovable \in Roots
  BY <1>1 DEF Tree, Unprovable, Roots
<1> QED
  BY <1>1, <1>2 DEF Root

\* What the commit that is mined changes.
LEMMA MinedCommit ==
    ASSUME BooksState, NEW tx \in outbox, commitMined(tx)
    PROVE  LET a == tx.asset
               root == Root(getSolvencyTree(a, round), previousClosingBalance(a))
           IN /\ \A r \in Rounds, t \in Tokens :
                    commits'[r][t] = IF r = round /\ t = a THEN root ELSE commits[r][t]
              /\ \A r \in Rounds, t \in Tokens :
                    openingBalances'[r][t] = IF r = round /\ t = a THEN previousClosingBalance(a)
                                                                   ELSE openingBalances[r][t]
              /\ UNCHANGED <<clockVars, depositVars, withdrawalVars, accounts, withdrawals,
                             unprocessed, approvals, pc, todo, up, _round, _quarter, crashes,
                             lost, haltVars, tokenVars>>
              /\ outbox' = outbox \ {tx} /\ commits[round][a] = NoRoot
<1> DEFINE a == tx.asset
           root == Root(getSolvencyTree(a, round), previousClosingBalance(a))
<1>1. /\ commit(a, root) /\ a \in Tokens /\ tx.leaves = getSolvencyTree(a, round)
      /\ round \in Rounds
  <2>1. commit(a, Root(tx.leaves, previousClosingBalance(a)))
    BY DEF commitMined, CommitOf
  <2> QED
    BY <2>1, MinedIsLive, MinedShares, ConstantsAssumption DEF Rounds
<1>2. /\ commits' = [commits EXCEPT ![round][a] = root]
      /\ openingBalances' = [openingBalances EXCEPT ![round][a] = previousClosingBalance(a)]
      /\ commits[round][a] = NoRoot
      /\ UNCHANGED <<clockVars, depositVars, withdrawalVars, haltVars, tokenVars>>
  BY <1>1 DEF commit, nothingCommitted, notHalted
<1>3. /\ commits \in [Rounds -> [Tokens -> Roots \cup {NoRoot}]]
      /\ openingBalances \in [Rounds -> [Tokens -> Nat]]
  BY DEF BooksState, ContractInv, IInv, TypeOK
<1>4. /\ outbox' = outbox \ {tx}
      /\ UNCHANGED <<accounts, withdrawals, unprocessed, approvals, pc, todo, up, _round,
                     _quarter, crashes, lost>>
  BY DEF commitMined, chainVars, tableVars, orderVars, processVars, boundVars
<1> HIDE DEF a, root
<1>5. \A r \in Rounds, t \in Tokens :
         commits'[r][t] = IF r = round /\ t = a THEN root ELSE commits[r][t]
  BY <1>1, <1>2, <1>3
<1>6. \A r \in Rounds, t \in Tokens :
         openingBalances'[r][t] = IF r = round /\ t = a THEN previousClosingBalance(a)
                                                        ELSE openingBalances[r][t]
  BY <1>1, <1>2, <1>3
<1> QED
  BY <1>2, <1>4, <1>5, <1>6 DEF a, root

\* What is mined as a provable root, the ledger and the contract agree on.
LEMMA MinedIsRight ==
    ASSUME BooksState, NEW tx \in outbox, commitMined(tx)
    PROVE  LET a == tx.asset
               tree == getSolvencyTree(a, round)
           IN IF \A k \in Before(round) : Agree(k, a)
              THEN Root(tree, previousClosingBalance(a)) = Tree(tree)
              ELSE Root(tree, previousClosingBalance(a)) = Unprovable
<1> DEFINE a == tx.asset
           tree == getSolvencyTree(a, round)
           shares == ClosingShares(a)
<1>1. /\ previousClosingBalance(a) = SumFunctionOnSet(shares, Clients)
      /\ SumFunction(tree) = SumFunctionOnSet(tree, Clients)
      /\ \A c \in Clients : /\ tree[c] = openingBalance(a, c, round)
                            /\ shares[c] = ChainOpening(a, c, round)
                            /\ tree[c] \in Int /\ shares[c] \in Int
                            /\ 0 <= shares[c] /\ shares[c] <= tree[c]
      /\ IsFiniteSet(Clients)
  BY MinedShares
<1>2. /\ Live(tx) /\ a \in Tokens /\ round \in 1..MaxRound
  BY MinedIsLive
<1>3. /\ TypeOK /\ OperatorTypeOK /\ DepositsCovered /\ RequestsStand /\ lost = 0
  BY DEF BooksState, ContractInv, LedgerInv, IInv, DepositsInv, Whole
<1>4. round \in Rounds /\ \A i \in DOMAIN unprocessed : unprocessed[i].round >= round
  BY <1>2, ConstantsAssumption DEF Live, Rounds
<1>5. \A c \in Clients, k \in Before(round) :
         /\ accounts[k][a][c].deposited >= clientDeposits[k][a][c]
         /\ accounts[k][a][c].withdrawn <= Requested(k, a, c)
         /\ accounts[k][a][c].deposited \in Nat /\ accounts[k][a][c].withdrawn \in Int
         /\ LedgerFlow(a, c)[k] = accounts[k][a][c].deposited - accounts[k][a][c].withdrawn
         /\ ChainFlow(a, c)[k] = clientDeposits[k][a][c] - Requested(k, a, c)
         /\ ChainFlow(a, c)[k] \in Int /\ LedgerFlow(a, c)[k] \in Int
         /\ ChainFlow(a, c)[k] <= LedgerFlow(a, c)[k]
         /\ clientDeposits[k][a][c] \in Nat /\ Requested(k, a, c) \in Nat
  <2> SUFFICES ASSUME NEW c \in Clients, NEW k \in Before(round)
               PROVE  /\ accounts[k][a][c].deposited >= clientDeposits[k][a][c]
                      /\ accounts[k][a][c].withdrawn <= Requested(k, a, c)
                      /\ accounts[k][a][c].deposited \in Nat
                      /\ accounts[k][a][c].withdrawn \in Int
                      /\ LedgerFlow(a, c)[k] =
                            accounts[k][a][c].deposited - accounts[k][a][c].withdrawn
                      /\ ChainFlow(a, c)[k] = clientDeposits[k][a][c] - Requested(k, a, c)
                      /\ ChainFlow(a, c)[k] \in Int /\ LedgerFlow(a, c)[k] \in Int
                      /\ ChainFlow(a, c)[k] <= LedgerFlow(a, c)[k]
                      /\ clientDeposits[k][a][c] \in Nat /\ Requested(k, a, c) \in Nat
    OBVIOUS
  <2>1. k \in Rounds
    BY DEF Before
  <2> HIDE DEF a
  <2>2. clientDeposits[k][a][c] \in Nat /\ Requested(k, a, c) \in Nat
    BY <1>2, <1>3, <2>1, RequestedOK
  <2> QED
    BY <1>2, <1>3, <1>4, <2>2, LedgerCovers
<1>6. IsFiniteSet(Before(round))
  BY BeforeOK
<1>7. CASE \A k \in Before(round) : Agree(k, a)
  <2>1. \A c \in Clients : tree[c] = shares[c]
    <3> SUFFICES ASSUME NEW c \in Clients PROVE tree[c] = shares[c]
      OBVIOUS
    <3>1. \A k \in Before(round) : LedgerFlow(a, c)[k] = ChainFlow(a, c)[k]
      <4> SUFFICES ASSUME NEW k \in Before(round) PROVE LedgerFlow(a, c)[k] = ChainFlow(a, c)[k]
        OBVIOUS
      <4>1. /\ accounts[k][a][c].deposited = clientDeposits[k][a][c]
            /\ accounts[k][a][c].withdrawn = Requested(k, a, c)
        BY <1>7 DEF Agree
      <4>2. /\ LedgerFlow(a, c)[k] = accounts[k][a][c].deposited - accounts[k][a][c].withdrawn
            /\ ChainFlow(a, c)[k] = clientDeposits[k][a][c] - Requested(k, a, c)
        BY <1>5
      <4> HIDE DEF a
      <4> QED
        BY <4>1, <4>2
    <3>2. \A k \in Before(round) : LedgerFlow(a, c)[k] \in Int
      BY <1>5
    <3>3. SumFunctionOnSet(LedgerFlow(a, c), Before(round))
             = SumFunctionOnSet(ChainFlow(a, c), Before(round))
      <4> DEFINE f == LedgerFlow(a, c)
                 g == ChainFlow(a, c)
      <4>1. \A k \in Before(round) : f[k] \in Int /\ f[k] = g[k]
        BY <3>1, <3>2
      <4> HIDE DEF f, g
      <4>2. SumFunctionOnSet(f, Before(round)) = SumFunctionOnSet(g, Before(round))
        BY <1>6, <4>1, SumEqual
      <4> QED
        BY <4>2 DEF f, g
    <3> QED
      BY <1>1, <3>3, OpeningIs, ChainOpeningIs
  <2> HIDE DEF tree, shares
  <2>2. SumFunctionOnSet(tree, Clients) = SumFunctionOnSet(shares, Clients)
    BY <1>1, <2>1, SumEqual
  <2> QED
    BY <1>1, <1>7, <2>2 DEF Root, a, tree
<1>8. CASE ~\A k \in Before(round) : Agree(k, a)
  <2>1. SumFunctionOnSet(tree, Clients) # SumFunctionOnSet(shares, Clients)
    <3> SUFFICES ASSUME SumFunctionOnSet(tree, Clients) = SumFunctionOnSet(shares, Clients)
                 PROVE  \A k \in Before(round) : Agree(k, a)
      BY <1>8
    <3>1. \A c \in Clients : shares[c] = tree[c]
      <4> HIDE DEF tree, shares
      <4> QED
        BY <1>1, SumTight
    <3> SUFFICES ASSUME NEW c \in Clients
                 PROVE  \A k \in Before(round) :
                           /\ accounts[k][a][c].deposited = clientDeposits[k][a][c]
                           /\ accounts[k][a][c].withdrawn = Requested(k, a, c)
      BY DEF Agree
    <3>2. SumFunctionOnSet(ChainFlow(a, c), Before(round))
             = SumFunctionOnSet(LedgerFlow(a, c), Before(round))
      BY <1>1, <3>1, OpeningIs, ChainOpeningIs
    <3>3. \A k \in Before(round) : ChainFlow(a, c)[k] = LedgerFlow(a, c)[k]
      <4> DEFINE f == LedgerFlow(a, c)
                 g == ChainFlow(a, c)
      <4>1. \A k \in Before(round) : g[k] \in Int /\ f[k] \in Int /\ g[k] <= f[k]
        BY <1>5
      <4>2. SumFunctionOnSet(g, Before(round)) = SumFunctionOnSet(f, Before(round))
        BY <3>2
      <4> HIDE DEF f, g
      <4>3. \A k \in Before(round) : g[k] = f[k]
        BY <1>6, <4>1, <4>2, SumTight
      <4> QED
        BY <4>3 DEF f, g
    <3> SUFFICES ASSUME NEW k \in Before(round)
                 PROVE  /\ accounts[k][a][c].deposited = clientDeposits[k][a][c]
                        /\ accounts[k][a][c].withdrawn = Requested(k, a, c)
      OBVIOUS
    <3>4. /\ accounts[k][a][c].deposited >= clientDeposits[k][a][c]
          /\ accounts[k][a][c].withdrawn <= Requested(k, a, c)
          /\ accounts[k][a][c].deposited \in Nat /\ accounts[k][a][c].withdrawn \in Int
          /\ clientDeposits[k][a][c] \in Nat /\ Requested(k, a, c) \in Nat
          /\ accounts[k][a][c].deposited - accounts[k][a][c].withdrawn
                = clientDeposits[k][a][c] - Requested(k, a, c)
      BY <1>5, <3>3
    <3> HIDE DEF a
    <3> QED
      BY <3>4
  <2> HIDE DEF tree, shares
  <2> QED
    BY <1>1, <1>8, <2>1 DEF Root, a, tree
<1> QED
  BY <1>7, <1>8

\* Whatever the operator and its clients do, it is a step of the contract.
LEMMA ContractKeeps ==
    ASSUME BooksStep
    PROVE  [AnyNext]_vars /\ IInv' /\ TotalsMatch' /\ TypeOK /\ TypeOK'
<1>1. BooksState /\ OperatorTypeOK /\ approvals \subseteq Approvals /\ [OpNext]_opVars
      /\ IInv /\ TotalsMatch
  BY DEF BooksStep, BooksState, OrderInv, ContractInv
<1>2. \A tx \in outbox : commitMined(tx)
         => /\ tx.asset \in Tokens
            /\ Root(tx.leaves, previousClosingBalance(tx.asset)) \in Roots
  BY <1>1, MinedIsTree
<1>3. [AnyNext]_vars
  BY <1>1, <1>2, ContractStep
<1>4. IInv'
  BY <1>1, <1>3, StepIInv
<1>5. TotalsMatch'
  BY <1>1, <1>3, <1>4, TotalsStep DEF IInv
<1> QED
  BY <1>1, <1>3, <1>4, <1>5 DEF IInv

-----------------------------------------------------------------------------
(* What the contract's transactions make of the requests and deposits. *)

\* The root proves some balance.
Proves(r, t) == commits[r][t] \notin {NoRoot, Unprovable}

\* The balance that the request of this round was proved with.
AskedBalance(c, t) == clientRequestedWithdrawals'[round][t][c].openingBalance

LEMMA AskedOnChain ==
    ASSUME TypeOK, CommitInv, NEW c \in Clients, NEW t \in Tokens, NEW amount \in Nat,
           initiateWithdrawal(c, t, amount)
    PROVE  /\ round \in 1..MaxRound /\ round \in Rounds /\ round - 1 \in 1..MaxRound
           /\ amount > 0 /\ amount <= AskedBalance(c, t) /\ AskedBalance(c, t) \in Nat
           /\ AskedBalance(c, t) \in Provable(c, t, round - 1) /\ Proves(round - 1, t)
           /\ activeWithdrawalRounds[t][c] = 0 /\ ~halted /\ ~halted' /\ ~HaltDue
           /\ t \in registeredTokens
           /\ \A k \in Rounds, u \in Tokens, d \in Clients :
                 clientRequestedWithdrawals'[k][u][d] =
                    IF k = round /\ u = t /\ d = c
                    THEN [amount |-> amount, openingBalance |-> AskedBalance(c, t)]
                    ELSE clientRequestedWithdrawals[k][u][d]
           /\ \A u \in Tokens, d \in Clients :
                 activeWithdrawalRounds'[u][d] = IF u = t /\ d = c THEN round
                                                 ELSE activeWithdrawalRounds[u][d]
           /\ UNCHANGED <<round, quarter, depositVars, commitVars, haltVars, tokenVars>>
<1>1. /\ notHalted /\ amount > 0 /\ round > 0
      /\ activeWithdrawalRounds[t][c] = 0
      /\ activeWithdrawalRounds' = [activeWithdrawalRounds EXCEPT ![t][c] = round]
      /\ UNCHANGED <<round, quarter, depositVars, commitVars, haltVars, tokenVars>>
  BY DEF initiateWithdrawal, clockVars, notHalted
<1>0. PICK shown \in Provable(c, t, round - 1) :
         /\ amount <= shown
         /\ clientRequestedWithdrawals' =
               [clientRequestedWithdrawals EXCEPT ![round][t][c] =
                   [amount |-> amount, openingBalance |-> shown]]
  BY DEF initiateWithdrawal
<1>2. /\ round \in Rounds /\ MaxRound \in Nat
      /\ clientRequestedWithdrawals \in
            [Rounds -> [Tokens -> [Clients -> [amount : Nat, openingBalance : Nat]]]]
      /\ activeWithdrawalRounds \in [Tokens -> [Clients -> Rounds]]
      /\ commits \in [Rounds -> [Tokens -> Roots \cup {NoRoot}]]
  BY ConstantsAssumption DEF TypeOK
<1>3. /\ round - 1 \in Rounds /\ commits[round - 1][t] # NoRoot
      /\ shown \in commits[round - 1][t][c]
  BY <1>0 DEF Provable
<1>4. commits[round - 1][t] # Unprovable /\ shown \in Nat
  BY <1>2, <1>3 DEF Unprovable, Roots
<1>5. round - 1 \in 1..round /\ t \in registeredTokens
  BY <1>3 DEF CommitInv
<1>6. round \in 1..MaxRound /\ round - 1 \in 1..MaxRound
  <2>1. round \in 0..MaxRound /\ MaxRound \in Nat
    BY <1>2, ConstantsAssumption DEF Rounds
  <2>2. round - 1 \in 1..round /\ round > 0
    BY <1>1, <1>5
  <2> QED
    BY <2>1, <2>2
<1>7. ~halted /\ ~halted' /\ ~HaltDue
  BY <1>1 DEF notHalted, haltVars
<1> DEFINE asked == [amount |-> amount, openingBalance |-> shown]
<1>8. clientRequestedWithdrawals' = [clientRequestedWithdrawals EXCEPT ![round][t][c] = asked]
  BY <1>0
<1> HIDE DEF asked
<1>9. \A k \in Rounds, u \in Tokens, d \in Clients :
         clientRequestedWithdrawals'[k][u][d] =
            IF k = round /\ u = t /\ d = c THEN asked ELSE clientRequestedWithdrawals[k][u][d]
  BY <1>2, <1>8
<1>10. \A u \in Tokens, d \in Clients :
         activeWithdrawalRounds'[u][d] = IF u = t /\ d = c THEN round
                                         ELSE activeWithdrawalRounds[u][d]
  BY <1>1, <1>2, Zenon
<1>11. AskedBalance(c, t) = shown
  BY <1>2, <1>9 DEF AskedBalance, asked
<1>12. Proves(round - 1, t)
  BY <1>3, <1>4 DEF Proves
<1> QED
  BY <1>0, <1>1, <1>2, <1>3, <1>4, <1>5, <1>6, <1>7, <1>9, <1>10, <1>11, <1>12 DEF asked

\* A request becomes the active one of its client.
LEMMA ActiveAfterAsking ==
    ASSUME TypeOK, CommitInv, NEW c \in Clients, NEW t \in Tokens, NEW amount \in Nat,
           initiateWithdrawal(c, t, amount)
    PROVE  \A u \in Tokens, d \in Clients :
              activeWithdrawalRounds'[u][d] = IF u = t /\ d = c THEN round
                                              ELSE activeWithdrawalRounds[u][d]
<1>1. activeWithdrawalRounds' = [activeWithdrawalRounds EXCEPT ![t][c] = round]
  BY DEF initiateWithdrawal
<1> QED
  BY <1>1 DEF TypeOK

Reserved(shown, t) == Sold(shown, {t})

\* A cancellation clears the request of the round before, of which there is no root.
LEMMA CanceledOnChain ==
    ASSUME TypeOK, NEW c \in Clients, NEW t \in Tokens, NEW shown,
           cancelWithdrawal(c, t, shown)
    PROVE  \E w \in Rounds :
              /\ w = activeWithdrawalRounds[t][c] /\ w > 0 /\ canCancelWithdrawal(w, t)
              /\ Reserved(shown, t) <= clientRequestedWithdrawals[w][t][c].openingBalance
              /\ Requested(w, t, c) >
                    clientRequestedWithdrawals[w][t][c].openingBalance - Reserved(shown, t)
              /\ \A k \in Rounds, u \in Tokens, d \in Clients :
                    clientRequestedWithdrawals'[k][u][d] =
                       IF k = w /\ u = t /\ d = c
                       THEN [clientRequestedWithdrawals[w][t][c] EXCEPT !.amount = 0]
                       ELSE clientRequestedWithdrawals[k][u][d]
              /\ \A u \in Tokens, d \in Clients :
                    activeWithdrawalRounds'[u][d] = IF u = t /\ d = c THEN 0
                                                    ELSE activeWithdrawalRounds[u][d]
              /\ UNCHANGED <<round, quarter, depositVars, commitVars, haltVars, tokenVars>>
              /\ ~halted /\ ~HaltDue
<1> DEFINE w == activeWithdrawalRounds[t][c]
<1>1. /\ notHalted /\ w > 0 /\ canCancelWithdrawal(w, t)
      /\ Reserved(shown, t) <= clientRequestedWithdrawals[w][t][c].openingBalance
      /\ Requested(w, t, c) > clientRequestedWithdrawals[w][t][c].openingBalance - Reserved(shown, t)
      /\ clientRequestedWithdrawals' = [clientRequestedWithdrawals EXCEPT ![w][t][c].amount = 0]
      /\ activeWithdrawalRounds' = [activeWithdrawalRounds EXCEPT ![t][c] = 0]
      /\ UNCHANGED <<round, quarter, depositVars, commitVars, haltVars, tokenVars>>
  BY DEF cancelWithdrawal, ClearRequest, EndRequest, Requested, Reserved, clockVars, notHalted
<1>2. /\ clientRequestedWithdrawals \in
            [Rounds -> [Tokens -> [Clients -> [amount : Nat, openingBalance : Nat]]]]
      /\ activeWithdrawalRounds \in [Tokens -> [Clients -> Rounds]]
  BY DEF TypeOK
<1>3. w \in Rounds
  BY <1>2
<1> HIDE DEF w
<1>4. \A k \in Rounds, u \in Tokens, d \in Clients :
         clientRequestedWithdrawals'[k][u][d] =
            IF k = w /\ u = t /\ d = c
            THEN [clientRequestedWithdrawals[w][t][c] EXCEPT !.amount = 0]
            ELSE clientRequestedWithdrawals[k][u][d]
  BY <1>1, <1>2, <1>3
<1>5. \A u \in Tokens, d \in Clients :
         activeWithdrawalRounds'[u][d] = IF u = t /\ d = c THEN 0
                                         ELSE activeWithdrawalRounds[u][d]
  BY <1>1, <1>2
<1> QED
  BY <1>1, <1>3, <1>4, <1>5 DEF w, notHalted

\* A claim ends the active request and keeps what was recorded of it.
LEMMA ClaimedOnChain ==
    ASSUME TypeOK, NEW c \in Clients, NEW t \in Tokens, confirmWithdrawal(c, t)
    PROVE  /\ clientRequestedWithdrawals' = clientRequestedWithdrawals
           /\ activeWithdrawalRounds[t][c] > 0 /\ RecordHalt
           /\ \A u \in Tokens, d \in Clients :
                 activeWithdrawalRounds'[u][d] = IF u = t /\ d = c THEN 0
                                                 ELSE activeWithdrawalRounds[u][d]
           /\ UNCHANGED <<round, quarter, depositVars, commitVars, tokenVars>>
<1>1. /\ activeWithdrawalRounds[t][c] > 0 /\ RecordHalt
      /\ clientRequestedWithdrawals' = clientRequestedWithdrawals
      /\ activeWithdrawalRounds' = [activeWithdrawalRounds EXCEPT ![t][c] = 0]
      /\ UNCHANGED <<round, quarter, depositVars, commitVars, tokenVars>>
  BY DEF confirmWithdrawal, EndRequest, clockVars
<1>2. activeWithdrawalRounds \in [Tokens -> [Clients -> Rounds]]
  BY DEF TypeOK
<1> QED
  BY <1>1, <1>2

\* A deposit is recorded for the round that is now.
LEMMA DepositedOnChain ==
    ASSUME TypeOK, NEW c \in Clients, NEW t \in Tokens, NEW amount \in Nat,
           depositTokens(c, t, amount)
    PROVE  /\ \A k \in Rounds, u \in Tokens, d \in Clients :
                 clientDeposits'[k][u][d] = IF k = round /\ u = t /\ d = c
                                            THEN clientDeposits[k][u][d] + amount
                                            ELSE clientDeposits[k][u][d]
           /\ round \in Rounds
           /\ UNCHANGED <<round, quarter, withdrawalVars, commitVars, tokenVars, haltVars>>
<1>1. /\ clientDeposits' = [clientDeposits EXCEPT ![round][t][c] = clientDeposits[round][t][c] + amount]
      /\ UNCHANGED <<round, quarter, withdrawalVars, commitVars, tokenVars, haltVars>>
  BY DEF depositTokens, clockVars, notHalted
<1>2. /\ clientDeposits \in [Rounds -> [Tokens -> [Clients -> Nat]]] /\ round \in Rounds
  BY DEF TypeOK
<1> QED
  BY <1>1, <1>2

\* No request exceeds what was proved for it, and none is paid too early.
LEMMA RequestsAreCoveredStep ==
    ASSUME BooksStep
    PROVE  RequestsAreCovered'
<1>0. /\ [AnyNext]_vars /\ TypeOK /\ TypeOK' /\ CommitInv /\ HaltInv /\ PaymentInv
      /\ RequestsAreCovered
  BY ContractKeeps DEF BooksStep, ContractInv, IInv
<1>1. \A k \in Rounds, t \in Tokens, c \in Clients :
         /\ Requested(k, t, c)' <= clientRequestedWithdrawals'[k][t][c].openingBalance
         /\ Requested(k, t, c)' > 0 => t \in registeredTokens'
  <2> SUFFICES ASSUME NEW k \in Rounds, NEW t \in Tokens, NEW c \in Clients
               PROVE  /\ Requested(k, t, c)' <= clientRequestedWithdrawals'[k][t][c].openingBalance
                      /\ Requested(k, t, c)' > 0 => t \in registeredTokens'
    OBVIOUS
  <2>1. /\ Requested(k, t, c) <= clientRequestedWithdrawals[k][t][c].openingBalance
        /\ Requested(k, t, c) > 0 => t \in registeredTokens
    BY <1>0 DEF RequestsAreCovered
  <2>2. registeredTokens \subseteq registeredTokens'
    BY <1>0, RegistrationsStay
  <2>3. clientRequestedWithdrawals[k][t][c] \in [amount : Nat, openingBalance : Nat]
    BY <1>0, RequestedOK
  <2>4. CASE clientRequestedWithdrawals'[k][t][c] = clientRequestedWithdrawals[k][t][c]
    BY <2>1, <2>2, <2>4 DEF Requested
  <2>5. ASSUME NEW d \in Clients, NEW u \in Tokens, NEW amount \in Nat,
               initiateWithdrawal(d, u, amount)
        PROVE  /\ Requested(k, t, c)' <= clientRequestedWithdrawals'[k][t][c].openingBalance
               /\ Requested(k, t, c)' > 0 => t \in registeredTokens'
    <3>1. /\ amount <= AskedBalance(d, u) /\ u \in registeredTokens
          /\ clientRequestedWithdrawals'[k][t][c] =
                    IF k = round /\ t = u /\ c = d
                    THEN [amount |-> amount, openingBalance |-> AskedBalance(d, u)]
                    ELSE clientRequestedWithdrawals[k][t][c]
      BY <1>0, <2>5, AskedOnChain
    <3>2. CASE k = round /\ t = u /\ c = d
      BY <2>2, <3>1, <3>2 DEF Requested
    <3> QED
      BY <2>4, <3>1, <3>2
  <2>6. ASSUME NEW d \in Clients, NEW u \in Tokens, NEW shown, cancelWithdrawal(d, u, shown)
        PROVE  /\ Requested(k, t, c)' <= clientRequestedWithdrawals'[k][t][c].openingBalance
               /\ Requested(k, t, c)' > 0 => t \in registeredTokens'
    <3>0. PICK w \in Rounds :
             clientRequestedWithdrawals'[k][t][c] =
                IF k = w /\ t = u /\ c = d
                THEN [clientRequestedWithdrawals[w][u][d] EXCEPT !.amount = 0]
                ELSE clientRequestedWithdrawals[k][t][c]
      BY <1>0, <2>6, CanceledOnChain
    <3>1. \/ clientRequestedWithdrawals'[k][t][c] =
                [clientRequestedWithdrawals[k][t][c] EXCEPT !.amount = 0]
          \/ clientRequestedWithdrawals'[k][t][c] = clientRequestedWithdrawals[k][t][c]
      BY <3>0
    <3>2. CASE clientRequestedWithdrawals'[k][t][c] =
                [clientRequestedWithdrawals[k][t][c] EXCEPT !.amount = 0]
      BY <2>3, <3>2 DEF Requested
    <3> QED
      BY <2>4, <3>1, <3>2
  <2>7. ASSUME NEW d \in Clients, NEW u \in Tokens, confirmWithdrawal(d, u)
        PROVE  clientRequestedWithdrawals'[k][t][c] = clientRequestedWithdrawals[k][t][c]
    BY <1>0, <2>7, ClaimedOnChain
  <2>8. CASE UNCHANGED withdrawalVars
    BY <2>4, <2>8 DEF withdrawalVars
  <2>9. \A u \in Tokens : Amounts(u) \subseteq Nat
    BY DEF Amounts
  <2> QED
    BY <1>0, <2>4, <2>5, <2>6, <2>7, <2>8, <2>9, WithdrawalFootprint
<1>2. \A k \in Rounds, t \in Tokens, c \in Clients :
         PaidOut(k, t, c)' => halted' \/ k + 1 <= committedRounds'
  <2> SUFFICES ASSUME NEW k \in Rounds, NEW t \in Tokens, NEW c \in Clients,
                      PaidOut(k, t, c)', ~halted'
               PROVE  k + 1 <= committedRounds'
    OBVIOUS
  <2>1. committedRounds <= committedRounds' /\ (halted => halted')
    BY <1>0, CommittedForward, HaltStopsTheClock
  <2>2. committedRounds \in Nat /\ committedRounds' \in Nat /\ k \in Int /\ round \in Nat
        /\ k >= 0
    BY <1>0, ConstantsAssumption DEF TypeOK, Rounds
  <2>3. CASE PaidOut(k, t, c)
    BY <1>0, <2>1, <2>2, <2>3 DEF RequestsAreCovered
  <2>4. CASE activeWithdrawalRounds[t][c] = k /\ confirmWithdrawal(c, t)
    <3>1. k > 0 /\ RecordHalt
      BY <1>0, <2>4, ClaimedOnChain
    <3>2. ~halted /\ ~HaltDue
      BY <3>1 DEF RecordHalt
    <3>3. k <= round - 2
      BY <1>0, <2>2, <2>4, ConfirmedInTime
    <3>4. ~IsMissingCommits
      BY <2>2, <3>1, <3>2, <3>3 DEF HaltDue
    <3>5. committedRounds >= round - 1
      BY <2>2, <3>4 DEF IsMissingCommits
    <3> QED
      BY <2>1, <2>2, <3>3, <3>5
  <2> QED
    BY <1>0, <2>3, <2>4, PaidByConfirmation
<1>3. \A t \in Tokens, c \in Clients :
         activeWithdrawalRounds'[t][c] > 0 =>
            \E w \in Rounds : w = activeWithdrawalRounds'[t][c] /\ Requested(w, t, c)' > 0
  <2> SUFFICES ASSUME NEW t \in Tokens, NEW c \in Clients, activeWithdrawalRounds'[t][c] > 0
               PROVE  \E w \in Rounds : w = activeWithdrawalRounds'[t][c]
                                        /\ Requested(w, t, c)' > 0
    OBVIOUS
  <2>0. PICK w \in Rounds : w = activeWithdrawalRounds[t][c]
    BY <1>0 DEF TypeOK
  <2>1. w > 0 => Requested(w, t, c) > 0
    BY <1>0, <2>0 DEF RequestsAreCovered
  <2>2. CASE activeWithdrawalRounds'[t][c] = w
             /\ clientRequestedWithdrawals'[w][t][c] = clientRequestedWithdrawals[w][t][c]
    <3>1. Requested(w, t, c) > 0
      BY <2>0, <2>1, <2>2
    <3>2. Requested(w, t, c)' > 0
      BY <2>2, <3>1 DEF Requested
    <3> QED
      BY <2>1, <2>2, <3>2
  <2>5. ASSUME NEW d \in Clients, NEW u \in Tokens, NEW amount \in Nat,
               initiateWithdrawal(d, u, amount)
        PROVE  \E v \in Rounds : v = activeWithdrawalRounds'[t][c] /\ Requested(v, t, c)' > 0
    <3>1. CASE t = u /\ c = d
      <4>1. /\ round \in Rounds /\ amount > 0 /\ activeWithdrawalRounds'[t][c] = round
            /\ clientRequestedWithdrawals'[round][t][c] =
                  [amount |-> amount, openingBalance |-> AskedBalance(d, u)]
        BY <1>0, <2>5, <3>1, AskedOnChain
      <4>2. PICK r \in Rounds : r = round
        BY <4>1
      <4>3. Requested(r, t, c)' > 0
        BY <4>1, <4>2 DEF Requested
      <4> QED
        BY <4>1, <4>2, <4>3
    <3>2. CASE ~(t = u /\ c = d)
      <4>1. activeWithdrawalRounds'[t][c] = w
            /\ clientRequestedWithdrawals'[w][t][c] = clientRequestedWithdrawals[w][t][c]
        <5>1. /\ \A k \in Rounds, y \in Tokens, z \in Clients :
                     clientRequestedWithdrawals'[k][y][z] =
                        IF k = round /\ y = u /\ z = d
                        THEN [amount |-> amount, openingBalance |-> AskedBalance(d, u)]
                        ELSE clientRequestedWithdrawals[k][y][z]
              /\ \A y \in Tokens, z \in Clients :
                     activeWithdrawalRounds'[y][z] = IF y = u /\ z = d THEN round
                                                     ELSE activeWithdrawalRounds[y][z]
          BY <1>0, <2>5, AskedOnChain
        <5> QED
          BY <2>0, <3>2, <5>1
      <4> QED
        BY <2>2, <4>1
    <3> QED
      BY <3>1, <3>2
  <2>6. ASSUME NEW d \in Clients, NEW u \in Tokens, NEW shown, cancelWithdrawal(d, u, shown)
        PROVE  \E v \in Rounds : v = activeWithdrawalRounds'[t][c] /\ Requested(v, t, c)' > 0
    <3>0. /\ activeWithdrawalRounds'[t][c] = IF t = u /\ c = d THEN 0
                                               ELSE activeWithdrawalRounds[t][c]
          /\ ~(t = u /\ c = d) =>
                clientRequestedWithdrawals'[w][t][c] = clientRequestedWithdrawals[w][t][c]
      <4>1. PICK v \in Rounds :
               /\ \A x \in Rounds, y \in Tokens, z \in Clients :
                    clientRequestedWithdrawals'[x][y][z] =
                       IF x = v /\ y = u /\ z = d
                       THEN [clientRequestedWithdrawals[v][u][d] EXCEPT !.amount = 0]
                       ELSE clientRequestedWithdrawals[x][y][z]
               /\ \A y \in Tokens, z \in Clients :
                    activeWithdrawalRounds'[y][z] = IF y = u /\ z = d THEN 0
                                                    ELSE activeWithdrawalRounds[y][z]
        BY <1>0, <2>6, CanceledOnChain
      <4> QED
        BY <4>1
    <3>1. ~(t = u /\ c = d)
      BY <3>0
    <3>2. activeWithdrawalRounds'[t][c] = w
          /\ clientRequestedWithdrawals'[w][t][c] = clientRequestedWithdrawals[w][t][c]
      BY <2>0, <3>0, <3>1
    <3> QED
      BY <2>2, <3>2
  <2>7. ASSUME NEW d \in Clients, NEW u \in Tokens, confirmWithdrawal(d, u)
        PROVE  \E v \in Rounds : v = activeWithdrawalRounds'[t][c] /\ Requested(v, t, c)' > 0
    <3>1. activeWithdrawalRounds'[t][c] = w
          /\ clientRequestedWithdrawals'[w][t][c] = clientRequestedWithdrawals[w][t][c]
      BY <1>0, <2>0, <2>7, ClaimedOnChain
    <3> QED
      BY <2>2, <3>1
  <2>8. CASE UNCHANGED withdrawalVars
    BY <2>0, <2>2, <2>8 DEF withdrawalVars
  <2>9. \A u \in Tokens : Amounts(u) \subseteq Nat
    BY DEF Amounts
  <2> QED
    BY <1>0, <2>5, <2>6, <2>7, <2>8, <2>9, WithdrawalFootprint
<1> QED
  BY <1>1, <1>2, <1>3 DEF RequestsAreCovered

-----------------------------------------------------------------------------
(* Opening balances of rounds that have a root are fixed. *)

\* The sums, after a step.
LEMMA ChainOpeningIsNext ==
    ASSUME NEW t, NEW c, NEW r
    PROVE  ChainOpening(t, c, r)' = SumFunctionOnSet(ChainFlow(t, c)', Before(r))
BY DEF ChainOpening, ChainFlow, Before

LEMMA ChainFlowNext ==
    ASSUME TypeOK', NEW t \in Tokens, NEW c \in Clients, NEW k \in Rounds
    PROVE  /\ ChainFlow(t, c)'[k] = clientDeposits'[k][t][c] - Requested(k, t, c)'
           /\ ChainFlow(t, c)'[k] \in Int
           /\ clientDeposits'[k][t][c] \in Nat /\ Requested(k, t, c)' \in Nat
<1>1. /\ clientRequestedWithdrawals'[k][t][c] \in [amount : Nat, openingBalance : Nat]
      /\ clientDeposits'[k][t][c] \in Nat
  BY DEF TypeOK
<1>2. Requested(k, t, c)' \in Nat
  BY <1>1 DEF Requested
<1>3. ChainFlow(t, c)'[k] = clientDeposits'[k][t][c] - Requested(k, t, c)'
  BY DEF ChainFlow
<1> QED
  BY <1>1, <1>2, <1>3

\* Of the rounds before a root nothing is recorded any more.
LEMMA FlowsFixed ==
    ASSUME BooksStep, NEW t \in Tokens, NEW c \in Clients, NEW r \in Rounds,
           r = 0 \/ commits[r][t] # NoRoot
    PROVE  /\ \A k \in Before(r) : /\ clientDeposits'[k][t][c] = clientDeposits[k][t][c]
                                   /\ Requested(k, t, c)' = Requested(k, t, c)
           /\ ChainOpening(t, c, r)' = ChainOpening(t, c, r)
<1>0. [AnyNext]_vars /\ TypeOK /\ TypeOK' /\ CommitInv /\ round \in Rounds
  BY ContractKeeps DEF BooksStep, ContractInv, IInv, TypeOK
<1>1. ASSUME NEW k \in Before(r)
      PROVE  /\ clientDeposits'[k][t][c] = clientDeposits[k][t][c]
             /\ Requested(k, t, c)' = Requested(k, t, c)
  <2>1. k \in Rounds /\ k < r /\ r \in 1..round /\ k < round /\ k \in Int /\ round \in Int
        /\ commits[r][t] # NoRoot
    BY <1>0, ConstantsAssumption DEF Before, Rounds, CommitInv
  <2>2. clientDeposits'[k][t][c] = clientDeposits[k][t][c]
    <3>1. ASSUME NEW d \in Clients, NEW u \in Tokens, NEW amount \in Amounts(u),
                 depositTokens(d, u, amount)
          PROVE  clientDeposits'[k][t][c] = clientDeposits[k][t][c]
      <4>1. amount \in Nat
        BY DEF Amounts
      <4> QED
        BY <1>0, <2>1, <3>1, <4>1, DepositedOnChain
    <3> QED
      BY <1>0, <3>1, DepositFootprint DEF depositVars
  <2>3. Requested(k, t, c)' = Requested(k, t, c)
    <3>1. ASSUME NEW d \in Clients, NEW u \in Tokens, NEW amount \in Amounts(u),
                 initiateWithdrawal(d, u, amount)
          PROVE  clientRequestedWithdrawals'[k][t][c] = clientRequestedWithdrawals[k][t][c]
      <4>1. amount \in Nat
        BY DEF Amounts
      <4> QED
        <5>1. \A y \in Rounds, v \in Tokens, z \in Clients :
                 clientRequestedWithdrawals'[y][v][z] =
                    IF y = round /\ v = u /\ z = d
                    THEN [amount |-> amount, openingBalance |-> AskedBalance(d, u)]
                    ELSE clientRequestedWithdrawals[y][v][z]
          BY <1>0, <3>1, <4>1, AskedOnChain
        <5> QED
          BY <2>1, <5>1
    <3>2. ASSUME NEW d \in Clients, NEW u \in Tokens, confirmWithdrawal(d, u)
          PROVE  clientRequestedWithdrawals'[k][t][c] = clientRequestedWithdrawals[k][t][c]
      BY <1>0, <3>2, ClaimedOnChain
    <3>3. ASSUME NEW d \in Clients, NEW u \in Tokens, NEW shown, cancelWithdrawal(d, u, shown)
          PROVE  clientRequestedWithdrawals'[k][t][c] = clientRequestedWithdrawals[k][t][c]
      <4>1. PICK w \in Rounds :
               /\ canCancelWithdrawal(w, u)
               /\ clientRequestedWithdrawals'[k][t][c] =
                     IF k = w /\ t = u /\ c = d
                     THEN [clientRequestedWithdrawals[w][u][d] EXCEPT !.amount = 0]
                     ELSE clientRequestedWithdrawals[k][t][c]
        BY <1>0, <2>1, <3>3, CanceledOnChain
      <4>2. ~(k = w /\ t = u)
        BY <2>1, <4>1 DEF canCancelWithdrawal
      <4> QED
        BY <4>1, <4>2
    <3> QED
      BY <1>0, <3>1, <3>2, <3>3, WithdrawalFootprint DEF withdrawalVars, Requested
  <2> QED
    BY <2>2, <2>3
<1>2. ChainOpening(t, c, r)' = ChainOpening(t, c, r)
  <2> DEFINE f == ChainFlow(t, c)
             g == ChainFlow(t, c)'
  <2>1. IsFiniteSet(Before(r)) /\ Before(r) \subseteq Rounds
    BY BeforeOK
  <2>2. \A k \in Before(r) : f[k] \in Int /\ f[k] = g[k]
    BY <1>0, <1>1, <2>1, ChainFlowOK, ChainFlowNext
  <2>3. ChainOpening(t, c, r) = SumFunctionOnSet(f, Before(r))
        /\ ChainOpening(t, c, r)' = SumFunctionOnSet(g, Before(r))
    BY ChainOpeningIs, ChainOpeningIsNext
  <2> HIDE DEF f, g
  <2> QED
    BY <2>1, <2>2, <2>3, SumEqual
<1> QED
  BY <1>1, <1>2

\* A root comes with a mined commit only.
LEMMA RootsPart ==
    ASSUME [OpNext]_opVars
    PROVE  MinedStep \/ UNCHANGED commitVars
<1>1. CASE Clock
  BY <1>1 DEF Clock, Tick
<1>2. CASE DepositStep \/ RequestStep \/ ClaimStep
  BY <1>2 DEF DepositStep, RequestStep, ClaimStep, deposit, requestWithdrawal, claimWithdrawal,
     depositTokens, initiateWithdrawal, confirmWithdrawal
<1>3. ASSUME NEW c, NEW t, NEW shown, cancelWithdrawal(c, t, shown) PROVE UNCHANGED commitVars
  BY <1>3 DEF cancelWithdrawal
<1> QED
  BY <1>1, <1>2, <1>3, ContractPart

\* The contract's opening balance is what its records say that the clients own.
LEMMA OpeningsAddUpStep ==
    ASSUME BooksStep
    PROVE  OpeningsAddUp'
<1>0. /\ BooksState /\ [OpNext]_opVars /\ OpeningsAddUp /\ TypeOK /\ TypeOK'
      /\ IsFiniteSet(Clients)
  BY ContractKeeps, ConstantsAssumption DEF BooksStep, BooksState, ContractInv
<1> SUFFICES ASSUME NEW r \in Rounds, NEW t \in Tokens, r = 0 \/ commits'[r][t] # NoRoot
             PROVE  openingBalances'[r][t] =
                       SumFunctionOnSet([c \in Clients |-> ChainOpening(t, c, r)'], Clients)
  BY DEF OpeningsAddUp
<1> DEFINE f == [c \in Clients |-> ChainOpening(t, c, r)]
           g == [c \in Clients |-> ChainOpening(t, c, r)']
<1>1. CASE /\ r = 0 \/ commits[r][t] # NoRoot
           /\ openingBalances'[r][t] = openingBalances[r][t]
  <2>1. openingBalances[r][t] = SumFunctionOnSet(f, Clients)
    BY <1>0, <1>1 DEF OpeningsAddUp
  <2>2. \A c \in Clients : f[c] \in Int /\ f[c] = g[c]
    BY <1>0, <1>1, FlowsFixed, ChainOpeningOK
  <2> HIDE DEF f, g
  <2>3. SumFunctionOnSet(f, Clients) = SumFunctionOnSet(g, Clients)
    BY <1>0, <2>2, SumEqual
  <2> QED
    BY <1>1, <2>1, <2>3 DEF g
<1>2. CASE UNCHANGED commitVars
  BY <1>1, <1>2 DEF commitVars
<1>3. ASSUME NEW tx \in outbox, commitMined(tx)
      PROVE  openingBalances'[r][t] = SumFunctionOnSet(g, Clients)
  <2> DEFINE a == tx.asset
             root == Root(getSolvencyTree(a, round), previousClosingBalance(a))
  <2>1. /\ commits'[r][t] = IF r = round /\ t = a THEN root ELSE commits[r][t]
        /\ openingBalances'[r][t] = IF r = round /\ t = a THEN previousClosingBalance(a)
                                                          ELSE openingBalances[r][t]
        /\ UNCHANGED <<depositVars, withdrawalVars>>
    BY <1>0, <1>3, MinedCommit
  <2>2. CASE r = round /\ t = a
    <3>1. previousClosingBalance(a) = SumFunctionOnSet(ClosingShares(a), Clients)
      BY <1>0, <1>3, MinedShares
    <3>2. ClosingShares(a) = f
      BY <2>2 DEF ClosingShares
    <3>3. \A c \in Clients : ChainOpening(t, c, r)' = ChainOpening(t, c, r)
      BY <2>1 DEF ChainOpening, Requested, depositVars, withdrawalVars
    <3>4. g = f
      BY <3>3
    <3> QED
      BY <2>1, <2>2, <3>1, <3>2, <3>4
  <2>3. CASE ~(r = round /\ t = a)
    BY <1>1, <2>1, <2>3
  <2> QED
    BY <2>2, <2>3
<1> QED
  BY <1>0, <1>2, <1>3, RootsPart DEF MinedStep

\* What a root proves for a client is what the contract has recorded for it.
LEMMA ProvenOpening ==
    ASSUME BooksState, NEW r \in 1..MaxRound, NEW t \in Tokens, NEW c \in Clients,
           Proves(r, t), NEW shown \in Provable(c, t, r)
    PROVE  shown = ChainOpening(t, c, r)
<1>0. /\ OperatorTypeOK /\ TypeOK /\ ProvableIsRight /\ MaxRound \in Nat /\ r \in Rounds
  BY ConstantsAssumption DEF BooksState, ContractInv, LedgerInv, IInv, Rounds
<1>1. commits[r][t] = Tree(getSolvencyTree(t, r)) /\ \A k \in 0..(r - 1) : Agree(k, t)
  BY <1>0 DEF ProvableIsRight, Proves
<1>2. shown = openingBalance(t, c, r)
  <2>1. shown \in commits[r][t][c]
    BY DEF Provable
  <2> QED
    BY <1>1, <2>1 DEF getSolvencyTree, Tree
<1> DEFINE f == LedgerFlow(t, c)
           g == ChainFlow(t, c)
<1>3. IsFiniteSet(Before(r)) /\ Before(r) \subseteq Rounds
  BY BeforeOK
<1>4. \A k \in Before(r) : f[k] \in Int /\ f[k] = g[k]
  <2> SUFFICES ASSUME NEW k \in Before(r) PROVE f[k] \in Int /\ f[k] = g[k]
    OBVIOUS
  <2>1. k \in Rounds /\ k \in 0..(r - 1)
    BY <1>0, <1>3 DEF Before, Rounds
  <2>2. /\ accounts[k][t][c].deposited = clientDeposits[k][t][c]
        /\ accounts[k][t][c].withdrawn = Requested(k, t, c)
    BY <1>1, <2>1 DEF Agree
  <2>3. f[k] \in Int
    BY <1>0, <2>1, LedgerFlowOK
  <2> QED
    BY <2>1, <2>2, <2>3 DEF LedgerFlow, ChainFlow
<1> HIDE DEF f, g
<1>5. SumFunctionOnSet(f, Before(r)) = SumFunctionOnSet(g, Before(r))
  BY <1>3, <1>4, SumEqual
<1> QED
  BY <1>2, <1>5, OpeningIs, ChainOpeningIs DEF f, g

\* A client that has no active request has not asked for anything since the round before.
LEMMA NothingAsked ==
    ASSUME TypeOK, PaymentInv, NEW t \in Tokens, NEW c \in Clients,
           activeWithdrawalRounds[t][c] = 0, NEW k \in Rounds, k >= round - 1
    PROVE  Requested(k, t, c) = 0
<1>1. Requested(k, t, c) \in Nat /\ round \in Nat /\ k \in Nat
  <2>1. Requested(k, t, c) \in Nat
    BY RequestedOK
  <2>2. round \in Nat /\ k \in Nat
    BY ConstantsAssumption DEF TypeOK, Rounds
  <2> QED
    BY <2>1, <2>2
<1>2. /\ Requested(k, t, c) > 0 => k \in 1..round
      /\ PaidOut(k, t, c) => k + 3 <= round \/ k + 2 <= round
  BY DEF PaymentInv, Requested
<1>3. CASE Requested(k, t, c) > 0
  <2>1. PaidOut(k, t, c)
    BY <1>1, <1>2, <1>3 DEF PaidOut, Requested
  <2> QED
    BY <1>1, <1>2, <2>1
<1> QED
  BY <1>1, <1>3

\* A request takes from what was proved for the round before.
LEMMA CoveredAfterAsking ==
    ASSUME BooksStep, NEW c \in Clients, NEW t \in Tokens, NEW amount \in Nat,
           initiateWithdrawal(c, t, amount), NEW r \in 0..(MaxRound + 1), round < r
    PROVE  ChainOpening(t, c, r)' >= 0
<1> DEFINE p == round - 1
           g == ChainFlow(t, c)'
           f == ChainFlow(t, c)
           h == [k \in Rounds |-> IF k < p THEN f[k] ELSE IF k = round THEN 0 - amount ELSE 0]
           T == Before(p)
           R == Before(r) \ T
<1>0. /\ TypeOK /\ TypeOK' /\ CommitInv /\ PaymentInv /\ BooksState /\ OpeningsCovered
  BY ContractKeeps DEF BooksStep, BooksState, ContractInv, IInv
<1>1. /\ round \in 1..MaxRound /\ p \in 1..MaxRound /\ amount <= AskedBalance(c, t)
      /\ Proves(p, t) /\ AskedBalance(c, t) \in Provable(c, t, p)
      /\ AskedBalance(c, t) \in Nat /\ activeWithdrawalRounds[t][c] = 0
      /\ UNCHANGED depositVars
  BY <1>0, AskedOnChain
<1>2. \A k \in Rounds : clientRequestedWithdrawals'[k][t][c] =
         IF k = round THEN [amount |-> amount, openingBalance |-> AskedBalance(c, t)]
                      ELSE clientRequestedWithdrawals[k][t][c]
  BY <1>0, AskedOnChain
<1>3. /\ IsFiniteSet(Before(r)) /\ Before(r) \subseteq Rounds
      /\ IsFiniteSet(T) /\ T \subseteq Rounds
  BY BeforeOK
<1>4. MaxRound \in Nat /\ Rounds = 0..MaxRound
  BY ConstantsAssumption DEF Rounds
<1>5. T \subseteq Before(r) /\ round \in R /\ R \subseteq Rounds /\ IsFiniteSet(R)
  <2>1. T \subseteq Before(r) /\ round \in Before(r) /\ round \notin T
    BY <1>1, <1>4 DEF Before
  <2>2. IsFiniteSet(Before(r) \ T)
    BY <1>3, FS_Subset
  <2> QED
    BY <1>3, <2>1, <2>2
<1>6. \A k \in Before(r) : /\ g[k] \in Int /\ h[k] \in Int /\ h[k] <= g[k]
                           /\ k \in T => h[k] = f[k]
                           /\ k \in R \ {round} => h[k] = 0
  <2> SUFFICES ASSUME NEW k \in Before(r)
               PROVE  /\ g[k] \in Int /\ h[k] \in Int /\ h[k] <= g[k]
                      /\ k \in T => h[k] = f[k]
                      /\ k \in R \ {round} => h[k] = 0
    OBVIOUS
  <2>1. k \in Rounds /\ k \in Int /\ k >= 0
    BY <1>3, <1>4
  <2>2. /\ g[k] = clientDeposits'[k][t][c] - Requested(k, t, c)' /\ g[k] \in Int
        /\ clientDeposits'[k][t][c] \in Nat /\ Requested(k, t, c)' \in Nat
    BY <1>0, <2>1, ChainFlowNext
  <2>3. /\ f[k] = clientDeposits[k][t][c] - Requested(k, t, c) /\ f[k] \in Int
        /\ Requested(k, t, c) \in Nat /\ clientDeposits[k][t][c] \in Nat
    BY <1>0, <2>1, ChainFlowOK, RequestedOK
  <2>4. clientDeposits'[k][t][c] = clientDeposits[k][t][c]
    BY <1>1 DEF depositVars
  <2>5. Requested(k, t, c)' = IF k = round THEN amount ELSE Requested(k, t, c)
    <3>1. Requested(k, t, c)' = clientRequestedWithdrawals'[k][t][c].amount
      BY DEF Requested
    <3> QED
      BY <1>2, <2>1, <3>1 DEF Requested
  <2>6. h[k] = IF k < p THEN f[k] ELSE IF k = round THEN 0 - amount ELSE 0
    BY <2>1
  <2>7. k \in T <=> k < p
    BY <2>1 DEF Before
  <2>8. k >= p => Requested(k, t, c) = 0
    BY <1>0, <1>1, <2>1, NothingAsked
  <2>9. k \in R \ {round} => k >= p /\ k # round
    BY <1>1, <2>1, <2>7
  <2> HIDE DEF f, g, h, R, T
  <2>10. h[k] \in Int /\ h[k] <= g[k]
    <3>1. CASE k < p
      BY <1>1, <2>1, <2>2, <2>3, <2>4, <2>5, <2>6, <3>1
    <3>2. CASE k >= p
      BY <1>1, <2>1, <2>2, <2>3, <2>4, <2>5, <2>6, <2>8, <3>2
    <3> QED
      BY <1>1, <2>1, <3>1, <3>2
  <2> QED
    BY <1>1, <2>1, <2>2, <2>6, <2>7, <2>9, <2>10
<1>7. ChainOpening(t, c, p) = SumFunctionOnSet(f, T) /\ ChainOpening(t, c, p) \in Int
      /\ ChainOpening(t, c, p) = AskedBalance(c, t)
  BY <1>0, <1>1, ChainOpeningIs, ChainOpeningOK, ProvenOpening
<1>8. ChainOpening(t, c, r)' = SumFunctionOnSet(g, Before(r))
  BY ChainOpeningIsNext
<1>9. h[round] = 0 - amount
  BY <1>1, <1>4
<1> HIDE DEF f, g, h
<1>10. SumFunctionOnSet(h, Before(r)) <= SumFunctionOnSet(g, Before(r))
  BY <1>3, <1>6, SumLeq
<1>11. /\ SumFunctionOnSet(h, Before(r)) = SumFunctionOnSet(h, T) + SumFunctionOnSet(h, R)
       /\ SumFunctionOnSet(h, T) \in Int /\ SumFunctionOnSet(h, R) \in Int
  <2> HIDE DEF T
  <2> QED
    BY <1>3, <1>5, <1>6, SumSplit DEF R
<1>12. SumFunctionOnSet(h, T) = SumFunctionOnSet(f, T)
  <2> HIDE DEF T, R
  <2> QED
    BY <1>3, <1>5, <1>6, SumEqual
<1>13. SumFunctionOnSet(h, R) = 0 - amount
  <2>1. \A k \in R : h[k] \in Int
    BY <1>6
  <2>2. \A k \in R \ {round} : h[k] = 0
    BY <1>6
  <2> HIDE DEF R
  <2>3. SumFunctionOnSet(h, R) = h[round] + SumFunctionOnSet(h, R \ {round})
    BY <1>5, <2>1, SumTakeOut
  <2>4. SumFunctionOnSet(h, R \ {round}) = 0
    <3>1. IsFiniteSet(R \ {round})
      BY <1>5, FS_Subset
    <3> QED
      BY <2>2, <3>1, SumZero
  <2> QED
    BY <1>9, <2>3, <2>4
<1>14. SumFunctionOnSet(g, Before(r)) \in Int
  BY <1>3, <1>6, SumInt
<1> HIDE DEF T, R, p
<1>15. SumFunctionOnSet(h, Before(r)) = ChainOpening(t, c, p) + (0 - amount)
  BY <1>7, <1>11, <1>12, <1>13
<1>16. ChainOpening(t, c, p) + (0 - amount) >= 0
  BY <1>1, <1>7
<1> QED
  BY <1>7, <1>8, <1>10, <1>14, <1>15, <1>16

\* Nobody comes to owe: what is requested was proved and was not requested before.
LEMMA OpeningsCoveredStep ==
    ASSUME BooksStep
    PROVE  OpeningsCovered'
<1> SUFFICES ASSUME NEW r \in 0..(MaxRound + 1), NEW t \in Tokens, NEW c \in Clients
             PROVE  ChainOpening(t, c, r)' >= 0
  BY DEF OpeningsCovered
<1>0. /\ TypeOK /\ TypeOK' /\ CommitInv /\ OpeningsCovered /\ [AnyNext]_vars
  BY ContractKeeps DEF BooksStep, ContractInv, IInv
<1> DEFINE g == ChainFlow(t, c)'
           f == ChainFlow(t, c)
<1>1. IsFiniteSet(Before(r)) /\ Before(r) \subseteq Rounds
  BY BeforeOK
<1>2. /\ ChainOpening(t, c, r) = SumFunctionOnSet(f, Before(r))
      /\ ChainOpening(t, c, r)' = SumFunctionOnSet(g, Before(r))
      /\ ChainOpening(t, c, r) >= 0
  BY <1>0, ChainOpeningIs, ChainOpeningIsNext DEF OpeningsCovered
<1>3. \A k \in Before(r) :
         /\ f[k] \in Int /\ g[k] \in Int
         /\ f[k] = clientDeposits[k][t][c] - Requested(k, t, c)
         /\ g[k] = clientDeposits'[k][t][c] - Requested(k, t, c)'
         /\ clientDeposits[k][t][c] \in Nat /\ Requested(k, t, c) \in Nat
         /\ clientDeposits'[k][t][c] \in Nat /\ Requested(k, t, c)' \in Nat
  BY <1>0, <1>1, ChainFlowOK, ChainFlowNext, RequestedOK
<1>4. ASSUME \A k \in Before(r) : /\ clientDeposits[k][t][c] <= clientDeposits'[k][t][c]
                                  /\ Requested(k, t, c)' <= Requested(k, t, c)
      PROVE  ChainOpening(t, c, r)' >= 0
  <2>1. \A k \in Before(r) : f[k] <= g[k]
    <3> SUFFICES ASSUME NEW k \in Before(r) PROVE f[k] <= g[k]
      OBVIOUS
    <3> HIDE DEF f, g
    <3> QED
      BY <1>3, <1>4
  <2> HIDE DEF f, g
  <2>2. SumFunctionOnSet(f, Before(r)) <= SumFunctionOnSet(g, Before(r))
    BY <1>1, <1>3, <2>1, SumLeq
  <2>3. SumFunctionOnSet(f, Before(r)) \in Int /\ SumFunctionOnSet(g, Before(r)) \in Int
    BY <1>1, <1>3, SumInt
  <2> QED
    BY <1>2, <2>2, <2>3
<1> HIDE DEF f, g
<1>5. \A k \in Before(r) : clientDeposits[k][t][c] <= clientDeposits'[k][t][c]
  <2> SUFFICES ASSUME NEW k \in Before(r)
               PROVE  clientDeposits[k][t][c] <= clientDeposits'[k][t][c]
    OBVIOUS
  <2>1. ASSUME NEW d \in Clients, NEW u \in Tokens, NEW amount \in Amounts(u),
               depositTokens(d, u, amount)
        PROVE  clientDeposits[k][t][c] <= clientDeposits'[k][t][c]
    <3>1. amount \in Nat
      BY DEF Amounts
    <3>2. \/ clientDeposits'[k][t][c] = clientDeposits[k][t][c] + amount
          \/ clientDeposits'[k][t][c] = clientDeposits[k][t][c]
      BY <1>0, <1>1, <2>1, <3>1, DepositedOnChain
    <3> QED
      BY <1>3, <3>1, <3>2
  <2>2. CASE UNCHANGED depositVars
    BY <1>3, <2>2 DEF depositVars
  <2> QED
    BY <1>0, <2>1, <2>2, DepositFootprint
<1>6. ASSUME NEW d \in Clients, NEW u \in Tokens, NEW amount \in Amounts(u),
             initiateWithdrawal(d, u, amount)
      PROVE  ChainOpening(t, c, r)' >= 0
  <2>1. amount \in Nat
    BY DEF Amounts
  <2>2. CASE d = c /\ u = t /\ round < r
    BY <1>6, <2>1, <2>2, CoveredAfterAsking
  <2>3. CASE ~(d = c /\ u = t /\ round < r)
    <3>1. \A y \in Rounds, v \in Tokens, z \in Clients :
             clientRequestedWithdrawals'[y][v][z] =
                IF y = round /\ v = u /\ z = d
                THEN [amount |-> amount, openingBalance |-> AskedBalance(d, u)]
                ELSE clientRequestedWithdrawals[y][v][z]
      BY <1>0, <1>6, <2>1, AskedOnChain
    <3>2. \A k \in Before(r) : k \in Rounds /\ k < r
      BY <1>1 DEF Before
    <3>3. \A k \in Before(r) :
             clientRequestedWithdrawals'[k][t][c] = clientRequestedWithdrawals[k][t][c]
      BY <2>3, <3>1, <3>2
    <3>4. \A k \in Before(r) : Requested(k, t, c)' <= Requested(k, t, c)
      <4> SUFFICES ASSUME NEW k \in Before(r) PROVE Requested(k, t, c)' <= Requested(k, t, c)
        OBVIOUS
      <4>1. Requested(k, t, c)' = Requested(k, t, c)
        BY <3>3 DEF Requested
      <4> QED
        BY <1>3, <4>1
    <3> QED
      BY <1>4, <1>5, <3>4
  <2> QED
    BY <2>2, <2>3
<1>7. ASSUME \A d \in Clients, u \in Tokens : \A amount \in Amounts(u) :
                ~initiateWithdrawal(d, u, amount)
      PROVE  ChainOpening(t, c, r)' >= 0
  <2> SUFFICES ASSUME NEW k \in Before(r)
               PROVE  Requested(k, t, c)' <= Requested(k, t, c)
    BY <1>4, <1>5
  <2>1. clientRequestedWithdrawals[k][t][c] \in [amount : Nat, openingBalance : Nat]
    BY <1>0, <1>1, RequestedOK
  <2>2. \/ clientRequestedWithdrawals'[k][t][c] = clientRequestedWithdrawals[k][t][c]
        \/ clientRequestedWithdrawals'[k][t][c] =
              [clientRequestedWithdrawals[k][t][c] EXCEPT !.amount = 0]
    <3>1. ASSUME NEW d \in Clients, NEW u \in Tokens, NEW shown, cancelWithdrawal(d, u, shown)
          PROVE  \/ clientRequestedWithdrawals'[k][t][c] = clientRequestedWithdrawals[k][t][c]
                 \/ clientRequestedWithdrawals'[k][t][c] =
                       [clientRequestedWithdrawals[k][t][c] EXCEPT !.amount = 0]
      <4>1. PICK w \in Rounds :
               clientRequestedWithdrawals'[k][t][c] =
                  IF k = w /\ t = u /\ c = d
                  THEN [clientRequestedWithdrawals[w][u][d] EXCEPT !.amount = 0]
                  ELSE clientRequestedWithdrawals[k][t][c]
        BY <1>0, <1>1, <3>1, CanceledOnChain
      <4> QED
        BY <4>1
    <3>2. ASSUME NEW d \in Clients, NEW u \in Tokens, confirmWithdrawal(d, u)
          PROVE  clientRequestedWithdrawals'[k][t][c] = clientRequestedWithdrawals[k][t][c]
      BY <1>0, <3>2, ClaimedOnChain
    <3> QED
      BY <1>0, <1>7, <3>1, <3>2, WithdrawalFootprint DEF withdrawalVars
  <2>3. Requested(k, t, c)' = Requested(k, t, c) \/ Requested(k, t, c)' = 0
    BY <2>1, <2>2 DEF Requested
  <2> QED
    BY <1>3, <2>3
<1> QED
  BY <1>6, <1>7

-----------------------------------------------------------------------------
(* Moderation, and the blocks under way. *)

\* The parts of the invariant, to be cited as one.
LEMMA StepOfState ==
    ASSUME BooksStep
    PROVE  /\ BooksState /\ OperatorTypeOK /\ OperatorTypeOK' /\ [OpNext]_opVars /\ AtABlock
           /\ RequestIds /\ BlocksInOrder /\ AtWork
           /\ IInv /\ TypeOK /\ CommitInv /\ PaymentInv /\ HaltInv
           /\ RequestsAreCovered /\ OpeningsCovered /\ lost = 0
           /\ Moderation /\ RequestsStand /\ CommitsFollow /\ ProvableIsRight /\ OutboxInv
           /\ DepositsCovered /\ TypeOK' /\ [AnyNext]_vars /\ IInv' /\ CommitInv' /\ PaymentInv'
BY ContractKeeps DEF BooksStep, BooksState, OrderInv, ContractInv, LedgerInv, IInv, DepositsInv,
   Whole

\* A cancellation takes an order: without one nobody has requested too much.
LEMMA CancellationTakesOrders ==
    ASSUME TypeOK, RequestsAreCovered, NEW c \in Clients, NEW t \in Tokens, NEW shown,
           cancelWithdrawal(c, t, shown)
    PROVE  shown # {}
<1> SUFFICES ASSUME shown = {} PROVE FALSE
  OBVIOUS
<1>1. Reserved({}, t) = 0
  <2>1. Sold({}, {t}) = SumFunctionOnSet([r \in {s \in {} : s.sellAsset \in {t}} |-> r.sellAmount],
                                         {s \in {} : s.sellAsset \in {t}})
    BY SoldIs
  <2>2. {s \in {} : s.sellAsset \in {t}} = {}
    OBVIOUS
  <2> QED
    BY <2>1, <2>2, SumEmpty DEF Reserved
<1>2. PICK w \in Rounds :
         Requested(w, t, c) > clientRequestedWithdrawals[w][t][c].openingBalance - Reserved({}, t)
  BY CanceledOnChain
<1>3. Requested(w, t, c) <= clientRequestedWithdrawals[w][t][c].openingBalance
  BY DEF RequestsAreCovered
<1>4. clientRequestedWithdrawals[w][t][c].openingBalance \in Nat /\ Requested(w, t, c) \in Nat
  <2>1. clientRequestedWithdrawals[w][t][c] \in [amount : Nat, openingBalance : Nat]
    BY RequestedOK
  <2> QED
    BY <2>1, RequestedOK
<1> QED
  BY <1>1, <1>2, <1>3, <1>4

\* The request under moderation.
LEMMA RequestIn ==
    ASSUME OperatorTypeOK, Moderation, pc \in {"approve", "book", "cancel"}
    PROVE  request \in Withdrawal /\ request.wallet \in Clients /\ request.asset \in Tokens
           /\ request.round \in Rounds /\ request.amount \in Nat
<1>1. row \in DOMAIN withdrawals /\ request = withdrawals[row]
  BY RequestStands
<1>2. request \in Withdrawal
  BY <1>1 DEF OperatorTypeOK
<1> QED
  BY <1>2 DEF Withdrawal

\* Only what is unchecked is gone through, and nothing is canceled without an order.
LEMMA ModerationStep ==
    ASSUME BooksStep, Whole'
    PROVE  Moderation'
<1>0. /\ BooksState /\ OperatorTypeOK /\ [OpNext]_opVars /\ Moderation /\ RequestsAreCovered
      /\ TypeOK /\ approvals \subseteq approvals'
  BY StepOfState, OrdersStay
<1>1. approvals' = {} => pc' # "cancelled"
  <2> SUFFICES ASSUME approvals' = {}, pc' = "cancelled" PROVE FALSE
    OBVIOUS
  <2>1. approvals = {} /\ pc # "cancelled"
    BY <1>0 DEF Moderation
  <2>2. ~moderateWithdrawalRequest
    BY DEF moderateWithdrawalRequest, Goto
  <2>3. CancelsOnChain
    BY <1>0, <2>1, <2>2, ModerationPart DEF Moderates, Moderating
  <2>4. pc = "cancel" /\ cancelWithdrawal(request.wallet, request.asset, ShownApprovals(request))
    BY <2>3 DEF CancelsOnChain, requestCancellation
  <2>5. request.wallet \in Clients /\ request.asset \in Tokens
    BY <1>0, <2>4, RequestIn
  <2>6. ShownApprovals(request) = {}
    BY <2>1 DEF ShownApprovals
  <2> QED
    BY <1>0, <2>4, <2>5, <2>6, CancellationTakesOrders
<1>2. ASSUME pc' \in Moderates, NEW i \in todo'
      PROVE  withdrawals'[i].status = "unchecked"
  <2>1. CASE onNewQuarter /\ todo' = uncheckedWithdrawals
    <3>1. withdrawals' = withdrawals
      BY <2>1 DEF onNewQuarter, OnlyProcess, tableVars
    <3> QED
      BY <1>2, <2>1, <3>1 DEF uncheckedWithdrawals
  <2>2. CASE pc \in Moderates
    <3>1. i \in todo /\ withdrawals[i].status = "unchecked" /\ i \in DOMAIN withdrawals
      <4>1. todo' \subseteq todo
        <5>1. ~onNewQuarter
          BY <2>2 DEF onNewQuarter, Moderates, Moderating
        <5>2. CancelsOnChain => todo' = todo
          BY DEF CancelsOnChain
        <5> QED
          BY <1>0, <1>2, <5>1, <5>2, ModerationPart
      <4>2. i \in todo
        BY <1>2, <4>1
      <4>3. withdrawals[i].status = "unchecked"
        BY <1>0, <2>2, <4>2 DEF Moderation, Moderates
      <4>4. i \in DOMAIN withdrawals
        BY <1>0, <2>2, <4>2 DEF OperatorTypeOK, TodoOK, Moderates
      <4> QED
        BY <4>2, <4>3, <4>4
    <3>2. ~RowInserted
      BY <2>2 DEF RowInserted, onInitiateWithdrawal, Moderates, Moderating
    <3>3. CASE bookWithdrawal /\ SetsStatus(row, "pending")
      <4>1. todo' = todo \ {row}
        BY <3>3 DEF bookWithdrawal, NextItem
      <4>2. i # row
        BY <1>2, <4>1
      <4>3. row \in DOMAIN withdrawals
        <5>1. pc = "book"
          BY <3>3 DEF bookWithdrawal
        <5> QED
          BY <1>0, <5>1, RequestStands
      <4> HIDE DEF row
      <4> QED
        BY <1>0, <3>1, <3>3, <4>2, <4>3, StatusSet
    <3>4. CASE cancelWithdrawalInLedger
      <4>1. SetsStatus(row, "canceled") /\ row \in DOMAIN withdrawals /\ todo' = todo \ {row}
        BY <1>0, <3>4, StandingAfterEnd
      <4>2. i # row
        BY <1>2, <4>1
      <4> HIDE DEF row
      <4> QED
        BY <1>0, <3>1, <4>1, <4>2, StatusSet
    <3>5. ASSUME NEW c \in Clients, NEW t \in Tokens, NEW j \in WithdrawalsOf(t, c, {"pending"}),
                 SetsStatus(j, "confirmed")
          PROVE  withdrawals'[i].status = "unchecked"
      <4>1. j \in DOMAIN withdrawals /\ withdrawals[j].status = "pending"
        BY DEF WithdrawalsOf
      <4> QED
        BY <1>0, <3>1, <3>5, <4>1, StatusSet
    <3>6. CASE withdrawals' = withdrawals
      BY <3>1, <3>6
    <3> QED
      BY <1>0, <3>2, <3>3, <3>4, <3>5, <3>6, RowsPart
  <2> QED
    BY <1>0, <1>2, <2>1, <2>2, ModerationPart
<1> QED
  BY <1>1, <1>2 DEF Moderation, Moderates

\* A root of a round is mined when no older block is under way.
LEMMA CommitsFollowStep ==
    ASSUME BooksStep
    PROVE  CommitsFollow'
<1>0. /\ BooksState /\ OperatorTypeOK /\ [OpNext]_opVars /\ CommitsFollow /\ CommitInv
      /\ AtABlock /\ MaxRound \in Nat
  BY StepOfState, ConstantsAssumption
<1> SUFFICES ASSUME NEW r \in 1..MaxRound, NEW t \in Tokens, commits'[r][t] # NoRoot,
                    NEW i \in DOMAIN unprocessed'
             PROVE  unprocessed'[i].round >= r
  BY DEF CommitsFollow
<1>1. CASE MinedStep
  <2>1. PICK tx \in outbox : commitMined(tx)
    BY <1>1 DEF MinedStep
  <2>2. /\ unprocessed' = unprocessed
        /\ commits'[r][t] = IF r = round /\ t = tx.asset
                            THEN Root(getSolvencyTree(tx.asset, round),
                                      previousClosingBalance(tx.asset))
                            ELSE commits[r][t]
    BY <1>0, <2>1, MinedCommit DEF Rounds
  <2>3. \A j \in DOMAIN unprocessed : unprocessed[j].round = round
    BY <1>0, <2>1, MinedIsLive DEF Live
  <2>4. CASE r = round /\ t = tx.asset
    BY <2>2, <2>3, <2>4
  <2>5. CASE ~(r = round /\ t = tx.asset)
    BY <1>0, <2>2, <2>5 DEF CommitsFollow
  <2> QED
    BY <2>4, <2>5
<1>2. CASE commits' = commits
  <2>1. commits[r][t] # NoRoot /\ r <= round /\ round \in Nat
    <3>1. r \in Rounds
      BY <1>0 DEF Rounds
    <3>2. r \in 1..round
      BY <1>0, <1>2, <3>1 DEF CommitInv
    <3> QED
      BY <1>0, <1>2, <3>2, BlockTimes
  <2>2. \A j \in DOMAIN unprocessed : unprocessed[j].round >= r
    BY <1>0, <2>1 DEF CommitsFollow
  <2>3. CASE DepositStep \/ RequestStep \/ OtherEvent
    <3>1. PICK event : Mines(event)
      BY <1>0, <2>3, SomethingMines
    <3>2. PICK n : /\ unprocessed'[n] = BlockOf(event)
                   /\ DOMAIN unprocessed' = DOMAIN unprocessed \cup {n}
                   /\ \A j \in DOMAIN unprocessed : unprocessed'[j] = unprocessed[j]
      BY <1>0, <3>1, BlocksAfterMining
    <3>3. BlockOf(event).round = round
      BY DEF BlockOf
    <3> QED
      BY <2>1, <2>2, <3>2, <3>3
  <2>4. CASE saveLastProcessedBlock
    BY <1>0, <2>2, <2>4, BlocksAfterSaving
  <2>5. CASE unprocessed' = unprocessed
    BY <2>2, <2>5
  <2> QED
    BY <1>0, <2>3, <2>4, <2>5, BlocksPart
<1> QED
  BY <1>0, <1>1, <1>2, RootsPart DEF commitVars

-----------------------------------------------------------------------------
(* The requests that stand are those of the contract. *)

\* A row whose status has changed.
LEMMA ChangedIs ==
    ASSUME NEW x \in Withdrawal, NEW status \in {"unchecked", "pending", "confirmed", "canceled"}
    PROVE  /\ Changed(x, status).status = status /\ SameRequest(Changed(x, status), x)
           /\ Changed(x, status) \in Withdrawal
BY DEF Changed, SameRequest, Withdrawal

\* The requests of one client, token and round.
LEMMA OfIs ==
    ASSUME NEW k, NEW t, NEW c, NEW x
    PROVE  /\ x \in Of(k, t, c) <=> x \in Standing /\ x.round = k /\ x.asset = t /\ x.wallet = c
           /\ x \in Of(k, t, c)' <=> x \in Standing' /\ x.round = k /\ x.asset = t /\ x.wallet = c
BY DEF Of

\* The books with another account of a client, and with another value of a field of it.
Rebooked(b, r, t, c, x) == [b EXCEPT ![r][t][c] = x]
WithDeposited(b, r, t, c, v) == [b EXCEPT ![r][t][c].deposited = v]
WithWithdrawn(b, r, t, c, v) == [b EXCEPT ![r][t][c].withdrawn = v]
WithLocked(b, r, t, c, v) == [b EXCEPT ![r][t][c].locked = v]

\* A change of one account leaves the others as they are.
LEMMA RebookedIs ==
    ASSUME NEW b \in [Rounds -> [Tokens -> [Clients -> Account]]], NEW r, NEW t, NEW c, NEW x,
           NEW k \in Rounds, NEW u \in Tokens, NEW d \in Clients
    PROVE  Rebooked(b, r, t, c, x)[k][u][d] =
              IF k = r /\ u = t /\ d = c THEN x ELSE b[k][u][d]
<1> DEFINE n == Rebooked(b, r, t, c, x)
           ofToken == [b[r][t] EXCEPT ![c] = x]
           ofRound == [b[r] EXCEPT ![t] = ofToken]
<1>1. n = [b EXCEPT ![r] = ofRound]
  BY DEF Rebooked
<1>2. b \in [Rounds -> [Tokens -> [Clients -> Account]]]
  OBVIOUS
<1>3. b[k] \in [Tokens -> [Clients -> Account]] /\ b[k][u] \in [Clients -> Account]
  BY <1>2
<1> HIDE DEF n
<1>4. CASE k # r
  <2> HIDE DEF ofRound
  <2> QED
    BY <1>1, <1>2, <1>4 DEF n
<1>5. CASE k = r
  <2>1. n[k] = ofRound
    <3> HIDE DEF ofRound
    <3> QED
      BY <1>1, <1>2, <1>5
  <2>2. CASE u # t
    <3> HIDE DEF ofToken
    <3> QED
      BY <1>3, <1>5, <2>1, <2>2 DEF n
  <2>3. CASE u = t
    <3>1. n[k][u] = ofToken
      <4> HIDE DEF ofToken
      <4> QED
        BY <1>3, <1>5, <2>1, <2>3
    <3> QED
      BY <1>3, <1>5, <2>3, <3>1 DEF n
  <2> QED
    BY <2>2, <2>3
<1> QED
  BY <1>4, <1>5

\* A change of one field of an account leaves its others as they are.
LEMMA FieldsStay ==
    ASSUME NEW a \in Account, NEW v
    PROVE  /\ [a EXCEPT !.deposited = v].withdrawn = a.withdrawn
           /\ [a EXCEPT !.deposited = v].locked = a.locked
           /\ [a EXCEPT !.withdrawn = v].withdrawn = v
           /\ [a EXCEPT !.withdrawn = v].deposited = a.deposited
           /\ [a EXCEPT !.withdrawn = v].locked = a.locked
           /\ [a EXCEPT !.locked = v].withdrawn = a.withdrawn
BY DEF Account

LEMMA DepositedChanges ==
    ASSUME NEW b \in [Rounds -> [Tokens -> [Clients -> Account]]], NEW r, NEW t, NEW c, NEW v,
           NEW k \in Rounds, NEW u \in Tokens, NEW d \in Clients
    PROVE  /\ WithDeposited(b, r, t, c, v)[k][u][d].withdrawn = b[k][u][d].withdrawn
           /\ WithDeposited(b, r, t, c, v)[k][u][d].locked = b[k][u][d].locked
<1> DEFINE x == [b[r][t][c] EXCEPT !.deposited = v]
<1>1. b[k][u][d] \in Account
  OBVIOUS
<1>2. WithDeposited(b, r, t, c, v) = Rebooked(b, r, t, c, x)
  BY DEF WithDeposited, Rebooked
<1>3. r = k /\ t = u /\ c = d => x.withdrawn = b[k][u][d].withdrawn /\ x.locked = b[k][u][d].locked
  BY <1>1, FieldsStay
<1> HIDE DEF x
<1>4. Rebooked(b, r, t, c, x)[k][u][d] = IF k = r /\ u = t /\ d = c THEN x ELSE b[k][u][d]
  BY RebookedIs
<1>5. CASE k = r /\ u = t /\ d = c
  BY <1>2, <1>3, <1>4, <1>5, Zenon
<1>6. CASE ~(k = r /\ u = t /\ d = c)
  BY <1>2, <1>4, <1>6, Zenon
<1> QED
  BY <1>5, <1>6, Zenon

LEMMA WithdrawnChanges ==
    ASSUME NEW b \in [Rounds -> [Tokens -> [Clients -> Account]]], NEW r, NEW t, NEW c, NEW v,
           NEW k \in Rounds, NEW u \in Tokens, NEW d \in Clients
    PROVE  /\ WithWithdrawn(b, r, t, c, v)[k][u][d].withdrawn =
                 IF k = r /\ u = t /\ d = c THEN v ELSE b[k][u][d].withdrawn
           /\ WithWithdrawn(b, r, t, c, v)[k][u][d].deposited = b[k][u][d].deposited
           /\ WithWithdrawn(b, r, t, c, v)[k][u][d].locked = b[k][u][d].locked
<1> DEFINE x == [b[r][t][c] EXCEPT !.withdrawn = v]
<1>1. b[k][u][d] \in Account
  OBVIOUS
<1>2. WithWithdrawn(b, r, t, c, v) = Rebooked(b, r, t, c, x)
  BY DEF WithWithdrawn, Rebooked
<1>3. r = k /\ t = u /\ c = d => /\ x.withdrawn = v /\ x.deposited = b[k][u][d].deposited
                                 /\ x.locked = b[k][u][d].locked
  BY <1>1, FieldsStay
<1> HIDE DEF x
<1>4. Rebooked(b, r, t, c, x)[k][u][d] = IF k = r /\ u = t /\ d = c THEN x ELSE b[k][u][d]
  BY RebookedIs
<1>5. CASE k = r /\ u = t /\ d = c
  BY <1>2, <1>3, <1>4, <1>5, Zenon
<1>6. CASE ~(k = r /\ u = t /\ d = c)
  BY <1>2, <1>4, <1>6, Zenon
<1> QED
  BY <1>5, <1>6, Zenon

LEMMA LockedChanges ==
    ASSUME NEW b \in [Rounds -> [Tokens -> [Clients -> Account]]], NEW r, NEW t, NEW c, NEW v,
           NEW k \in Rounds, NEW u \in Tokens, NEW d \in Clients
    PROVE  /\ WithLocked(b, r, t, c, v)[k][u][d].withdrawn = b[k][u][d].withdrawn
           /\ k # r => WithLocked(b, r, t, c, v)[k][u][d].locked = b[k][u][d].locked
<1> DEFINE x == [b[r][t][c] EXCEPT !.locked = v]
<1>1. b[k][u][d] \in Account
  OBVIOUS
<1>2. WithLocked(b, r, t, c, v) = Rebooked(b, r, t, c, x)
  BY DEF WithLocked, Rebooked
<1>3. r = k /\ t = u /\ c = d => x.withdrawn = b[k][u][d].withdrawn
  BY <1>1, FieldsStay
<1> HIDE DEF x
<1>4. Rebooked(b, r, t, c, x)[k][u][d] = IF k = r /\ u = t /\ d = c THEN x ELSE b[k][u][d]
  BY RebookedIs
<1>5. CASE k = r /\ u = t /\ d = c
  BY <1>2, <1>3, <1>4, <1>5, Zenon
<1>6. CASE ~(k = r /\ u = t /\ d = c)
  BY <1>2, <1>4, <1>6, Zenon
<1> QED
  BY <1>5, <1>6, Zenon

\* What is booked of withdrawals but for a booking.
LEMMA BookedStays ==
    ASSUME OperatorTypeOK, AtABlock, onDeposit \/ OrderStep \/ accounts' = accounts
    PROVE  \A k \in Rounds, t \in Tokens, c \in Clients :
              accounts'[k][t][c].withdrawn = accounts[k][t][c].withdrawn
<1>1. accounts \in [Rounds -> [Tokens -> [Clients -> Account]]]
  BY Zenon DEF OperatorTypeOK
<1>2. CASE onDeposit
  <2>1. CASE accounts' = accounts
    BY <2>1, Zenon
  <2>2. CASE accounts' # accounts
    <3>1. PICK v : accounts' = WithDeposited(accounts, block.round, block.event.asset,
                                             block.event.wallet, v)
      BY <1>2, <2>2, Zenon DEF onDeposit, creditedRound, WithDeposited
    <3> QED
      BY <1>1, <3>1, DepositedChanges
  <2> QED
    BY <2>1, <2>2, Zenon
<1>3. ASSUME NEW a \in Approvals, insertOrder(a) \/ cancelOrder(a)
      PROVE  \A k \in Rounds, t \in Tokens, c \in Clients :
                accounts'[k][t][c].withdrawn = accounts[k][t][c].withdrawn
  <2>1. \/ accounts' = [accounts EXCEPT ![a.round][a.sellAsset][a.client].locked = @ + a.sellAmount]
        \/ accounts' = [accounts EXCEPT ![a.round][a.sellAsset][a.client].locked = @ - a.sellAmount]
    BY <1>3, Zenon DEF insertOrder, cancelOrder
  <2>2. PICK v : accounts' = WithLocked(accounts, a.round, a.sellAsset, a.client, v)
    BY <2>1, Zenon DEF WithLocked
  <2> QED
    BY <1>1, <2>2, LockedChanges
<1> QED
  BY <1>2, <1>3 DEF OrderStep

\* What the ledger has booked for them.
LEMMA BookedIs ==
    ASSUME OperatorTypeOK, Booking
    PROVE  /\ \A k \in Rounds, t \in Tokens, c \in Clients :
                 accounts'[k][t][c].withdrawn =
                    IF k = request.round /\ t = request.asset /\ c = request.wallet
                    THEN accounts[k][t][c].withdrawn + request.amount
                    ELSE accounts[k][t][c].withdrawn
           /\ \A k \in Rounds, t \in Tokens, c \in Clients :
                 accounts'[k][t][c].deposited = accounts[k][t][c].deposited
           /\ request.round \in Rounds /\ request.asset \in Tokens /\ request.wallet \in Clients
           /\ request.amount \in Nat
<1>1. accounts \in [Rounds -> [Tokens -> [Clients -> Account]]]
  BY DEF OperatorTypeOK
<1> DEFINE booked == accounts[request.round][request.asset][request.wallet].withdrawn + request.amount
<1>2. accounts' = WithWithdrawn(accounts, request.round, request.asset, request.wallet, booked)
  BY Zenon DEF Booking, bookWithdrawal, WithWithdrawn
<1>3. /\ request.round \in Rounds /\ request.asset \in Tokens /\ request.wallet \in Clients
      /\ request.amount \in Nat
  BY StandingIn DEF Booking
<1> HIDE DEF request, booked
<1>4. \A k \in Rounds, t \in Tokens, c \in Clients :
         /\ accounts'[k][t][c].withdrawn =
               IF k = request.round /\ t = request.asset /\ c = request.wallet
               THEN booked ELSE accounts[k][t][c].withdrawn
         /\ accounts'[k][t][c].deposited = accounts[k][t][c].deposited
  BY <1>1, <1>2, WithdrawnChanges
<1> QED
  BY <1>3, <1>4, Zenon DEF booked

\* What the contract has of requests in a step that leaves them alone.
LEMMA QuietOnChain ==
    ASSUME TypeOK, OperatorTypeOK,
           \/ Clock \/ DepositStep \/ ClaimStep \/ MinedStep
           \/ UNCHANGED <<clockVars, depositVars, withdrawalVars, commitVars>>
    PROVE  /\ clientRequestedWithdrawals' = clientRequestedWithdrawals
           /\ \A t \in Tokens, c \in Clients :
                 activeWithdrawalRounds'[t][c] \in {0, activeWithdrawalRounds[t][c]}
           /\ round <= round' /\ round \in Nat
<1>1. round \in Nat
  BY BlockTimes
<1>2. CASE Clock
  <2>1. UNCHANGED withdrawalVars
    BY <1>2 DEF Clock, Tick
  <2> QED
    BY <1>2, <2>1, ClockFrame DEF withdrawalVars
<1>3. CASE DepositStep
  <2>1. UNCHANGED <<withdrawalVars, clockVars>>
    BY <1>3 DEF DepositStep, deposit, depositTokens
  <2> QED
    BY <1>1, <2>1 DEF withdrawalVars, clockVars
<1>4. ASSUME NEW c \in Clients, NEW t \in Tokens, claimWithdrawal(c, t)
      PROVE  /\ clientRequestedWithdrawals' = clientRequestedWithdrawals
             /\ \A u \in Tokens, d \in Clients :
                   activeWithdrawalRounds'[u][d] \in {0, activeWithdrawalRounds[u][d]}
             /\ round <= round'
  <2>1. confirmWithdrawal(c, t)
    BY <1>4 DEF claimWithdrawal
  <2> QED
    BY <1>1, <2>1, ClaimedOnChain
<1>5. CASE MinedStep
  <2>1. UNCHANGED <<withdrawalVars, clockVars>>
    BY <1>5 DEF MinedStep, commitMined, CommitOf, commit
  <2> QED
    BY <1>1, <2>1 DEF withdrawalVars, clockVars
<1>6. CASE UNCHANGED <<clockVars, depositVars, withdrawalVars, commitVars>>
  BY <1>1, <1>6 DEF withdrawalVars, clockVars
<1> QED
  BY <1>1, <1>2, <1>3, <1>4, <1>5, <1>6 DEF ClaimStep

StandOK(x) ==
    /\ x.round \in 1..round /\ x.amount > 0
    /\ Requested(x.round, x.asset, x.wallet) = x.amount
    /\ x.status = "confirmed" => activeWithdrawalRounds[x.asset][x.wallet] # x.round

BookedOK(k, t, c) ==
    /\ Requested(k, t, c) > 0 => Of(k, t, c) # {}
    /\ \A x, y \in Of(k, t, c) : x = y
    /\ accounts[k][t][c].withdrawn =
          IF \E x \in Of(k, t, c) : Granted(x) THEN Requested(k, t, c) ELSE 0

\* The invariant in two parts: every request by itself, and all of one client and round.
LEMMA RequestsStandIs ==
    /\ RequestsStand <=> /\ \A x \in Standing : StandOK(x)
                         /\ \A k \in Rounds, t \in Tokens, c \in Clients : BookedOK(k, t, c)
    /\ RequestsStand' <=> /\ \A x \in Standing' : StandOK(x)'
                          /\ \A k \in Rounds, t \in Tokens, c \in Clients : BookedOK(k, t, c)'
BY DEF RequestsStand, StandOK, BookedOK

\* Steps that leave the requests, the records and the ledger alone.
LEMMA StandAfterNothing ==
    ASSUME BooksStep, Quiet
    PROVE  RequestsStand'
<1>0. OperatorTypeOK /\ TypeOK /\ AtABlock /\ RequestsStand
  BY StepOfState
<1>1. /\ clientRequestedWithdrawals' = clientRequestedWithdrawals
      /\ \A t \in Tokens, c \in Clients :
            activeWithdrawalRounds'[t][c] \in {0, activeWithdrawalRounds[t][c]}
      /\ round <= round' /\ round \in Nat
  BY <1>0, QuietOnChain DEF Quiet
<1>2. \A k \in Rounds, t \in Tokens, c \in Clients :
         accounts'[k][t][c].withdrawn = accounts[k][t][c].withdrawn
  BY <1>0, BookedStays DEF Quiet
<1>3. Standing' = Standing
  BY DEF Quiet
<1>4. ASSUME NEW x \in Standing PROVE StandOK(x)'
  <2>1. StandOK(x) /\ x.asset \in Tokens /\ x.wallet \in Clients
    BY <1>0, RequestsStandIs, StandingIn
  <2>2. round' \in Nat
    BY StepOfState, BlockTimes DEF OperatorTypeOK, Rounds
  <2> QED
    BY <1>1, <2>1, <2>2 DEF StandOK, Requested
<1>5. ASSUME NEW k \in Rounds, NEW t \in Tokens, NEW c \in Clients PROVE BookedOK(k, t, c)'
  <2>1. BookedOK(k, t, c)
    BY <1>0, RequestsStandIs
  <2> QED
    BY <1>1, <1>2, <1>3, <2>1 DEF BookedOK, Requested, Of
<1> QED
  BY <1>3, <1>4, <1>5, RequestsStandIs

\* Whoever can ask has not asked in this round.
LEMMA NoneYet ==
    ASSUME BooksState, NEW c \in Clients, NEW t \in Tokens,
           activeWithdrawalRounds[t][c] = 0, round \in Rounds
    PROVE  Requested(round, t, c) = 0 /\ Of(round, t, c) = {}
<1>0. TypeOK /\ PaymentInv /\ RequestsStand /\ OperatorTypeOK
  BY DEF BooksState, ContractInv, LedgerInv, IInv
<1>1. Requested(round, t, c) = 0
  BY <1>0, NothingAsked, ConstantsAssumption DEF Rounds
<1>2. \A x \in Standing : ~(x.round = round /\ x.asset = t /\ x.wallet = c)
  <2> SUFFICES ASSUME NEW x \in Standing, x.round = round, x.asset = t, x.wallet = c
               PROVE  FALSE
    OBVIOUS
  <2>1. x.amount > 0 /\ Requested(round, t, c) = x.amount
    BY <1>0 DEF RequestsStand
  <2> QED
    BY <1>1, <2>1
<1> QED
  BY <1>1, <1>2 DEF Of

\* A new request stands alone in its round.
LEMMA StandAfterAsking ==
    ASSUME BooksStep, NEW c \in Clients, NEW t \in Tokens, NEW amount \in Nat,
           Requesting(c, t, amount)
    PROVE  RequestsStand'
<1> DEFINE n == NewRequest(c, t, amount)
<1>0. /\ OperatorTypeOK /\ TypeOK /\ CommitInv /\ PaymentInv /\ RequestsStand /\ BooksState
  BY StepOfState
<1>1. initiateWithdrawal(c, t, amount) /\ Standing' = Standing \cup {n}
      /\ accounts' = accounts /\ round' = round
  BY DEF Requesting, Mines
<1>2. /\ round \in 1..MaxRound /\ round \in Rounds /\ amount > 0
      /\ activeWithdrawalRounds[t][c] = 0
      /\ \A u \in Tokens, d \in Clients :
            activeWithdrawalRounds'[u][d] = IF u = t /\ d = c THEN round
                                            ELSE activeWithdrawalRounds[u][d]
  <2>1. /\ round \in 1..MaxRound /\ round \in Rounds /\ amount > 0
        /\ activeWithdrawalRounds[t][c] = 0
    BY <1>0, <1>1, AskedOnChain
  <2>2. \A u \in Tokens, d \in Clients :
           activeWithdrawalRounds'[u][d] = IF u = t /\ d = c THEN round
                                           ELSE activeWithdrawalRounds[u][d]
    BY <1>0, <1>1, ActiveAfterAsking
  <2> QED
    BY <2>1, <2>2
<1>3. \A k \in Rounds, u \in Tokens, d \in Clients :
         clientRequestedWithdrawals'[k][u][d] =
            IF k = round /\ u = t /\ d = c
            THEN [amount |-> amount, openingBalance |-> AskedBalance(c, t)]
            ELSE clientRequestedWithdrawals[k][u][d]
  BY <1>0, <1>1, AskedOnChain
<1>4. \A k \in Rounds, u \in Tokens, d \in Clients :
         Requested(k, u, d)' = IF k = round /\ u = t /\ d = c THEN amount ELSE Requested(k, u, d)
  <2> SUFFICES ASSUME NEW k \in Rounds, NEW u \in Tokens, NEW d \in Clients
               PROVE  Requested(k, u, d)' = IF k = round /\ u = t /\ d = c THEN amount
                                            ELSE Requested(k, u, d)
    OBVIOUS
  <2>1. Requested(k, u, d)' = clientRequestedWithdrawals'[k][u][d].amount
    BY DEF Requested
  <2> QED
    BY <1>3, <2>1 DEF Requested
<1>5. Requested(round, t, c) = 0 /\ Of(round, t, c) = {}
  BY <1>0, <1>2, NoneYet
<1>6. /\ n.round = round /\ n.asset = t /\ n.wallet = c /\ n.amount = amount
      /\ n.status = "unchecked"
  BY DEF NewRequest
<1> HIDE DEF n
<1>7. ASSUME NEW x \in Standing' PROVE StandOK(x)'
  <2>1. CASE x = n
    <3>1. Requested(x.round, x.asset, x.wallet)' = amount
      <4>1. Requested(round, t, c)' = amount
        <5>1. PICK r \in Rounds : r = round
          BY <1>2
        <5>2. Requested(r, t, c)' = amount
          BY <1>4, <5>1
        <5> QED
          BY <1>1, <5>1, <5>2
      <4> QED
        BY <1>1, <1>6, <2>1, <4>1
    <3> QED
      BY <1>1, <1>2, <1>6, <2>1, <3>1 DEF StandOK
  <2>2. CASE x \in Standing
    <3>1. /\ StandOK(x) /\ x.round \in Rounds /\ x.asset \in Tokens /\ x.wallet \in Clients
          /\ x.round \in 1..round
      BY <1>0, <2>2, RequestsStandIs, StandingIn DEF StandOK
    <3>2. ~(x.round = round /\ x.asset = t /\ x.wallet = c)
      BY <1>5, <2>2, OfIs
    <3>3. Requested(x.round, x.asset, x.wallet)' = Requested(x.round, x.asset, x.wallet)
      BY <1>4, <3>1, <3>2
    <3>4. activeWithdrawalRounds'[x.asset][x.wallet] =
             IF x.asset = t /\ x.wallet = c THEN round
             ELSE activeWithdrawalRounds[x.asset][x.wallet]
      BY <1>2, <3>1
    <3> QED
      BY <1>1, <3>1, <3>2, <3>3, <3>4 DEF StandOK
  <2> QED
    BY <1>1, <2>1, <2>2
<1>8. ASSUME NEW k \in Rounds, NEW u \in Tokens, NEW d \in Clients PROVE BookedOK(k, u, d)'
  <2>1. BookedOK(k, u, d)
    BY <1>0, RequestsStandIs
  <2>2. CASE k = round /\ u = t /\ d = c
    <3>1. Of(k, u, d)' = {n}
      <4>1. \A x : x \in Of(k, u, d)' <=> x = n
        BY <1>1, <1>5, <1>6, <2>2, OfIs
      <4> QED
        BY <4>1
    <3>2. accounts[k][u][d].withdrawn = 0
      BY <1>5, <2>1, <2>2 DEF BookedOK
    <3>3. ~Granted(n)
      BY <1>6 DEF Granted
    <3>4. \A x : Granted(x)' <=> Granted(x)
      BY DEF Granted
    <3> QED
      BY <1>1, <3>1, <3>2, <3>3, <3>4 DEF BookedOK
  <2>3. CASE ~(k = round /\ u = t /\ d = c)
    <3>1. Of(k, u, d)' = Of(k, u, d)
      <4>1. \A x : x \in Of(k, u, d)' <=> x \in Of(k, u, d)
        BY <1>1, <1>6, <2>3, OfIs
      <4> QED
        BY <4>1 DEF Of
    <3>2. Requested(k, u, d)' = Requested(k, u, d)
      BY <1>4, <2>3
    <3> QED
      BY <1>1, <2>1, <3>1, <3>2 DEF BookedOK
  <2> QED
    BY <2>2, <2>3
<1> QED
  BY <1>7, <1>8, RequestsStandIs

\* What the new status of a request makes of those of its round and client.
LEMMA OfChanged ==
    ASSUME OperatorTypeOK, NEW q \in Standing,
           NEW status \in {"pending", "confirmed"},
           Standing' = (Standing \ {q}) \cup {Changed(q, status)},
           NEW k \in Rounds, NEW t \in Tokens, NEW c \in Clients, BookedOK(k, t, c)
    PROVE  IF k = q.round /\ t = q.asset /\ c = q.wallet
           THEN Of(k, t, c) = {q} /\ Of(k, t, c)' = {Changed(q, status)}
           ELSE Of(k, t, c)' = Of(k, t, c)
<1> DEFINE n == Changed(q, status)
<1>1. q \in Withdrawal
  BY StandingIn
<1>2. n.round = q.round /\ n.asset = q.asset /\ n.wallet = q.wallet
  BY <1>1, ChangedIs DEF SameRequest
<1> HIDE DEF n
<1>3. CASE k = q.round /\ t = q.asset /\ c = q.wallet
  <2>1. Of(k, t, c) = {q}
    BY <1>3, OfIs DEF BookedOK
  <2>2. \A x : x \in Of(k, t, c)' <=> x = n
    BY <1>2, <1>3, <2>1, OfIs DEF n
  <2>3. Of(k, t, c)' = {n}
    BY <2>2
  <2> QED
    BY <1>3, <2>1, <2>3 DEF n
<1>4. CASE ~(k = q.round /\ t = q.asset /\ c = q.wallet)
  <2>1. \A x : x \in Of(k, t, c)' <=> x \in Of(k, t, c)
    BY <1>2, <1>4, OfIs DEF n
  <2>2. Of(k, t, c)' = Of(k, t, c)
    BY <2>1 DEF Of
  <2> QED
    BY <1>4, <2>2
<1> QED
  BY <1>3, <1>4

\* A granted request is booked for its round.
LEMMA StandAfterBooking ==
    ASSUME BooksStep, Booking
    PROVE  RequestsStand'
<1> DEFINE q == request
           n == Changed(q, "pending")
<1>0. OperatorTypeOK /\ TypeOK /\ RequestsStand
  BY StepOfState
<1>1. /\ q \in Standing /\ q.status = "unchecked" /\ Standing' = (Standing \ {q}) \cup {n}
      /\ UNCHANGED mediatorVars
  BY DEF Booking
<1>2. UNCHANGED <<round, clientRequestedWithdrawals, activeWithdrawalRounds>>
  BY <1>1 DEF mediatorVars, vars, clockVars, withdrawalVars
<1>3. /\ q \in Withdrawal /\ q.round \in Rounds /\ q.asset \in Tokens /\ q.wallet \in Clients
      /\ q.amount \in Nat
  BY <1>0, <1>1, StandingIn
<1>4. n.status = "pending" /\ SameRequest(n, q)
  BY <1>3, ChangedIs
<1>5. \A k \in Rounds, t \in Tokens, c \in Clients :
         accounts'[k][t][c].withdrawn =
            IF k = q.round /\ t = q.asset /\ c = q.wallet
            THEN accounts[k][t][c].withdrawn + q.amount
            ELSE accounts[k][t][c].withdrawn
  BY <1>0, BookedIs
<1>6. \A k \in Rounds, t \in Tokens, c \in Clients :
         IF k = q.round /\ t = q.asset /\ c = q.wallet
         THEN Of(k, t, c) = {q} /\ Of(k, t, c)' = {n}
         ELSE Of(k, t, c)' = Of(k, t, c)
  <2> HIDE DEF q
  <2> QED
    BY <1>0, <1>1, OfChanged, RequestsStandIs
<1>9. StandOK(q)
  BY <1>0, <1>1, RequestsStandIs
<1>7. ASSUME NEW x \in Standing' PROVE StandOK(x)'
  <2> HIDE DEF q, n
  <2>1. CASE x = n
    BY <1>2, <1>4, <1>9, <2>1 DEF StandOK, Requested, SameRequest
  <2>2. CASE x \in Standing
    <3>1. StandOK(x)
      BY <1>0, <2>2, RequestsStandIs
    <3> QED
      BY <1>2, <3>1 DEF StandOK, Requested
  <2> QED
    BY <1>1, <2>1, <2>2
<1>8. ASSUME NEW k \in Rounds, NEW t \in Tokens, NEW c \in Clients PROVE BookedOK(k, t, c)'
  <2> HIDE DEF q, n
  <2>1. BookedOK(k, t, c)
    BY <1>0, RequestsStandIs
  <2>2. Requested(k, t, c)' = Requested(k, t, c)
    BY <1>2 DEF Requested
  <2>4. \A x : (Granted(x)' <=> Granted(x))
    BY DEF Granted
  <2>5. CASE k = q.round /\ t = q.asset /\ c = q.wallet
    <3>1. Of(k, t, c) = {q} /\ Of(k, t, c)' = {n}
      BY <1>6, <2>5
    <3>2. ~Granted(q) /\ Granted(n)
      BY <1>1, <1>4 DEF Granted
    <3>3. accounts[k][t][c].withdrawn = 0
      BY <2>1, <3>1, <3>2 DEF BookedOK
    <3>4. Requested(k, t, c) = q.amount
      BY <1>9, <2>5 DEF StandOK
    <3>5. accounts'[k][t][c].withdrawn = q.amount
      BY <1>3, <1>5, <2>5, <3>3
    <3> QED
      BY <2>2, <2>4, <3>1, <3>2, <3>4, <3>5 DEF BookedOK
  <2>6. CASE ~(k = q.round /\ t = q.asset /\ c = q.wallet)
    <3>1. Of(k, t, c)' = Of(k, t, c) /\ accounts'[k][t][c].withdrawn = accounts[k][t][c].withdrawn
      BY <1>5, <1>6, <2>6
    <3> QED
      BY <2>1, <2>2, <2>4, <3>1 DEF BookedOK
  <2> QED
    BY <2>5, <2>6
<1> QED
  BY <1>7, <1>8, RequestsStandIs

\* A confirmed request is no longer the active one.
LEMMA StandAfterClaiming ==
    ASSUME BooksStep, NEW c \in Clients, NEW t \in Tokens, NEW q \in Standing, Claiming(c, t, q)
    PROVE  RequestsStand'
<1> DEFINE n == Changed(q, "confirmed")
<1>0. OperatorTypeOK /\ TypeOK /\ RequestsStand
  BY StepOfState
<1>1. /\ q.status = "pending" /\ q.asset = t /\ q.wallet = c /\ confirmWithdrawal(c, t)
      /\ Standing' = (Standing \ {q}) \cup {n} /\ accounts' = accounts
  BY DEF Claiming
<1>2. /\ UNCHANGED <<round, clientRequestedWithdrawals>>
      /\ \A u \in Tokens, d \in Clients :
            activeWithdrawalRounds'[u][d] = IF u = t /\ d = c THEN 0
                                            ELSE activeWithdrawalRounds[u][d]
  BY <1>0, <1>1, ClaimedOnChain
<1>3. q \in Withdrawal /\ StandOK(q)
  BY <1>0, StandingIn, RequestsStandIs
<1>4. n.status = "confirmed" /\ SameRequest(n, q)
  BY <1>3, ChangedIs
<1>6. \A k \in Rounds, u \in Tokens, d \in Clients :
         IF k = q.round /\ u = q.asset /\ d = q.wallet
         THEN Of(k, u, d) = {q} /\ Of(k, u, d)' = {n}
         ELSE Of(k, u, d)' = Of(k, u, d)
  BY <1>0, <1>1, OfChanged, RequestsStandIs
<1> HIDE DEF n
<1>7. ASSUME NEW x \in Standing' PROVE StandOK(x)'
  <2>1. CASE x = n
    <3>1. activeWithdrawalRounds'[x.asset][x.wallet] = 0
      BY <1>1, <1>2, <1>4, <2>1 DEF SameRequest
    <3>2. x.round \in 1..round /\ x.amount > 0
          /\ Requested(x.round, x.asset, x.wallet) = x.amount
      BY <1>3, <1>4, <2>1 DEF StandOK, SameRequest
    <3>3. Requested(x.round, x.asset, x.wallet)' = x.amount
      BY <1>2, <3>2 DEF Requested
    <3>4. x.round # 0
      BY <3>2
    <3> QED
      BY <1>2, <3>1, <3>2, <3>3, <3>4 DEF StandOK
  <2>2. CASE x \in Standing
    <3>1. StandOK(x) /\ x.asset \in Tokens /\ x.wallet \in Clients
      BY <1>0, <2>2, RequestsStandIs, StandingIn
    <3>2. activeWithdrawalRounds'[x.asset][x.wallet] = 0
          \/ activeWithdrawalRounds'[x.asset][x.wallet] = activeWithdrawalRounds[x.asset][x.wallet]
      BY <1>2, <3>1
    <3>3. Requested(x.round, x.asset, x.wallet)' = Requested(x.round, x.asset, x.wallet)
      BY <1>2 DEF Requested
    <3>4. x.round # 0
      BY <3>1 DEF StandOK
    <3> QED
      BY <1>2, <3>1, <3>2, <3>3, <3>4 DEF StandOK
  <2> QED
    BY <1>1, <2>1, <2>2
<1>8. ASSUME NEW k \in Rounds, NEW u \in Tokens, NEW d \in Clients PROVE BookedOK(k, u, d)'
  <2>1. BookedOK(k, u, d)
    BY <1>0, RequestsStandIs
  <2>2. Requested(k, u, d)' = Requested(k, u, d)
    BY <1>2 DEF Requested
  <2>4. \A x : (Granted(x)' <=> Granted(x))
    BY DEF Granted
  <2>5. CASE k = q.round /\ u = q.asset /\ d = q.wallet
    <3>1. Of(k, u, d) = {q} /\ Of(k, u, d)' = {n}
      BY <1>6, <2>5
    <3>2. Granted(q) /\ Granted(n)
      BY <1>1, <1>4 DEF Granted
    <3> QED
      BY <1>1, <2>1, <2>2, <2>4, <3>1, <3>2 DEF BookedOK
  <2>6. CASE ~(k = q.round /\ u = q.asset /\ d = q.wallet)
    <3>1. Of(k, u, d)' = Of(k, u, d)
      BY <1>6, <2>6
    <3> QED
      BY <1>1, <2>1, <2>2, <2>4, <3>1 DEF BookedOK
  <2> QED
    BY <2>5, <2>6
<1> QED
  BY <1>7, <1>8, RequestsStandIs

\* It is the request that is moderated that is canceled on the chain.
LEMMA CanceledIsActive ==
    ASSUME BooksState, Cancelling
    PROVE  /\ request.wallet \in Clients /\ request.asset \in Tokens /\ request.round \in Rounds
           /\ cancelWithdrawal(request.wallet, request.asset, ShownApprovals(request))
           /\ activeWithdrawalRounds[request.asset][request.wallet] = request.round
           /\ CrashFree /\ OneAtATime /\ approvals # {}
<1>0. OperatorTypeOK /\ TypeOK /\ RequestsAreCovered /\ Whole /\ (CrashFree => CrashFreeInv)
  BY DEF BooksState, ContractInv, IInv
<1>1. /\ request \in Standing /\ request.status = "unchecked"
      /\ cancelWithdrawal(request.wallet, request.asset, ShownApprovals(request))
  BY DEF Cancelling, CancelsOnChain
<1>2. /\ request.wallet \in Clients /\ request.asset \in Tokens /\ request.round \in Rounds
  BY <1>0, <1>1, StandingIn
<1>3. ShownApprovals(request) # {}
  BY <1>0, <1>1, <1>2, CancellationTakesOrders
<1>4. approvals # {}
  BY <1>3 DEF ShownApprovals
<1>5. CrashFree /\ OneAtATime
  BY <1>0, <1>4 DEF Whole, CancellationsAreWhole, CrashFree, CrashFreeInv
<1> DEFINE q == request
           shown == ShownApprovals(request)
<1>6. /\ q \in Standing /\ q.status = "unchecked" /\ q.wallet \in Clients /\ q.asset \in Tokens
      /\ cancelWithdrawal(q.wallet, q.asset, shown)
  BY <1>1, <1>2
<1> HIDE DEF q, shown
<1>7. activeWithdrawalRounds[q.asset][q.wallet] \in {0, q.round}
  BY <1>5, <1>6 DEF OneAtATime, Unfinished
<1>8. activeWithdrawalRounds[q.asset][q.wallet] > 0
  BY <1>6, Zenon DEF cancelWithdrawal
<1>9. activeWithdrawalRounds[q.asset][q.wallet] # 0
  BY <1>8
<1> QED
  BY <1>1, <1>2, <1>4, <1>5, <1>7, <1>9 DEF q

\* What the cancellation does on the chain.
LEMMA CancellingChain ==
    ASSUME BooksState, Cancelling
    PROVE  /\ \A k \in Rounds, t \in Tokens, c \in Clients :
                 Requested(k, t, c)' =
                    IF k = request.round /\ t = request.asset /\ c = request.wallet THEN 0
                    ELSE Requested(k, t, c)
           /\ \A t \in Tokens, c \in Clients :
                 activeWithdrawalRounds'[t][c] =
                    IF t = request.asset /\ c = request.wallet THEN 0
                    ELSE activeWithdrawalRounds[t][c]
           /\ UNCHANGED <<round, quarter, depositVars, commitVars, haltVars, tokenVars>>
           /\ ~halted /\ ~HaltDue /\ canCancelWithdrawal(request.round, request.asset)
<1> DEFINE q == request
<1>0. TypeOK
  BY DEF BooksState, ContractInv, IInv
<1>1. /\ q.wallet \in Clients /\ q.asset \in Tokens /\ q.round \in Rounds
      /\ cancelWithdrawal(q.wallet, q.asset, ShownApprovals(q))
      /\ activeWithdrawalRounds[q.asset][q.wallet] = q.round
  BY CanceledIsActive
<1> HIDE DEF q
<1>2. PICK w \in Rounds :
         /\ w = activeWithdrawalRounds[q.asset][q.wallet] /\ canCancelWithdrawal(w, q.asset)
         /\ \A k \in Rounds, u \in Tokens, d \in Clients :
               clientRequestedWithdrawals'[k][u][d] =
                  IF k = w /\ u = q.asset /\ d = q.wallet
                  THEN [clientRequestedWithdrawals[w][q.asset][q.wallet] EXCEPT !.amount = 0]
                  ELSE clientRequestedWithdrawals[k][u][d]
         /\ \A u \in Tokens, d \in Clients :
               activeWithdrawalRounds'[u][d] = IF u = q.asset /\ d = q.wallet THEN 0
                                               ELSE activeWithdrawalRounds[u][d]
         /\ UNCHANGED <<round, quarter, depositVars, commitVars, haltVars, tokenVars>>
         /\ ~halted /\ ~HaltDue
  BY <1>0, <1>1, CanceledOnChain
<1>3. w = q.round
  BY <1>1, <1>2
<1>4. clientRequestedWithdrawals[w][q.asset][q.wallet] \in [amount : Nat, openingBalance : Nat]
  BY <1>0, <1>1, RequestedOK
<1>5. \A k \in Rounds, t \in Tokens, c \in Clients :
         Requested(k, t, c)' = IF k = q.round /\ t = q.asset /\ c = q.wallet THEN 0
                               ELSE Requested(k, t, c)
  <2> SUFFICES ASSUME NEW k \in Rounds, NEW t \in Tokens, NEW c \in Clients
               PROVE  Requested(k, t, c)' = IF k = q.round /\ t = q.asset /\ c = q.wallet THEN 0
                                            ELSE Requested(k, t, c)
    OBVIOUS
  <2>1. Requested(k, t, c)' = clientRequestedWithdrawals'[k][t][c].amount
    BY DEF Requested
  <2> QED
    BY <1>2, <1>3, <1>4, <2>1 DEF Requested
<1>6. canCancelWithdrawal(q.round, q.asset)
  BY <1>2, <1>3
<1> QED
  BY <1>2, <1>5, <1>6 DEF q

\* A canceled request stands no longer, on the chain or in the ledger.
LEMMA StandAfterCancelling ==
    ASSUME BooksStep, Cancelling
    PROVE  RequestsStand'
<1> DEFINE q == request
<1>0. OperatorTypeOK /\ RequestsStand /\ BooksState
  BY StepOfState
<1>1. q \in Standing /\ Standing' = Standing \ {q} /\ accounts' = accounts
      /\ q.status = "unchecked"
  BY DEF Cancelling
<1>2. /\ \A k \in Rounds, t \in Tokens, c \in Clients :
            Requested(k, t, c)' = IF k = q.round /\ t = q.asset /\ c = q.wallet THEN 0
                                  ELSE Requested(k, t, c)
      /\ \A t \in Tokens, c \in Clients :
            activeWithdrawalRounds'[t][c] = IF t = q.asset /\ c = q.wallet THEN 0
                                            ELSE activeWithdrawalRounds[t][c]
      /\ UNCHANGED round
  BY <1>0, CancellingChain
<1> HIDE DEF q
<1>3. \A k \in Rounds, t \in Tokens, c \in Clients : BookedOK(k, t, c)
  BY <1>0, RequestsStandIs
<1>4. \A k \in Rounds, t \in Tokens, c \in Clients :
         IF k = q.round /\ t = q.asset /\ c = q.wallet
         THEN Of(k, t, c) = {q} /\ Of(k, t, c)' = {}
         ELSE Of(k, t, c)' = Of(k, t, c)
  <2> SUFFICES ASSUME NEW k \in Rounds, NEW t \in Tokens, NEW c \in Clients
               PROVE  IF k = q.round /\ t = q.asset /\ c = q.wallet
                      THEN Of(k, t, c) = {q} /\ Of(k, t, c)' = {}
                      ELSE Of(k, t, c)' = Of(k, t, c)
    OBVIOUS
  <2>1. CASE k = q.round /\ t = q.asset /\ c = q.wallet
    <3>1. Of(k, t, c) = {q}
      BY <1>1, <1>3, <2>1, OfIs DEF BookedOK
    <3>2. \A x : x \notin Of(k, t, c)'
      BY <1>1, <3>1, OfIs
    <3> QED
      BY <2>1, <3>1, <3>2
  <2>2. CASE ~(k = q.round /\ t = q.asset /\ c = q.wallet)
    <3>1. \A x : x \in Of(k, t, c)' <=> x \in Of(k, t, c)
      BY <1>1, <2>2, OfIs
    <3>2. Of(k, t, c)' = Of(k, t, c)
      BY <3>1 DEF Of
    <3> QED
      BY <2>2, <3>2
  <2> QED
    BY <2>1, <2>2
<1>5. ASSUME NEW x \in Standing' PROVE StandOK(x)'
  <2>1. x \in Standing /\ x # q
    BY <1>1
  <2>2. StandOK(x) /\ x.round \in Rounds /\ x.asset \in Tokens /\ x.wallet \in Clients
    BY <1>0, <2>1, RequestsStandIs, StandingIn
  <2>3. ~(x.round = q.round /\ x.asset = q.asset /\ x.wallet = q.wallet)
    BY <1>4, <2>1, <2>2, OfIs
  <2>4. Requested(x.round, x.asset, x.wallet)' = Requested(x.round, x.asset, x.wallet)
    BY <1>2, <2>2, <2>3
  <2>5. activeWithdrawalRounds'[x.asset][x.wallet] = 0
        \/ activeWithdrawalRounds'[x.asset][x.wallet] = activeWithdrawalRounds[x.asset][x.wallet]
    BY <1>2, <2>2
  <2>6. x.round # 0
    BY <2>2 DEF StandOK
  <2> QED
    BY <1>2, <2>2, <2>4, <2>5, <2>6 DEF StandOK
<1>6. ASSUME NEW k \in Rounds, NEW t \in Tokens, NEW c \in Clients PROVE BookedOK(k, t, c)'
  <2>1. BookedOK(k, t, c)
    BY <1>3
  <2>4. \A x : (Granted(x)' <=> Granted(x))
    BY DEF Granted
  <2>5. CASE k = q.round /\ t = q.asset /\ c = q.wallet
    <3>1. Of(k, t, c) = {q} /\ Of(k, t, c)' = {} /\ Requested(k, t, c)' = 0
      BY <1>2, <1>4, <2>5
    <3>2. ~Granted(q)
      BY <1>1 DEF Granted
    <3>3. accounts[k][t][c].withdrawn = 0
      BY <2>1, <3>1, <3>2 DEF BookedOK
    <3> QED
      BY <1>1, <3>1, <3>3 DEF BookedOK
  <2>6. CASE ~(k = q.round /\ t = q.asset /\ c = q.wallet)
    <3>1. Of(k, t, c)' = Of(k, t, c) /\ Requested(k, t, c)' = Requested(k, t, c)
      BY <1>2, <1>4, <2>6
    <3> QED
      BY <1>1, <2>1, <2>4, <3>1 DEF BookedOK
  <2> QED
    BY <2>5, <2>6
<1> QED
  BY <1>5, <1>6, RequestsStandIs

\* The contract records what stands, and the ledger what was granted.
LEMMA RequestsStandStep ==
    ASSUME BooksStep, Whole'
    PROVE  RequestsStand'
BY StandingPart, StandAfterAsking, StandAfterBooking, StandAfterCancelling,
   StandAfterClaiming, StandAfterNothing

-----------------------------------------------------------------------------
(* What the ledger has booked for the rounds before a root is fixed. *)

\* A deposit is credited to the round of its block.
LEMMA CreditsPart ==
    ASSUME BooksStep
    PROVE  \/ /\ onDeposit /\ unprocessed # <<>> /\ 1 \in DOMAIN unprocessed
              /\ block = unprocessed[1]
              /\ \A k \in Rounds, t \in Tokens, c \in Clients :
                    k # block.round =>
                       accounts'[k][t][c].deposited = accounts[k][t][c].deposited
           \/ \A k \in Rounds, t \in Tokens, c \in Clients :
                 accounts'[k][t][c].deposited = accounts[k][t][c].deposited
<1>0. /\ OperatorTypeOK /\ OperatorTypeOK' /\ AtABlock /\ [OpNext]_opVars /\ BooksState
      /\ accounts \in [Rounds -> [Tokens -> [Clients -> Account]]]
  BY StepOfState DEF OperatorTypeOK
<1>1. CASE onDeposit
  <2>1. unprocessed # <<>> /\ IsDeposit(1)
    <3>1. pc = "event" /\ block.event.type = "deposit"
      BY <1>1 DEF onDeposit
    <3>2. unprocessed # <<>>
      BY <1>0, <3>1 DEF AtABlock
    <3> QED
      BY <1>0, <3>1, <3>2, BlockIn DEF IsDeposit
  <2>2. /\ block = unprocessed[1] /\ 1 \in DOMAIN unprocessed
        /\ block.round \in Rounds /\ block.event.asset \in Tokens
        /\ block.event.wallet \in Clients /\ block.event.amount \in Nat
    BY <1>0, <2>1, OwnBlock
  <2>3. accounts' = accounts
        \/ Credits(block.round, block.event.asset, block.event.wallet, block.event.amount)
    BY <1>1 DEF onDeposit, Credits, creditedRound
  <2>4. ASSUME NEW k \in Rounds, NEW t \in Tokens, NEW c \in Clients, k # block.round
        PROVE  accounts'[k][t][c].deposited = accounts[k][t][c].deposited
    <3>1. CASE accounts' = accounts
      BY <3>1
    <3>2. CASE Credits(block.round, block.event.asset, block.event.wallet, block.event.amount)
      <4>1. <<k, t, c>> # <<block.round, block.event.asset, block.event.wallet>>
        BY <2>4
      <4> QED
        BY <1>0, <2>2, <3>2, <4>1, AccountCredited
    <3> QED
      BY <2>3, <3>1, <3>2
  <2> QED
    BY <1>1, <2>1, <2>2, <2>4
<1>2. CASE bookWithdrawal
  BY <1>0, <1>2, BookingPart, BookedIs
<1>3. CASE cancelWithdrawalInLedger
  BY <1>0, <1>3, StandingAfterEnd
<1>4. CASE OrderStep
  <2>1. \E r \in Rounds, t \in Tokens, c \in Clients, v \in Int : SetsLocked(r, t, c, v)
    <3>1. PICK a \in Approvals : insertOrder(a) \/ cancelOrder(a)
      BY <1>4 DEF OrderStep
    <3>2. /\ a.round \in Rounds /\ a.sellAsset \in Tokens /\ a.client \in Clients
          /\ a.sellAmount \in Nat
      <4>1. a \in Approval /\ a.sellAsset \in Tokens
        BY ConstantsAssumption, OperatorAssumption, Zenon
      <4>2. a.round = _round
        BY <3>1, Zenon DEF insertOrder, cancelOrder
      <4> QED
        BY <1>0, <4>1, <4>2, Zenon DEF Approval, OperatorTypeOK
    <3>3. accounts[a.round][a.sellAsset][a.client] \in Account
      BY <1>0, <3>2
    <3>4. PICK v : /\ v = accounts[a.round][a.sellAsset][a.client].locked + a.sellAmount
                      \/ v = accounts[a.round][a.sellAsset][a.client].locked - a.sellAmount
                   /\ SetsLocked(a.round, a.sellAsset, a.client, v)
      BY <3>1, Zenon DEF insertOrder, cancelOrder, SetsLocked
    <3>5. v \in Int
      BY <3>2, <3>3, <3>4 DEF Account
    <3> QED
      BY <3>2, <3>4, <3>5
  <2> QED
    BY <1>0, <2>1, AccountsKept
<1>5. CASE onInitiateWithdrawal \/ ClaimStep \/ UNCHANGED accounts
  BY <1>5 DEF onInitiateWithdrawal, ClaimStep, claimWithdrawal
<1> QED
  BY <1>0, <1>1, <1>2, <1>3, <1>4, <1>5, LedgerPart

\* The opening balance of a round is that of the rounds before it.
LEMMA OpeningKept ==
    ASSUME OperatorTypeOK, OperatorTypeOK', NEW t \in Tokens, NEW c \in Clients, NEW r,
           \A k \in Before(r) : /\ accounts'[k][t][c].deposited = accounts[k][t][c].deposited
                                /\ accounts'[k][t][c].withdrawn = accounts[k][t][c].withdrawn
    PROVE  openingBalance(t, c, r)' = openingBalance(t, c, r)
<1> DEFINE f == LedgerFlow(t, c)
           S == Before(r)
<1>1. \A k \in S : f[k] = accounts[k][t][c].deposited - accounts[k][t][c].withdrawn
  BY DEF LedgerFlow, Before
<1>2. \A k \in Rounds : f[k] \in Int
  BY LedgerFlowOK
<1>3. IsFiniteSet(S) /\ S \subseteq Rounds
  BY BeforeOK
<1>4. openingBalance(t, c, r) = SumFunctionOnSet(f, S)
  BY OpeningIs
<1>5. PICK g : /\ g = [k \in Rounds |-> accounts'[k][t][c].deposited - accounts'[k][t][c].withdrawn]
               /\ openingBalance(t, c, r)' = SumFunctionOnSet(g, S)
  BY OpeningIsNext DEF LedgerFlow
<1> HIDE DEF f
<1>6. \A k \in S : g[k] = f[k]
  BY <1>1, <1>3, <1>5
<1> HIDE DEF S
<1>7. SumFunctionOnSet(g, S) = SumFunctionOnSet(f, S)
  BY <1>2, <1>3, <1>6, SumEqual
<1> QED
  BY <1>4, <1>5, <1>7

\* What the ledger has of the rounds before a root that proves anything stays.
LEMMA LedgerFixed ==
    ASSUME BooksStep, Whole', NEW r \in 1..MaxRound, NEW t \in Tokens, NEW c \in Clients,
           Proves(r, t)
    PROVE  /\ \A k \in Before(r) :
                 /\ accounts'[k][t][c].deposited = accounts[k][t][c].deposited
                 /\ accounts'[k][t][c].withdrawn = accounts[k][t][c].withdrawn
           /\ openingBalance(t, c, r)' = openingBalance(t, c, r)
<1>0. /\ OperatorTypeOK /\ OperatorTypeOK' /\ AtABlock /\ CommitsFollow /\ ProvableIsRight
      /\ RequestsStand
  BY StepOfState
<1>1. commits[r][t] # NoRoot
  BY DEF Proves
<1>2. ASSUME NEW k \in Before(r)
      PROVE  accounts'[k][t][c].deposited = accounts[k][t][c].deposited
  <2>1. k \in Rounds /\ k < r
    BY DEF Before
  <2>2. ASSUME 1 \in DOMAIN unprocessed, block = unprocessed[1]
        PROVE  k # block.round
    <3>1. block.round >= r
      BY <1>0, <1>1, <2>2 DEF CommitsFollow
    <3>2. block.round \in Nat /\ k \in Nat /\ r \in Nat
      BY <1>0, <2>1, <2>2, BlockTimes DEF Rounds
    <3> QED
      BY <2>1, <3>1, <3>2
  <2> QED
    BY <2>1, <2>2, CreditsPart
<1>3. ASSUME NEW k \in Before(r)
      PROVE  accounts'[k][t][c].withdrawn = accounts[k][t][c].withdrawn
  <2>1. k \in Rounds /\ k \in 0..(r - 1)
    BY DEF Before, Rounds
  <2>2. CASE Booking
    <3>1. Agree(k, t)
      BY <1>0, <2>1 DEF ProvableIsRight, Proves
    <3>2. accounts[k][t][c].withdrawn = Requested(k, t, c)
      BY <3>1 DEF Agree
    <3>3. SUFFICES ASSUME k = request.round, t = request.asset, c = request.wallet PROVE FALSE
      BY <1>0, <2>1, <2>2, BookedIs
    <3> DEFINE q == request
    <3>4. q \in Standing /\ q.status = "unchecked"
      BY <2>2 DEF Booking
    <3>5. k = q.round /\ t = q.asset /\ c = q.wallet
      BY <3>3
    <3> HIDE DEF q
    <3>6. q \in Of(k, t, c)
      BY <3>4, <3>5, OfIs
    <3>7. BookedOK(k, t, c) /\ StandOK(q)
      BY <1>0, <2>1, <3>4, RequestsStandIs
    <3>8. ~\E x \in Of(k, t, c) : Granted(x)
      BY <3>4, <3>6, <3>7 DEF BookedOK, Granted
    <3>9. accounts[k][t][c].withdrawn = 0
      BY <3>7, <3>8 DEF BookedOK
    <3>10. Requested(k, t, c) = q.amount /\ q.amount > 0
      BY <3>5, <3>7 DEF StandOK
    <3>11. q.amount \in Nat
      BY <1>0, <3>4, StandingIn
    <3>12. q.amount = 0
      BY <3>2, <3>9, <3>10
    <3> QED
      BY <3>10, <3>11, <3>12
  <2>3. CASE ~Booking
    <3>1. onDeposit \/ OrderStep \/ accounts' = accounts
      <4>1. CASE \E d \in Clients, u \in Tokens, amount \in Nat : Requesting(d, u, amount)
        BY <4>1 DEF Requesting, Mines
      <4>2. CASE \E d \in Clients, u \in Tokens, x \in Standing : Claiming(d, u, x)
        BY <4>2 DEF Claiming
      <4>3. CASE Cancelling \/ Quiet
        BY <4>3 DEF Cancelling, Quiet
      <4> QED
        BY <2>3, <4>1, <4>2, <4>3, StandingPart
    <3> QED
      BY <1>0, <2>1, <3>1, BookedStays
  <2> QED
    BY <2>2, <2>3
<1> QED
  BY <1>0, <1>2, <1>3, OpeningKept

\* A root that was not there before has been mined just now.
LEMMA RootIsMined ==
    ASSUME BooksStep, NEW r \in Rounds, NEW t \in Tokens, commits'[r][t] # commits[r][t]
    PROVE  \E tx \in outbox : commitMined(tx) /\ r = round /\ t = tx.asset
<1>0. BooksState /\ [OpNext]_opVars
  BY StepOfState
<1>1. CASE MinedStep
  <2>1. PICK tx \in outbox : commitMined(tx)
    BY <1>1 DEF MinedStep
  <2>2. r = round /\ t = tx.asset
    BY <1>0, <2>1, MinedCommit
  <2> QED
    BY <2>1, <2>2
<1>2. CASE UNCHANGED commitVars
  BY <1>2 DEF commitVars
<1> QED
  BY <1>0, <1>1, <1>2, RootsPart

\* A root is never replaced.
LEMMA RootsStay ==
    ASSUME BooksStep, NEW r \in Rounds, NEW t \in Tokens, commits[r][t] # NoRoot
    PROVE  commits'[r][t] = commits[r][t]
<1>0. BooksState
  BY StepOfState
<1> SUFFICES ASSUME commits'[r][t] # commits[r][t] PROVE FALSE
  OBVIOUS
<1>1. PICK tx \in outbox : commitMined(tx) /\ r = round /\ t = tx.asset
  BY RootIsMined
<1>2. commits[round][tx.asset] = NoRoot
  BY <1>0, <1>1, MinedCommit
<1> QED
  BY <1>1, <1>2

\* A root that proves anything is that of the operator's tree.
LEMMA ProvableIsRightStep ==
    ASSUME BooksStep, Whole'
    PROVE  ProvableIsRight'
<1>0. OperatorTypeOK /\ OperatorTypeOK' /\ BooksState /\ ProvableIsRight
  BY StepOfState
<1>1. ASSUME NEW r \in 1..MaxRound, NEW t \in Tokens,
             commits'[r][t] \notin {NoRoot, Unprovable}
      PROVE  /\ commits'[r][t] = Tree(getSolvencyTree(t, r))'
             /\ \A k \in 0..(r - 1) : Agree(k, t)'
  <2>0. r \in Rounds /\ \A k \in 0..(r - 1) : k \in Before(r) /\ k \in Rounds
    BY ConstantsAssumption DEF Rounds, Before
  <2>1. CASE Proves(r, t)
    <3>0. commits[r][t] # NoRoot
      BY <2>1 DEF Proves
    <3>1. commits'[r][t] = commits[r][t]
      BY <2>0, <3>0, RootsStay
    <3>2. commits[r][t] = Tree(getSolvencyTree(t, r)) /\ \A k \in 0..(r - 1) : Agree(k, t)
      BY <1>0, <2>1 DEF ProvableIsRight, Proves
    <3>3. getSolvencyTree(t, r)' = getSolvencyTree(t, r)
      <4>1. \A c \in Clients : openingBalance(t, c, r)' = openingBalance(t, c, r)
        BY <2>1, LedgerFixed
      <4> QED
        BY <4>1 DEF getSolvencyTree
    <3>4. ASSUME NEW k \in 0..(r - 1) PROVE Agree(k, t)'
      <4>1. ASSUME NEW c \in Clients
            PROVE  /\ accounts'[k][t][c].deposited = clientDeposits'[k][t][c]
                   /\ accounts'[k][t][c].withdrawn = Requested(k, t, c)'
        <5>1. /\ accounts[k][t][c].deposited = clientDeposits[k][t][c]
              /\ accounts[k][t][c].withdrawn = Requested(k, t, c)
          BY <3>2 DEF Agree
        <5>2. /\ clientDeposits'[k][t][c] = clientDeposits[k][t][c]
              /\ Requested(k, t, c)' = Requested(k, t, c)
          BY <2>0, <3>0, FlowsFixed
        <5>3. /\ accounts'[k][t][c].deposited = accounts[k][t][c].deposited
              /\ accounts'[k][t][c].withdrawn = accounts[k][t][c].withdrawn
          BY <2>0, <2>1, LedgerFixed
        <5> QED
          BY <5>1, <5>2, <5>3
      <4> QED
        BY <4>1 DEF Agree
    <3>5. Tree(getSolvencyTree(t, r))' = Tree(getSolvencyTree(t, r))
      BY <3>3 DEF Tree
    <3> QED
      BY <3>1, <3>2, <3>4, <3>5
  <2>2. CASE ~Proves(r, t)
    <3>0. commits'[r][t] # commits[r][t]
      BY <1>1, <2>2 DEF Proves
    <3>1. PICK tx \in outbox : commitMined(tx) /\ r = round /\ t = tx.asset
      BY <2>0, <3>0, RootIsMined
    <3> DEFINE root == Root(getSolvencyTree(t, r), previousClosingBalance(t))
    <3>2. commits'[r][t] = root
      BY <1>0, <2>0, <3>1, MinedCommit
    <3>3. UNCHANGED <<accounts, clientDeposits, clientRequestedWithdrawals>>
      BY <1>0, <3>1, MinedCommit DEF depositVars, withdrawalVars
    <3>4. IF \A k \in Before(r) : Agree(k, t) THEN root = Tree(getSolvencyTree(t, r))
                                              ELSE root = Unprovable
      BY <1>0, <3>1, MinedIsRight
    <3> HIDE DEF root
    <3>5. root = Tree(getSolvencyTree(t, r)) /\ \A k \in Before(r) : Agree(k, t)
      BY <1>1, <3>2, <3>4
    <3>6. getSolvencyTree(t, r)' = getSolvencyTree(t, r)
      <4>1. \A c \in Clients : openingBalance(t, c, r)' = openingBalance(t, c, r)
        BY <1>0, <3>3, OpeningKept
      <4> QED
        BY <4>1 DEF getSolvencyTree
    <3>7. \A k \in Before(r) : Agree(k, t)'
      BY <3>3, <3>5 DEF Agree, Requested
    <3>8. Tree(getSolvencyTree(t, r))' = Tree(getSolvencyTree(t, r))
      BY <3>6 DEF Tree
    <3> QED
      BY <2>0, <3>2, <3>5, <3>7, <3>8
  <2> QED
    BY <2>1, <2>2
<1> QED
  BY <1>1 DEF ProvableIsRight

-----------------------------------------------------------------------------
(* What has been sent stays right until the quarter ends, or is too late. *)

Busy == {"moderate", "dispute", "closed"} \cup Moderating

\* The process that has sent its commits has nothing else to do in the round.
LEMMA CommittingGoesOn ==
    ASSUME [OpNext]_opVars, pc \notin Busy, onNewQuarter => block.quarter = _quarter
    PROVE  /\ pc' \notin Busy
           /\ pc' = "commit" => pc = "commit" /\ todo' \subseteq todo
<1>1. CASE OwnStep
  BY <1>1 DEF OwnStep, Start, processBlock, onNewQuarter, moderateWithdrawalRequest,
     approveWithdrawal, processOpenDisputes, goToRound, awaitCommits, commitsDone, Goto,
     Busy, Moderating
<1>2. CASE DatabaseStep
  <2>1. CASE onDeposit \/ saveDepositRecord \/ onInitiateWithdrawal \/ onOpenDispute
    BY <2>1, Zenon DEF onDeposit, saveDepositRecord, onInitiateWithdrawal, onOpenDispute, Goto,
       Busy, Moderating
  <2>2. CASE bookWithdrawal \/ cancelWithdrawalInLedger \/ updateDispute
    BY <2>2, Zenon DEF bookWithdrawal, cancelWithdrawalInLedger, updateDispute, Busy, Moderating
  <2> QED
    BY <1>2, <2>1, <2>2 DEF DatabaseStep
<1>3. CASE CallStep
  BY <1>3 DEF CallStep, onFailure, requestCancellation, requestClosing, Goto, Busy, Moderating
<1>4. CASE Crash \/ eventFails \/ saveLastProcessedBlock
  BY <1>4 DEF Crash, eventFails, saveLastProcessedBlock, Goto, Busy, Moderating
<1>5. CASE sendCommit
  BY <1>5 DEF sendCommit, NextItem, Busy, Moderating
<1>6. CASE RejectedStep
  BY <1>6 DEF RejectedStep, commitRejected, Goto, Busy, Moderating
<1>7. CASE UNCHANGED processVars
  BY <1>7 DEF processVars
<1> QED
  BY <1>1, <1>2, <1>3, <1>4, <1>5, <1>6, <1>7, ProcessPart

\* A quarter that begins has another number than the one before.
LEMMA QuarterStays ==
    ASSUME [OpNext]_opVars, onNewQuarter => block.quarter = _quarter
    PROVE  \/ (Start \/ Crash) /\ _round' = 0 /\ _quarter' = 0
           \/ UNCHANGED <<_round, _quarter>>
BY QuarterPart DEF onNewQuarter, Goto

\* An order changes what is locked in the round of the process.
LEMMA LockedPart ==
    ASSUME BooksStep
    PROVE  \A k \in Rounds, t \in Tokens, c \in Clients :
              k # _round => accounts'[k][t][c].locked = accounts[k][t][c].locked
<1>0. /\ OperatorTypeOK /\ OperatorTypeOK' /\ AtABlock /\ [OpNext]_opVars /\ BooksState
      /\ accounts \in [Rounds -> [Tokens -> [Clients -> Account]]]
  BY StepOfState DEF OperatorTypeOK
<1>1. CASE onDeposit
  <2>1. pc = "event" /\ block.event.type = "deposit" /\ unprocessed # <<>>
    BY <1>0, <1>1, Zenon DEF onDeposit, AtABlock
  <2>2. block.round \in Rounds /\ block.event.asset \in Tokens /\ block.event.wallet \in Clients
    BY <1>0, <2>1, OwnBlock, BlockIn, Zenon DEF IsDeposit
  <2>3. PICK v : \/ accounts' = accounts
                 \/ accounts' = WithDeposited(accounts, block.round, block.event.asset,
                                              block.event.wallet, v)
    BY <1>1, Zenon DEF onDeposit, creditedRound, WithDeposited
  <2>4. CASE accounts' = accounts
    BY <2>4, Zenon
  <2>5. CASE accounts' = WithDeposited(accounts, block.round, block.event.asset,
                                       block.event.wallet, v)
    BY <1>0, <2>5, DepositedChanges
  <2> QED
    BY <2>3, <2>4, <2>5, Zenon
<1>2. CASE bookWithdrawal
  <2>1. PICK r, u, d, v : accounts' = WithWithdrawn(accounts, r, u, d, v)
    BY <1>2, Zenon DEF bookWithdrawal, WithWithdrawn
  <2> QED
    BY <1>0, <2>1, WithdrawnChanges
<1>3. CASE cancelWithdrawalInLedger
  BY <1>0, <1>3, StandingAfterEnd
<1>4. CASE OrderStep
  <2>1. PICK a \in Approvals : insertOrder(a) \/ cancelOrder(a)
    BY <1>4, Zenon DEF OrderStep
  <2>2. \/ accounts' = [accounts EXCEPT ![a.round][a.sellAsset][a.client].locked = @ + a.sellAmount]
        \/ accounts' = [accounts EXCEPT ![a.round][a.sellAsset][a.client].locked = @ - a.sellAmount]
    BY <2>1, Zenon DEF insertOrder, cancelOrder
  <2>3. a.round = _round
    BY <2>1, Zenon DEF insertOrder, cancelOrder
  <2>4. PICK v : accounts' = WithLocked(accounts, _round, a.sellAsset, a.client, v)
    BY <2>2, <2>3, Zenon DEF WithLocked
  <2> QED
    BY <1>0, <2>4, LockedChanges
<1>5. CASE onInitiateWithdrawal \/ ClaimStep \/ UNCHANGED accounts
  BY <1>5 DEF onInitiateWithdrawal, ClaimStep, claimWithdrawal
<1> QED
  BY <1>0, <1>1, <1>2, <1>3, <1>4, <1>5, LedgerPart

\* What the ledger has of the rounds before r stays when no block under way is older,
\* and no request of one is granted.
LEMMA OldAccountsStay ==
    ASSUME BooksStep, Whole', NEW r \in Rounds, NEW t \in Tokens, NEW c \in Clients,
           \A i \in DOMAIN unprocessed : unprocessed[i].round >= r,
           Booking => request.asset # t \/ request.round >= r
    PROVE  \A k \in Before(r) :
              /\ accounts'[k][t][c].deposited = accounts[k][t][c].deposited
              /\ accounts'[k][t][c].withdrawn = accounts[k][t][c].withdrawn
<1>0. OperatorTypeOK /\ OperatorTypeOK' /\ AtABlock
  BY StepOfState
<1> SUFFICES ASSUME NEW k \in Before(r)
             PROVE  /\ accounts'[k][t][c].deposited = accounts[k][t][c].deposited
                    /\ accounts'[k][t][c].withdrawn = accounts[k][t][c].withdrawn
  OBVIOUS
<1>1. k \in Rounds /\ k < r /\ k \in Nat /\ r \in Nat /\ ~(k >= r)
  BY DEF Before, Rounds
<1>2. accounts'[k][t][c].deposited = accounts[k][t][c].deposited
  <2>2. ASSUME 1 \in DOMAIN unprocessed, block = unprocessed[1]
        PROVE  k # block.round
    BY <1>1, <2>2
  <2> QED
    BY <1>1, <2>2, CreditsPart
<1>3. accounts'[k][t][c].withdrawn = accounts[k][t][c].withdrawn
  <2>2. CASE Booking
    BY <1>0, <1>1, <2>2, BookedIs
  <2>3. CASE ~Booking
    <3>1. onDeposit \/ OrderStep \/ accounts' = accounts
      <4>1. CASE \E d \in Clients, u \in Tokens, amount \in Nat : Requesting(d, u, amount)
        BY <4>1 DEF Requesting, Mines
      <4>2. CASE \E d \in Clients, u \in Tokens, x \in Standing : Claiming(d, u, x)
        BY <4>2 DEF Claiming
      <4>3. CASE Cancelling \/ Quiet
        BY <4>3 DEF Cancelling, Quiet
      <4> QED
        BY <2>3, <4>1, <4>2, <4>3, StandingPart
    <3> QED
      BY <1>0, <1>1, <3>1, BookedStays
  <2> QED
    BY <2>2, <2>3
<1> QED
  BY <1>2, <1>3

\* A row that is not moderated has not been changed, or is new.
LEMMA UncheckedPart ==
    ASSUME OperatorTypeOK, AtABlock, [OpNext]_opVars, NEW i \in uncheckedWithdrawals'
    PROVE  \/ RowInserted /\ withdrawals'[i] = RowOf(block) /\ i \notin DOMAIN withdrawals
           \/ i \in uncheckedWithdrawals /\ withdrawals'[i] = withdrawals[i]
<1>0. i \in DOMAIN withdrawals' /\ withdrawals'[i].status = "unchecked"
  BY DEF uncheckedWithdrawals
<1>1. CASE RowInserted
  <2>1. /\ DOMAIN withdrawals' = DOMAIN withdrawals \cup {Len(withdrawals) + 1}
        /\ withdrawals'[Len(withdrawals) + 1] = RowOf(block)
        /\ Len(withdrawals) + 1 \notin DOMAIN withdrawals
        /\ \A j \in DOMAIN withdrawals : withdrawals'[j] = withdrawals[j]
    BY <1>1, RowsAfterInsertion
  <2> QED
    BY <1>0, <1>1, <2>1 DEF uncheckedWithdrawals
<1>2. ASSUME NEW j \in DOMAIN withdrawals, NEW status \in {"pending", "confirmed", "canceled"},
             SetsStatus(j, status)
      PROVE  i \in uncheckedWithdrawals /\ withdrawals'[i] = withdrawals[i]
  <2>1. /\ DOMAIN withdrawals' = DOMAIN withdrawals /\ withdrawals'[j].status = status
        /\ \A k \in DOMAIN withdrawals \ {j} : withdrawals'[k] = withdrawals[k]
    BY <1>2, StatusSet
  <2> QED
    BY <1>0, <2>1 DEF uncheckedWithdrawals
<1>3. CASE bookWithdrawal /\ SetsStatus(row, "pending")
  <2>1. row \in DOMAIN withdrawals
    BY <1>3, RowIn DEF bookWithdrawal, Moderating
  <2> QED
    BY <1>2, <1>3, <2>1
<1>4. CASE \E t, c, statuses : \E j \in WithdrawalsOf(t, c, statuses) :
              SetsStatus(j, "canceled") \/ SetsStatus(j, "confirmed")
  BY <1>2, <1>4 DEF WithdrawalsOf
<1>5. CASE withdrawals' = withdrawals
  BY <1>0, <1>5 DEF uncheckedWithdrawals
<1> QED
  BY <1>1, <1>3, <1>4, <1>5, RowsPart

\* Nothing that was booked is taken back.
LEMMA WithdrawnGrows ==
    ASSUME BooksStep, Whole', NEW k \in Rounds, NEW t \in Tokens, NEW c \in Clients
    PROVE  /\ accounts[k][t][c].withdrawn \in Int /\ accounts'[k][t][c].withdrawn \in Int
           /\ accounts[k][t][c].withdrawn <= accounts'[k][t][c].withdrawn
<1>0. OperatorTypeOK /\ OperatorTypeOK' /\ AtABlock
  BY StepOfState
<1>1. accounts[k][t][c] \in Account /\ accounts'[k][t][c] \in Account
  BY <1>0 DEF OperatorTypeOK
<1>2. accounts[k][t][c].withdrawn \in Int /\ accounts'[k][t][c].withdrawn \in Int
  BY <1>1 DEF Account
<1>3. CASE Booking
  <2>1. PICK amount \in Nat :
           accounts'[k][t][c].withdrawn = accounts[k][t][c].withdrawn + amount
           \/ accounts'[k][t][c].withdrawn = accounts[k][t][c].withdrawn
    BY <1>0, <1>3, BookedIs
  <2> QED
    BY <1>2, <2>1
<1>4. CASE ~Booking
  <2>1. onDeposit \/ OrderStep \/ accounts' = accounts
    <3>1. CASE \E d \in Clients, u \in Tokens, amount \in Nat : Requesting(d, u, amount)
      BY <3>1 DEF Requesting, Mines
    <3>2. CASE \E d \in Clients, u \in Tokens, x \in Standing : Claiming(d, u, x)
      BY <3>2 DEF Claiming
    <3>3. CASE Cancelling \/ Quiet
      BY <3>3 DEF Cancelling, Quiet
    <3> QED
      BY <1>4, <3>1, <3>2, <3>3, StandingPart
  <2>2. accounts'[k][t][c].withdrawn = accounts[k][t][c].withdrawn
    BY <1>0, <2>1, BookedStays
  <2> QED
    BY <1>2, <2>2
<1> QED
  BY <1>2, <1>3, <1>4

\* What a client owns of a round falls, if at all, when no block under way is older.
LEMMA BalanceFalls ==
    ASSUME BooksStep, Whole', NEW r \in Rounds, NEW t \in Tokens, NEW c \in Clients,
           \A i \in DOMAIN unprocessed : unprocessed[i].round >= r, _round >= r,
           NEW k \in Before(r)
    PROVE  /\ balance(t, c, k)' <= balance(t, c, k)
           /\ balance(t, c, k) \in Int /\ balance(t, c, k)' \in Int
<1>0. OperatorTypeOK /\ OperatorTypeOK'
  BY StepOfState
<1>1. k \in Rounds /\ k < r /\ k \in Nat /\ r \in Nat /\ k \in Int /\ r \in Int
  BY DEF Before, Rounds
<1>2. \A j \in Before(r) : accounts'[j][t][c].deposited = accounts[j][t][c].deposited
  <2> SUFFICES ASSUME NEW j \in Before(r)
               PROVE  accounts'[j][t][c].deposited = accounts[j][t][c].deposited
    OBVIOUS
  <2>1. j \in Rounds /\ j < r /\ ~(j >= r)
    BY DEF Before, Rounds
  <2>2. ASSUME 1 \in DOMAIN unprocessed, block = unprocessed[1]
        PROVE  j # block.round
    BY <2>1, <2>2
  <2> QED
    BY <2>1, <2>2, CreditsPart
<1>3. \A j \in Before(k) : j \in Before(r) /\ j \in Rounds
  BY <1>1 DEF Before, Rounds
<1> DEFINE f == LedgerFlow(t, c)
           S == Before(k)
<1>4. \A j \in Rounds : /\ accounts[j][t][c].deposited \in Int /\ accounts[j][t][c].withdrawn \in Int
                        /\ accounts[j][t][c].locked \in Int
                        /\ accounts'[j][t][c].deposited \in Int
                        /\ accounts'[j][t][c].withdrawn \in Int
                        /\ accounts'[j][t][c].locked \in Int
  <2>1. \A j \in Rounds : accounts[j][t][c] \in Account /\ accounts'[j][t][c] \in Account
    BY <1>0 DEF OperatorTypeOK
  <2> QED
    BY <2>1 DEF Account
<1>5. \A j \in S : f[j] = accounts[j][t][c].deposited - accounts[j][t][c].withdrawn
  BY <1>3 DEF LedgerFlow
<1>6. openingBalance(t, c, k) = SumFunctionOnSet(f, S)
  BY OpeningIs
<1>7. PICK g : /\ g = [j \in Rounds |-> accounts'[j][t][c].deposited - accounts'[j][t][c].withdrawn]
               /\ openingBalance(t, c, k)' = SumFunctionOnSet(g, S)
  BY OpeningIsNext DEF LedgerFlow
<1> HIDE DEF f
<1>8. \A j \in S : g[j] \in Int /\ f[j] \in Int /\ g[j] <= f[j]
  <2> SUFFICES ASSUME NEW j \in S PROVE g[j] \in Int /\ f[j] \in Int /\ g[j] <= f[j]
    OBVIOUS
  <2>1. accounts[j][t][c].withdrawn <= accounts'[j][t][c].withdrawn
    BY <1>3, WithdrawnGrows
  <2>2. /\ f[j] = accounts[j][t][c].deposited - accounts[j][t][c].withdrawn
        /\ g[j] = accounts'[j][t][c].deposited - accounts'[j][t][c].withdrawn
        /\ accounts'[j][t][c].deposited = accounts[j][t][c].deposited
    BY <1>2, <1>3, <1>5, <1>7
  <2> QED
    BY <1>3, <1>4, <2>1, <2>2
<1>9. IsFiniteSet(S)
  BY BeforeOK
<1> HIDE DEF S
<1>10. SumFunctionOnSet(g, S) <= SumFunctionOnSet(f, S)
  BY <1>8, <1>9, SumLeq
<1>11. SumFunctionOnSet(g, S) \in Int /\ SumFunctionOnSet(f, S) \in Int
  BY <1>8, <1>9, SumInt
<1>12. k # _round
  BY <1>0, <1>1 DEF OperatorTypeOK, Rounds
<1>13. accounts'[k][t][c].locked = accounts[k][t][c].locked
  BY <1>1, <1>12, LockedPart
<1>14. accounts[k][t][c].withdrawn <= accounts'[k][t][c].withdrawn
  BY <1>1, WithdrawnGrows
<1>15. accounts'[k][t][c].deposited = accounts[k][t][c].deposited
  BY <1>2
<1>16. PICK x \in Int, y \in Int : x = openingBalance(t, c, k)' /\ y = openingBalance(t, c, k) /\ x <= y
  BY <1>6, <1>7, <1>10, <1>11
<1>17. /\ balance(t, c, k) = y + accounts[k][t][c].deposited
             - accounts[k][t][c].withdrawn - accounts[k][t][c].locked
       /\ balance(t, c, k)' = x + accounts'[k][t][c].deposited
             - accounts'[k][t][c].withdrawn - accounts'[k][t][c].locked
  BY <1>16 DEF balance
<1> QED
  BY <1>1, <1>4, <1>13, <1>14, <1>15, <1>16, <1>17

\* What cannot be granted of the rounds before r never can be.
LEMMA InvalidStays ==
    ASSUME BooksStep, Whole', NEW r \in Rounds, NEW t \in Tokens,
           \A i \in DOMAIN unprocessed : unprocessed[i].round >= r, _round >= r,
           NEW i \in uncheckedWithdrawals',
           withdrawals'[i].asset = t, withdrawals'[i].round < r
    PROVE  /\ i \in uncheckedWithdrawals /\ withdrawals'[i] = withdrawals[i]
           /\ Invalid(withdrawals[i]) => Invalid(withdrawals[i])'
<1>0. OperatorTypeOK /\ OperatorTypeOK' /\ AtABlock /\ [OpNext]_opVars
  BY StepOfState
<1>1. ~RowInserted \/ withdrawals'[i] # RowOf(block)
  <2> SUFFICES ASSUME RowInserted, withdrawals'[i] = RowOf(block) PROVE FALSE
    OBVIOUS
  <2>1. 1 \in DOMAIN unprocessed /\ block = unprocessed[1]
    BY <1>0, RowsAfterInsertion
  <2>2. block.round >= r /\ block.round \in Nat
    BY <1>0, <2>1, BlockTimes
  <2>3. withdrawals'[i].round = block.round
    BY DEF RowOf
  <2> QED
    BY <2>2, <2>3 DEF Rounds
<1>2. i \in uncheckedWithdrawals /\ withdrawals'[i] = withdrawals[i]
  BY <1>0, <1>1, UncheckedPart
<1>3. PICK w : w = withdrawals[i]
  OBVIOUS
<1>4. w \in Withdrawal
  BY <1>0, <1>2, <1>3 DEF uncheckedWithdrawals, OperatorTypeOK
<1>5. w.asset = t /\ w.wallet \in Clients /\ w.round \in Before(r) /\ w.amount \in Nat
  BY <1>2, <1>3, <1>4 DEF Withdrawal, Before
<1>6. PICK x \in Int, y \in Int : /\ x = balance(t, w.wallet, w.round)
                                /\ y = balance(t, w.wallet, w.round)' /\ y <= x
  BY <1>5, BalanceFalls
<1>7. Invalid(w) => Invalid(w)'
  <2>1. (Invalid(w) <=> w.amount > x) /\ (Invalid(w)' <=> w.amount > y)
    BY <1>5, <1>6 DEF Invalid
  <2> QED
    BY <1>5, <1>6, <2>1
<1> QED
  BY <1>2, <1>3, <1>7

\* What is too late stays too late.
LEMMA DeadStays ==
    ASSUME BooksStep, NEW tx, tx.asset \in Tokens, Dead(tx)
    PROVE  Dead(tx)'
<1>0. OperatorTypeOK /\ OperatorTypeOK' /\ BooksState /\ [OpNext]_opVars
  BY StepOfState
<1>1. PICK s \in 1..round : commits[s][tx.asset] = NoRoot /\ (s < round \/ quarter > 0)
  BY DEF Dead
<1>2. /\ round \in Nat /\ quarter \in 0..3 /\ round' \in Nat /\ quarter' \in 0..3
      /\ s \in Nat /\ 1 <= s /\ s <= round /\ s \in Rounds
  <2>1. round \in 0..MaxRound /\ quarter \in 0..3 /\ round' \in 0..MaxRound /\ quarter' \in 0..3
    BY <1>0 DEF OperatorTypeOK, Rounds, Quarters
  <2> QED
    BY <2>1, ConstantsAssumption DEF Rounds
<1>3. commits'[s][tx.asset] = NoRoot
  <2> SUFFICES ASSUME commits'[s][tx.asset] # commits[s][tx.asset] PROVE FALSE
    BY <1>1
  <2>1. PICK t2 \in outbox : commitMined(t2) /\ s = round
    BY <1>2, RootIsMined
  <2>2. quarter = 0
    BY <1>0, <2>1, MinedIsLive DEF Live
  <2> QED
    BY <1>1, <1>2, <2>1, <2>2
<1>4. s <= round' /\ (s < round' \/ quarter' > 0)
  <2>1. CASE Clock
    <3>1. /\ 4 * round' + quarter' = 4 * round + quarter + 1 /\ round <= round'
          /\ quarter' # 0 => round' = round
      BY <1>0, <2>1, ClockFrame
    <3>2. CASE s < round
      BY <1>2, <3>1, <3>2
    <3>3. CASE quarter > 0 /\ quarter' = 0
      <4>1. PICK x \in Nat, y \in 0..3 : x = round /\ y = quarter
        BY <1>2
      <4>2. PICK z \in Nat : z = round'
        BY <1>2
      <4>5. 4 * z + 0 = 4 * x + y + 1
        BY <3>1, <3>3, <4>1, <4>2
      <4>6. x <= z /\ y > 0
        BY <3>1, <3>3, <4>1, <4>2
      <4>3. 4 * z = 4 * x + y + 1 /\ x <= z /\ y > 0
        BY <4>5, <4>6
      <4>4. x < z
        BY <4>3
      <4> QED
        BY <1>2, <4>1, <4>2, <4>4
    <3>4. CASE quarter' # 0
      BY <1>2, <3>1, <3>4
    <3> QED
      BY <1>1, <3>2, <3>3, <3>4
  <2>2. CASE UNCHANGED <<round, quarter>>
    BY <1>1, <1>2, <2>2
  <2> QED
    BY <1>0, <2>1, <2>2, ClockPart
<1>5. s \in 1..round'
  BY <1>2, <1>4
<1> QED
  BY <1>3, <1>4, <1>5 DEF Dead

\* The parts of a transaction that can be mined.
MinableIn(a, leaves, r) ==
    /\ quarter = 0 /\ r > 0 /\ commits[r][a] = NoRoot
    /\ leaves = getSolvencyTree(a, r)
    /\ \A i \in DOMAIN unprocessed : unprocessed[i].round = r /\ unprocessed[i].quarter = 0
    /\ _quarter = 0
    /\ pc \notin Busy
    /\ pc = "commit" => a \notin todo
    /\ CrashFree => _round = r /\ RestIsInvalid(a, r)

\* The condition for a transaction, with the round as a parameter.
LEMMA LiveIs ==
    ASSUME NEW tx
    PROVE  /\ Live(tx) <=> \E r \in {round} : MinableIn(tx.asset, tx.leaves, r)
           /\ Live(tx)' <=> \E r \in {round'} : MinableIn(tx.asset, tx.leaves, r)'
BY DEF Live, MinableIn, Busy

\* What can be mined stays so, or is too late, as long as it is not mined.
LEMMA LiveStays ==
    ASSUME BooksStep, Whole', NEW tx \in outbox, tx \in outbox', Live(tx), ~Clock
    PROVE  Live(tx)'
<1>0. /\ OperatorTypeOK /\ OperatorTypeOK' /\ BooksState /\ [OpNext]_opVars /\ AtABlock /\ AtWork
      /\ OutboxInv
  BY StepOfState
<1> DEFINE a == tx.asset
           leaves == tx.leaves
<1>1. a \in Tokens /\ \A y \in outbox : y = [asset |-> y.asset, leaves |-> y.leaves]
  BY <1>0 DEF OutboxInv
<1>2. PICK r : r = round /\ MinableIn(a, leaves, r)
  BY LiveIs
<1>3. r \in Rounds /\ r \in Nat /\ r' = r /\ round' = r /\ quarter' = 0
  BY <1>0, <1>2, ClockPart DEF MinableIn, OperatorTypeOK, Rounds
<1>4. commits'[r][a] = NoRoot
  <2> SUFFICES ASSUME commits'[r][a] # commits[r][a] PROVE FALSE
    BY <1>2 DEF MinableIn
  <2>1. PICK t2 \in outbox : commitMined(t2) /\ a = t2.asset
    BY <1>1, <1>3, RootIsMined
  <2>2. Live(t2) /\ outbox' = outbox \ {t2}
    BY <1>0, <2>1, MinedIsLive, MinedCommit
  <2>3. t2.leaves = leaves
    BY <1>2, <2>1, <2>2 DEF Live, MinableIn
  <2>4. t2 = tx
    BY <1>1, <2>1, <2>3
  <2> QED
    BY <2>2, <2>4
<1>5. /\ \A i \in DOMAIN unprocessed : unprocessed[i].round = r /\ unprocessed[i].quarter = 0
      /\ \A i \in DOMAIN unprocessed : unprocessed[i].round >= r
  BY <1>2, <1>3 DEF MinableIn
<1>6. ~Booking
  BY <1>2 DEF MinableIn, Busy, Booking, Moderating
<1>7. leaves = getSolvencyTree(a, r)'
  <2>1. ASSUME NEW c \in Clients PROVE openingBalance(a, c, r)' = openingBalance(a, c, r)
    <3>1. \A k \in Before(r) : /\ accounts'[k][a][c].deposited = accounts[k][a][c].deposited
                               /\ accounts'[k][a][c].withdrawn = accounts[k][a][c].withdrawn
      BY <1>1, <1>3, <1>5, <1>6, OldAccountsStay
    <3> QED
      BY <1>0, <1>1, <3>1, OpeningKept
  <2>2. leaves = getSolvencyTree(a, r)
    BY <1>2 DEF MinableIn
  <2> QED
    BY <2>1, <2>2 DEF getSolvencyTree
<1>8. \A i \in DOMAIN unprocessed' : unprocessed'[i].round = r /\ unprocessed'[i].quarter = 0
  <2>1. CASE DepositStep \/ RequestStep \/ OtherEvent
    <3>1. PICK event : Mines(event)
      BY <1>0, <2>1, SomethingMines
    <3>2. BlockOf(event).round = r /\ BlockOf(event).quarter = 0
      BY <1>2 DEF BlockOf, MinableIn
    <3> DEFINE n == Len(unprocessed) + 1
    <3>3. /\ unprocessed'[n] = BlockOf(event) /\ DOMAIN unprocessed' = DOMAIN unprocessed \cup {n}
          /\ \A i \in DOMAIN unprocessed : unprocessed'[i] = unprocessed[i]
      BY <1>0, <3>1, BlocksAfterMining
    <3> QED
      BY <1>5, <3>2, <3>3
  <2>2. CASE saveLastProcessedBlock
    BY <1>0, <1>5, <2>2, BlocksAfterSaving
  <2>3. CASE UNCHANGED <<unprocessed, events>>
    BY <1>5, <2>3
  <2> QED
    BY <1>0, <2>1, <2>2, <2>3, BlocksPart
<1>9. onNewQuarter => block.quarter = _quarter
  <2> SUFFICES ASSUME onNewQuarter PROVE block.quarter = _quarter
    OBVIOUS
  <2>1. unprocessed # <<>>
    BY <1>0 DEF onNewQuarter, AtABlock
  <2> QED
    BY <1>0, <1>2, <1>5, <2>1, BlockIn DEF MinableIn
<1>10. pc \notin Busy /\ _quarter = 0 /\ (pc = "commit" => a \notin todo)
  BY <1>2 DEF MinableIn
<1>11. pc' \notin Busy /\ (pc' = "commit" => a \notin todo')
  BY <1>0, <1>9, <1>10, CommittingGoesOn
<1>12. _quarter' = 0
  BY <1>0, <1>9, <1>10, QuarterStays
<1>13. ASSUME CrashFree' PROVE _round' = r /\ RestIsInvalid(a, r)'
  <2>1. CrashFree /\ ~Crash
    BY <1>0, <1>13, WholeBefore
  <2>2. _round = r /\ RestIsInvalid(a, r) /\ r > 0
    BY <1>2, <2>1 DEF MinableIn
  <2>3. ~Start
    BY <1>0, <1>3, <2>2 DEF Start, AtWork
  <2>4. _round' = r
    BY <1>0, <1>9, <2>1, <2>2, <2>3, QuarterStays
  <2>5. ASSUME NEW i \in uncheckedWithdrawals', withdrawals'[i].asset = a, withdrawals'[i].round < r
        PROVE  Invalid(withdrawals[i])'
    <3>0. _round >= r
      BY <1>3, <2>2
    <3>1. /\ i \in uncheckedWithdrawals /\ withdrawals'[i] = withdrawals[i]
          /\ Invalid(withdrawals[i]) => Invalid(withdrawals[i])'
      BY <1>1, <1>3, <1>5, <2>5, <3>0, InvalidStays
    <3> QED
      BY <2>2, <2>5, <3>1 DEF RestIsInvalid
  <2> QED
    BY <2>4, <2>5 DEF RestIsInvalid
<1>14. MinableIn(a, leaves, r)'
  BY <1>2, <1>3, <1>4, <1>7, <1>8, <1>11, <1>12, <1>13 DEF MinableIn
<1> QED
  BY <1>3, <1>14, LiveIs

\* The quarter ends before the transaction is mined.
LEMMA LiveAtClock ==
    ASSUME BooksStep, NEW tx, Live(tx), Clock
    PROVE  Dead(tx)'
<1>0. OperatorTypeOK /\ OperatorTypeOK'
  BY StepOfState
<1>1. PICK x : x = round
  OBVIOUS
<1>2. quarter = 0 /\ x > 0 /\ commits[x][tx.asset] = NoRoot /\ x \in Nat
  BY <1>0, <1>1, ClockFrame DEF Live
<1>3. quarter' \in 0..3 /\ round' \in Nat
  <2>1. quarter' \in Quarters /\ round' \in Rounds
    BY <1>0 DEF OperatorTypeOK
  <2> QED
    BY <2>1, ConstantsAssumption DEF Quarters, Rounds
<1>4. /\ 4 * round' + quarter' = 4 * round + quarter + 1 /\ commits' = commits
      /\ quarter' # 0 => round' = round
  BY <1>0, ClockFrame
<1>5. quarter' # 0
  <2> SUFFICES ASSUME quarter' = 0 PROVE FALSE
    OBVIOUS
  <2>1. PICK z \in Nat : z = round'
    BY <1>3
  <2>2. 4 * z + 0 = 4 * x + 0 + 1
    BY <1>1, <1>2, <1>4, <2>1
  <2>3. x \in Nat /\ z \in Nat /\ 4 * z = 4 * x + 1
    BY <1>2, <2>2
  <2>4. z > x /\ z < x + 1
    BY <2>3
  <2> QED
    BY <2>3, <2>4
<1>6. x = round' /\ x \in 1..x /\ quarter' > 0
  BY <1>1, <1>2, <1>3, <1>4, <1>5
<1>7. commits'[x][tx.asset] = NoRoot
  BY <1>2, <1>4
<1>8. \E s \in 1..round' : commits'[s][tx.asset] = NoRoot /\ (s < round' \/ quarter' > 0)
  BY <1>6, <1>7
<1> QED
  BY <1>8 DEF Dead

\* The commit that is sent is of the round that is now, unless it is too late.
LEMMA SentIsLive ==
    ASSUME BooksStep, Whole', sendCommit, NEW a \in todo, NEW r, r = _round,
           commits[r][a] = NoRoot, NextItem("commit", a), NEW tx,
           tx.asset = a, tx.leaves = getSolvencyTree(a, r)
    PROVE  Dead(tx)' \/ Live(tx)'
<1>0. /\ OperatorTypeOK /\ OperatorTypeOK' /\ BooksState /\ [OpNext]_opVars /\ AtWork
      /\ BlocksInOrder
  BY StepOfState
<1>1. /\ pc = "commit" /\ pc' = "commit" /\ todo' = todo \ {a}
      /\ UNCHANGED <<round, quarter, commits, unprocessed, accounts, withdrawals, _round,
                     _quarter, crashes, lost>>
  BY DEF sendCommit, NextItem, mediatorVars, vars, clockVars, commitVars, chainVars, tableVars,
     boundVars
<1>2. a \in Tokens
  BY <1>0, <1>1 DEF OperatorTypeOK, TodoOK
<1>3. _round = block.round /\ _quarter = 0 /\ r > 0
  BY <1>0, <1>1 DEF AtWork, WorkPlaces
<1>4. /\ round \in Nat /\ quarter \in 0..3 /\ r \in Nat /\ r \in Rounds
      /\ \A i \in DOMAIN unprocessed :
            /\ unprocessed[i].round \in Nat /\ unprocessed[i].quarter \in 0..3
  BY <1>0, BlockTimes DEF OperatorTypeOK
<1>5. /\ 4 * r + 0 <= 4 * round + quarter
      /\ \A i \in DOMAIN unprocessed :
            /\ 4 * r + 0 <= 4 * unprocessed[i].round + unprocessed[i].quarter
            /\ 4 * unprocessed[i].round + unprocessed[i].quarter <= 4 * round + quarter
  BY <1>0, <1>3 DEF BlocksInOrder, TimeOf
<1>6. r <= round
  BY <1>4, <1>5
<1>7. CASE r < round \/ quarter > 0
  <2>1. r \in 1..round
    BY <1>3, <1>4, <1>6
  <2> QED
    BY <1>1, <1>7, <2>1 DEF Dead
<1>8. CASE r = round /\ quarter = 0
  <2>1. \A i \in DOMAIN unprocessed : unprocessed[i].round = r /\ unprocessed[i].quarter = 0
    BY <1>4, <1>5, <1>8
  <2>2. getSolvencyTree(a, r)' = getSolvencyTree(a, r)
    <3>1. \A c \in Clients : openingBalance(a, c, r)' = openingBalance(a, c, r)
      BY <1>0, <1>1, <1>2, OpeningKept
    <3> QED
      BY <3>1 DEF getSolvencyTree
  <2>3. ASSUME CrashFree' PROVE RestIsInvalid(a, r)'
    <3>1. RefusalsAreFinal
      BY <1>1, <1>0, <2>3 DEF BooksState, CrashFree, CrashFreeInv
    <3>2. \A i \in uncheckedWithdrawals : withdrawals[i].round < r => Invalid(withdrawals[i])
      BY <1>1, <3>1 DEF RefusalsAreFinal, Passed
    <3>3. ASSUME NEW i \in uncheckedWithdrawals',
                 withdrawals'[i].asset = a, withdrawals'[i].round < r
          PROVE  Invalid(withdrawals[i])'
      <4>1. i \in uncheckedWithdrawals /\ withdrawals'[i] = withdrawals[i]
        BY <1>1, <3>3 DEF uncheckedWithdrawals
      <4>2. Invalid(withdrawals[i])
        BY <3>2, <3>3, <4>1
      <4>4. \A j \in DOMAIN unprocessed : unprocessed[j].round >= r
        BY <1>4, <2>1
      <4>5. _round >= r
        BY <1>4
      <4> QED
        BY <1>2, <1>4, <3>3, <4>2, <4>4, <4>5, InvalidStays
    <3> QED
      BY <3>3 DEF RestIsInvalid
  <2>4. MinableIn(a, tx.leaves, r)'
    <3>1. /\ quarter' = 0 /\ r > 0 /\ commits'[r][a] = NoRoot
          /\ tx.leaves = getSolvencyTree(a, r)'
      BY <1>1, <1>3, <1>8, <2>2
    <3>2. /\ \A i \in DOMAIN unprocessed' : unprocessed'[i].round = r /\ unprocessed'[i].quarter = 0
          /\ _quarter' = 0 /\ pc' \notin Busy /\ (pc' = "commit" => a \notin todo')
      BY <1>1, <1>3, <2>1 DEF Busy, Moderating
    <3>3. CrashFree' => _round' = r /\ RestIsInvalid(a, r)'
      BY <1>1, <2>3
    <3> QED
      BY <3>1, <3>2, <3>3 DEF MinableIn
  <2>5. r = round'
    BY <1>1, <1>8
  <2> QED
    BY <2>4, <2>5, LiveIs
<1> QED
  BY <1>4, <1>6, <1>7, <1>8

\* Whatever is in the outbox is of the tree of the round that is now, or is too late.
LEMMA OutboxInvStep ==
    ASSUME BooksStep, Whole'
    PROVE  OutboxInv'
<1>0. OutboxInv /\ [OpNext]_opVars /\ OperatorTypeOK /\ OperatorTypeOK' /\ BooksState
  BY StepOfState
<1>1. ASSUME NEW tx \in outbox', tx \in outbox
      PROVE  /\ tx = [asset |-> tx.asset, leaves |-> tx.leaves] /\ tx.asset \in Tokens
             /\ Dead(tx)' \/ Live(tx)'
  <2>1. /\ tx = [asset |-> tx.asset, leaves |-> tx.leaves] /\ tx.asset \in Tokens
        /\ Dead(tx) \/ Live(tx)
    BY <1>0, <1>1 DEF OutboxInv
  <2>2. CASE Dead(tx)
    BY <2>1, <2>2, DeadStays
  <2>3. CASE Live(tx)
    BY <1>1, <2>1, <2>3, LiveAtClock, LiveStays
  <2> QED
    BY <2>1, <2>2, <2>3
<1>2. ASSUME NEW tx \in outbox', tx \notin outbox
      PROVE  /\ tx = [asset |-> tx.asset, leaves |-> tx.leaves] /\ tx.asset \in Tokens
             /\ Dead(tx)' \/ Live(tx)'
  <2>1. sendCommit
    <3>1. CASE MinedStep \/ RejectedStep
      BY <1>2, <3>1 DEF MinedStep, RejectedStep, commitMined, commitRejected
    <3> QED
      BY <1>0, <1>2, <3>1, OutboxPart
  <2>2. PICK a \in todo : /\ outbox' = IF commits[_round][a] = NoRoot
                                       THEN outbox \cup {[asset |-> a, leaves |-> getSolvencyTree(a, _round)]}
                                       ELSE outbox
                          /\ NextItem("commit", a) /\ pc = "commit"
    BY <2>1 DEF sendCommit
  <2>3. /\ commits[_round][a] = NoRoot
        /\ tx = [asset |-> a, leaves |-> getSolvencyTree(a, _round)]
    BY <1>2, <2>2
  <2>4. tx.asset = a /\ tx.leaves = getSolvencyTree(a, _round)
    BY <2>3
  <2>5. a \in Tokens
    BY <1>0, <2>2 DEF OperatorTypeOK, TodoOK
  <2>6. Dead(tx)' \/ Live(tx)'
    BY <2>1, <2>2, <2>3, <2>4, SentIsLive
  <2> QED
    BY <2>3, <2>4, <2>5, <2>6
<1> QED
  BY <1>1, <1>2 DEF OutboxInv

-----------------------------------------------------------------------------
(* Without a crash: what was not granted of a closed round never will be. *)

\* The parts of the invariant that hold without a crash.
LEMMA CrashFreeState ==
    ASSUME BooksStep, CrashFree'
    PROVE  /\ Whole' /\ CrashFree /\ ~Crash /\ ~eventFails
           /\ OneAtATime /\ RefusalsAreFinal /\ UnprovableHasReason
<1>1. OperatorTypeOK /\ [OpNext]_opVars /\ BooksState
  BY StepOfState
<1>2. Whole'
  BY DEF CrashFree, Whole, CancellationsAreWhole
<1>3. CrashFree /\ ~Crash /\ ~eventFails
  BY <1>1, WholeBefore
<1> QED
  BY <1>1, <1>2, <1>3 DEF BooksState, CrashFreeInv

\* The process comes to closing a quarter after all rows were gone through.
LEMMA ClosingPart ==
    ASSUME [OpNext]_opVars, pc' \in {"dispute", "closed", "commit", "committing"}
    PROVE  pc \in {"dispute", "closed", "commit", "committing"} \/ (pc = "moderate" /\ todo = {})
<1>1. CASE OwnStep
  BY <1>1 DEF OwnStep, Start, processBlock, onNewQuarter, moderateWithdrawalRequest,
     approveWithdrawal, processOpenDisputes, goToRound, awaitCommits, commitsDone, Goto
<1>2. CASE DatabaseStep
  <2>1. CASE onDeposit \/ saveDepositRecord \/ onInitiateWithdrawal \/ onOpenDispute
    BY <2>1, Zenon DEF onDeposit, saveDepositRecord, onInitiateWithdrawal, onOpenDispute, Goto
  <2>2. CASE bookWithdrawal \/ cancelWithdrawalInLedger \/ updateDispute
    BY <2>2, Zenon DEF bookWithdrawal, cancelWithdrawalInLedger, updateDispute, NextItem, Goto
  <2> QED
    BY <1>2, <2>1, <2>2 DEF DatabaseStep
<1>3. CASE CallStep
  BY <1>3 DEF CallStep, onFailure, requestCancellation, requestClosing, CancellationFailed,
     Goto, NextItem
<1>4. CASE Crash \/ eventFails \/ saveLastProcessedBlock \/ sendCommit
  BY <1>4 DEF Crash, eventFails, saveLastProcessedBlock, sendCommit, Goto, NextItem
<1>5. CASE RejectedStep
  BY <1>5 DEF RejectedStep, commitRejected, Goto
<1>6. CASE UNCHANGED processVars
  BY <1>6 DEF processVars
<1> QED
  BY <1>1, <1>2, <1>3, <1>4, <1>5, <1>6, ProcessPart

\* A row that cannot be granted for another request of the client is a row that
\* the client has not two of.
LEMMA NotValidIsInvalid ==
    ASSUME BooksState, OneAtATime, pc = "moderate", todo # {}
    PROVE  /\ row \in todo /\ row \in DOMAIN withdrawals /\ request.status = "unchecked"
           /\ row \in uncheckedWithdrawals /\ request = withdrawals[row]
           /\ validateWithdrawal(request) <=> ~Invalid(request)
<1>0. OperatorTypeOK /\ Moderation
  BY DEF BooksState, LedgerInv
<1>1. todo \subseteq DOMAIN withdrawals /\ DOMAIN withdrawals \subseteq Nat
  BY <1>0 DEF OperatorTypeOK, TodoOK
<1>2. row \in todo
  BY <1>1, LeastIsIn DEF row
<1>3. row \in DOMAIN withdrawals /\ request = withdrawals[row] /\ request.status = "unchecked"
  BY <1>0, <1>1, <1>2 DEF Moderation, request
<1>4. request \in Withdrawal
  BY <1>0, <1>3 DEF OperatorTypeOK
<1>5. WithdrawalsOf(request.asset, request.wallet, {"pending"}) = {}
  <2> SUFFICES ASSUME NEW j \in WithdrawalsOf(request.asset, request.wallet, {"pending"})
               PROVE  FALSE
    OBVIOUS
  <2>1. /\ j \in DOMAIN withdrawals /\ withdrawals[j].status = "pending"
        /\ withdrawals[j].asset = request.asset /\ withdrawals[j].wallet = request.wallet
    BY DEF WithdrawalsOf
  <2>2. withdrawals[j] \in Standing /\ request \in Standing
    BY <1>3, <2>1, IsStanding DEF LiveRows
  <2>3. withdrawals[j] = request
    BY <1>3, <2>1, <2>2 DEF OneAtATime, Unfinished
  <2> QED
    BY <1>3, <2>1, <2>3
<1>6. balance(request.asset, request.wallet, request.round) \in Int
  <2>1. /\ request.asset \in Tokens /\ request.wallet \in Clients /\ request.round \in Rounds
    BY <1>4 DEF Withdrawal
  <2>2. accounts[request.round][request.asset][request.wallet] \in Account
    BY <1>0, <2>1 DEF OperatorTypeOK
  <2>3. openingBalance(request.asset, request.wallet, request.round) \in Int
    BY <1>0, <2>1, OpeningOK
  <2> QED
    BY <2>2, <2>3 DEF balance, Account
<1>7. request.amount \in Nat
  BY <1>4 DEF Withdrawal
<1>8. validateWithdrawal(request) <=> ~Invalid(request)
  BY <1>5, <1>6, <1>7 DEF validateWithdrawal, Invalid
<1> QED
  BY <1>2, <1>3, <1>8 DEF uncheckedWithdrawals

\* What holds before a step of the round of a root that there is after it.
LEMMA RootBefore ==
    ASSUME BooksStep, CrashFree', NEW r \in 1..MaxRound, NEW t \in Tokens, commits'[r][t] # NoRoot
    PROVE  /\ r \in Rounds /\ \A i \in DOMAIN unprocessed : unprocessed[i].round >= r
           /\ _round >= r /\ RestIsInvalid(t, r)
           /\ pc \in {"approve", "book"} => request.asset # t \/ request.round >= r
<1>0. OperatorTypeOK /\ BooksState /\ CommitsFollow /\ CrashFree /\ RefusalsAreFinal
  BY StepOfState, CrashFreeState
<1>1. r \in Rounds /\ r \in Nat
  BY ConstantsAssumption DEF Rounds
<1>2. CASE commits[r][t] # NoRoot
  BY <1>0, <1>1, <1>2 DEF CommitsFollow, RefusalsAreFinal
<1>3. CASE commits[r][t] = NoRoot
  <2>1. PICK tx \in outbox : commitMined(tx) /\ r = round /\ t = tx.asset
    BY <1>1, <1>3, RootIsMined
  <2>2. Live(tx)
    BY <1>0, <2>1, MinedIsLive
  <2>3. MinableIn(t, tx.leaves, r)
    BY <2>1, <2>2, LiveIs
  <2> QED
    BY <1>0, <1>1, <2>3 DEF MinableIn, Busy, Moderating
<1> QED
  BY <1>2, <1>3

\* The round of the process does not go back.
LEMMA RoundForward ==
    ASSUME BooksStep, CrashFree'
    PROVE  /\ onNewQuarter /\ _round' = block.round /\ 1 \in DOMAIN unprocessed
                           /\ block = unprocessed[1]
           \/ _round' = _round
<1>0. OperatorTypeOK /\ [OpNext]_opVars /\ AtABlock /\ AtWork /\ ~Crash
  BY StepOfState, CrashFreeState
<1>1. CASE onNewQuarter
  <2>1. unprocessed # <<>>
    BY <1>0, <1>1 DEF onNewQuarter, AtABlock
  <2> QED
    BY <1>0, <1>1, <2>1, BlockIn DEF onNewQuarter, BeginQuarter, Goto
<1>2. CASE Start
  BY <1>0, <1>2 DEF Start, AtWork
<1> QED
  BY <1>0, <1>1, <1>2, QuarterPart

\* What was not granted before the root of a round cannot be granted after it.
LEMMA ClosedRoundsStep ==
    ASSUME BooksStep, CrashFree', NEW r \in 1..MaxRound, NEW t \in Tokens, commits'[r][t] # NoRoot
    PROVE  _round' >= r /\ RestIsInvalid(t, r)'
<1>0. OperatorTypeOK /\ OperatorTypeOK' /\ Whole'
  BY StepOfState, CrashFreeState
<1>1. /\ r \in Rounds /\ \A i \in DOMAIN unprocessed : unprocessed[i].round >= r
      /\ _round >= r /\ RestIsInvalid(t, r)
  BY RootBefore
<1>2. _round' >= r
  BY <1>1, RoundForward
<1>3. ASSUME NEW i \in uncheckedWithdrawals', withdrawals'[i].asset = t, withdrawals'[i].round < r
      PROVE  Invalid(withdrawals[i])'
  <2>1. /\ i \in uncheckedWithdrawals /\ withdrawals'[i] = withdrawals[i]
        /\ Invalid(withdrawals[i]) => Invalid(withdrawals[i])'
    BY <1>0, <1>1, <1>3, InvalidStays
  <2> QED
    BY <1>1, <1>3, <2>1 DEF RestIsInvalid
<1> QED
  BY <1>2, <1>3 DEF RestIsInvalid

\* A row that is gone through keeps its place and what it asks for.
LEMMA RequestKept ==
    ASSUME OperatorTypeOK, AtABlock, [OpNext]_opVars, todo' = todo, row \in DOMAIN withdrawals
    PROVE  SameRequest(request', request)
<1>1. row' = row /\ request' = withdrawals'[row] /\ request = withdrawals[row]
  BY DEF row, request
<1>2. CASE RowInserted
  <2>1. withdrawals'[row] = withdrawals[row]
    BY <1>2, RowsAfterInsertion
  <2> QED
    BY <1>1, <2>1 DEF SameRequest
<1>3. CASE RowsKept
  BY <1>1, <1>3 DEF RowsKept
<1> QED
  BY <1>2, <1>3, RowsStay

\* A request being granted is of a round that is not closed.
LEMMA GrantedInTime ==
    ASSUME BooksStep, CrashFree', NEW r \in 1..MaxRound, NEW t \in Tokens,
           commits'[r][t] # NoRoot, pc' \in {"approve", "book"}
    PROVE  request'.asset # t \/ request'.round >= r
<1>0. /\ OperatorTypeOK /\ OperatorTypeOK' /\ Whole' /\ AtABlock /\ [OpNext]_opVars /\ BooksState
      /\ OneAtATime /\ RefusalsAreFinal
  BY StepOfState, CrashFreeState
<1>1. /\ RestIsInvalid(t, r)
      /\ pc \in {"approve", "book"} => request.asset # t \/ request.round >= r
  BY RootBefore
<1>2. CASE pc \in {"approve", "book"} /\ todo' = todo
  <2>1. row \in DOMAIN withdrawals
    BY <1>0, <1>2, RowIn DEF Moderating
  <2>2. SameRequest(request', request)
    BY <1>0, <1>2, <2>1, RequestKept
  <2> QED
    BY <1>1, <1>2, <2>2 DEF SameRequest
<1>3. CASE moderateWithdrawalRequest /\ todo' = todo /\ pc = "moderate"
  <2>0. todo # {} /\ validateWithdrawal(request)
    BY <1>3, <1>0 DEF moderateWithdrawalRequest, Goto
  <2>1. /\ row \in DOMAIN withdrawals /\ row \in uncheckedWithdrawals
        /\ request = withdrawals[row] /\ ~Invalid(request)
    BY <1>0, <1>3, <2>0, NotValidIsInvalid
  <2>2. SameRequest(request', request)
    BY <1>0, <1>3, <2>1, RequestKept
  <2>3. ~(request.asset = t /\ request.round < r)
    BY <1>1, <2>1 DEF RestIsInvalid
  <2>4. request.round \in Nat /\ r \in Nat
    <3>1. request \in Withdrawal
      BY <1>0, <2>1 DEF OperatorTypeOK
    <3> QED
      BY <3>1 DEF Withdrawal, Rounds
  <2> QED
    BY <2>2, <2>3, <2>4 DEF SameRequest
<1>4. pc' \in Moderates
  BY DEF Moderates, Moderating
<1>5. \/ pc' = pc /\ todo' = todo
      \/ moderateWithdrawalRequest /\ todo' = todo /\ pc = "moderate"
      \/ approveWithdrawal /\ todo' = todo /\ pc = "approve" /\ pc' = "book"
  BY <1>0, <1>4, ModerationPart DEF CancelsOnChain
<1> QED
  BY <1>2, <1>3, <1>5

\* A row that moderation has passed was passed before, or cannot be granted.
LEMMA PassedPart ==
    ASSUME BooksStep, CrashFree', NEW i \in uncheckedWithdrawals, i \in uncheckedWithdrawals',
           Passed(i)', withdrawals'[i] = withdrawals[i]
    PROVE  _round' = _round /\ (Passed(i) \/ Invalid(withdrawals[i]))
<1>0. /\ OperatorTypeOK /\ OperatorTypeOK' /\ Whole' /\ AtABlock /\ [OpNext]_opVars /\ BooksState
      /\ OneAtATime /\ Moderation
  BY StepOfState, CrashFreeState
<1>1. CASE pc' \in {"dispute", "closed", "commit", "committing"}
  <2>1. Passed(i)
    BY <1>0, <1>1, ClosingPart DEF Passed, Moderating
  <2>2. ~onNewQuarter
    BY <1>1 DEF onNewQuarter, Goto
  <2> QED
    BY <2>1, <2>2, RoundForward
<1>2. CASE pc' \in Moderates
  <2>0. (pc' = "cancel" /\ i = row') \/ i \notin todo'
    BY <1>2 DEF Passed, Moderates, Moderating
  <2>1. i \in uncheckedWithdrawals /\ pc' # "cancel" => ~(todo' = uncheckedWithdrawals)
    BY <2>0
  <2>2. /\ pc \in Moderates /\ _round' = _round
        /\ \/ pc' = pc /\ todo' = todo
           \/ moderateWithdrawalRequest /\ todo' = todo /\ pc = "moderate"
           \/ approveWithdrawal /\ todo' = todo /\ pc = "approve" /\ pc' = "book"
           \/ /\ bookWithdrawal \/ cancelWithdrawalInLedger
              /\ pc' = "moderate" /\ todo' = todo \ {row}
           \/ CancelsOnChain
           \/ /\ requestCancellation /\ pc' = "moderate" /\ todo' = todo \ {row}
              /\ pc = "cancel"
    <3>1. ~(pc' = "moderate" /\ todo' = uncheckedWithdrawals)
      BY <2>1
    <3>2. \/ pc' = "moderate" /\ todo' = uncheckedWithdrawals
          \/ /\ pc \in Moderates /\ UNCHANGED <<_round, _quarter>>
             /\ \/ pc' = pc /\ todo' = todo
                \/ moderateWithdrawalRequest /\ todo' = todo /\ pc = "moderate"
                \/ approveWithdrawal /\ todo' = todo /\ pc = "approve" /\ pc' = "book"
                \/ /\ bookWithdrawal \/ cancelWithdrawalInLedger
                   /\ pc' = "moderate" /\ todo' = todo \ {row}
                \/ CancelsOnChain
                \/ /\ requestCancellation /\ pc' = "moderate" /\ todo' = todo \ {row}
                   /\ pc = "cancel"
      BY <1>0, <1>2, ModerationPart
    <3> QED
      BY <3>1, <3>2
  <2>3. CASE todo' = todo /\ i \notin todo'
    BY <2>2, <2>3 DEF Passed, Moderates
  <2>4. CASE pc' = "cancel" /\ i = row' /\ pc' = pc /\ todo' = todo
    BY <2>2, <2>4 DEF Passed, row
  <2>5. CASE pc' = "cancel" /\ i = row' /\ moderateWithdrawalRequest /\ todo' = todo
             /\ pc = "moderate"
    <3>1. i = row /\ todo # {} /\ ~validateWithdrawal(request)
      BY <2>5 DEF moderateWithdrawalRequest, Goto, row
    <3>2. request = withdrawals[row] /\ (validateWithdrawal(request) <=> ~Invalid(request))
      BY <1>0, <2>5, <3>1, NotValidIsInvalid
    <3> QED
      BY <2>2, <3>1, <3>2
  <2>6. CASE bookWithdrawal
    <3>1. SetsStatus(row, "pending") /\ row \in DOMAIN withdrawals
      BY <1>0, <2>6, BookingPart DEF Booking
    <3>2. withdrawals'[row].status = "pending"
      BY <1>0, <3>1, StatusSet
    <3>3. i # row
      BY <3>2 DEF uncheckedWithdrawals
    <3> QED
      BY <2>0, <2>2, <2>6, <3>3 DEF Passed, bookWithdrawal, NextItem, Moderates
  <2>7. CASE cancelWithdrawalInLedger
    <3>1. SetsStatus(row, "canceled") /\ row \in DOMAIN withdrawals /\ pc' = "moderate"
          /\ todo' = todo \ {row}
      BY <1>0, <2>7, StandingAfterEnd
    <3>2. withdrawals'[row].status = "canceled"
      BY <1>0, <3>1, StatusSet
    <3>3. i # row
      BY <3>2 DEF uncheckedWithdrawals
    <3> QED
      BY <2>0, <2>2, <3>1, <3>3 DEF Passed, Moderates
  <2>8. CASE CancelsOnChain
    BY <2>0, <2>3, <2>8 DEF CancelsOnChain
  <2>9. CASE pc' = "moderate" /\ todo' = todo \ {row} /\ pc = "cancel"
    BY <2>0, <2>2, <2>9 DEF Passed, Moderates
  <2> QED
    BY <2>0, <2>2, <2>3, <2>4, <2>5, <2>6, <2>7, <2>8, <2>9
<1> QED
  BY <1>1, <1>2 DEF Passed, Moderates, Moderating

\* A refusal is final once the round is closed.
LEMMA RefusalsAreFinalStep ==
    ASSUME BooksStep, CrashFree'
    PROVE  RefusalsAreFinal'
<1>0. /\ OperatorTypeOK /\ OperatorTypeOK' /\ Whole' /\ AtABlock /\ [OpNext]_opVars
      /\ RefusalsAreFinal /\ BlocksInOrder
  BY StepOfState, CrashFreeState
<1>1. ASSUME NEW i \in uncheckedWithdrawals', Passed(i)', withdrawals'[i].round < _round'
      PROVE  Invalid(withdrawals[i])'
  <2>1. i \in uncheckedWithdrawals /\ withdrawals'[i] = withdrawals[i]
    <3>1. ~RowInserted
      <4> SUFFICES ASSUME RowInserted PROVE FALSE
        OBVIOUS
      <4>1. pc' = "quarter"
        BY <1>0, RowsAfterInsertion
      <4> QED
        BY <1>1, <4>1 DEF Passed, Moderating
    <3> QED
      BY <1>0, <3>1, UncheckedPart
  <2>2. _round' = _round /\ (Passed(i) \/ Invalid(withdrawals[i]))
    BY <1>1, <2>1, PassedPart
  <2>3. withdrawals[i].round < _round
    BY <1>1, <2>1, <2>2
  <2>4. Invalid(withdrawals[i])
    BY <1>0, <2>1, <2>2, <2>3 DEF RefusalsAreFinal
  <2>5. \A j \in DOMAIN unprocessed : unprocessed[j].round >= _round
    <3> SUFFICES ASSUME NEW j \in DOMAIN unprocessed PROVE unprocessed[j].round >= _round
      OBVIOUS
    <3>1. 4 * _round + _quarter <= 4 * unprocessed[j].round + unprocessed[j].quarter
      BY <1>0 DEF BlocksInOrder, TimeOf
    <3>2. /\ _round \in Nat /\ _quarter \in 0..3
          /\ unprocessed[j].round \in Nat /\ unprocessed[j].quarter \in 0..3
      BY <1>0, BlockTimes
    <3> QED
      BY <3>1, <3>2
  <2>6. PICK r : r = _round /\ r \in Rounds
    BY <1>0 DEF OperatorTypeOK
  <2>7. r \in Nat /\ _round >= r
    BY <2>6 DEF Rounds
  <2>8. withdrawals'[i].asset \in Tokens
    <3>1. withdrawals[i] \in Withdrawal
      BY <1>0, <2>1 DEF OperatorTypeOK, uncheckedWithdrawals
    <3> QED
      BY <2>1, <3>1 DEF Withdrawal
  <2> QED
    BY <1>0, <1>1, <2>1, <2>2, <2>4, <2>5, <2>6, <2>7, <2>8, InvalidStays
<1> QED
  BY <1>1, ClosedRoundsStep, GrantedInTime DEF RefusalsAreFinal

-----------------------------------------------------------------------------
(* Without a crash: one request at a time. *)

\* A claim ends the pending request of the client, if there is one.
LEMMA ClaimPart ==
    ASSUME BooksStep, CrashFree', ClaimStep
    PROVE  \E c \in Clients, t \in Tokens :
              /\ confirmWithdrawal(c, t)
              /\ \/ \E x \in Standing : Claiming(c, t, x)
                 \/ Standing' = Standing /\ WithdrawalsOf(t, c, {"pending"}) = {}
<1>0. /\ OperatorTypeOK /\ BooksState /\ OneAtATime
  BY StepOfState, CrashFreeState
<1>1. PICK c \in Clients, t \in Tokens : claimWithdrawal(c, t)
  BY DEF ClaimStep
<1> DEFINE pending == WithdrawalsOf(t, c, {"pending"})
<1>2. CASE up /\ pending # {}
  <2>1. pending \subseteq DOMAIN withdrawals /\ DOMAIN withdrawals \subseteq Nat
    BY <1>0 DEF OperatorTypeOK, WithdrawalsOf
  <2>2. Min(pending) \in pending
    BY <1>2, <2>1, LeastIsIn
  <2>3. SetsStatus(Min(pending), "confirmed")
    BY <1>1, <1>2 DEF claimWithdrawal, SetsStatus
  <2>4. PICK i \in pending : SetsStatus(i, "confirmed")
    BY <2>2, <2>3
  <2>5. withdrawals[i] \in Standing /\ Claiming(c, t, withdrawals[i])
    BY <1>0, <1>1, <1>2, <2>4, ClaimingPart
  <2> QED
    BY <2>5 DEF Claiming
<1>3. CASE ~(up /\ pending # {})
  <2>1. withdrawals' = withdrawals /\ confirmWithdrawal(c, t)
        /\ UNCHANGED <<unprocessed, pc, todo>>
    BY <1>1, <1>3 DEF claimWithdrawal, chainVars, processVars
  <2>2. Standing' = Standing
    BY <2>1, StandingSame
  <2>3. pending = {}
    <3>1. ~up => withdrawals = <<>>
      BY <1>0 DEF OneAtATime
    <3> QED
      BY <1>3, <3>1 DEF WithdrawalsOf
  <2> QED
    BY <2>1, <2>2, <2>3
<1> QED
  BY <1>2, <1>3

\* A client that asks has no request that is not finished.
LEMMA NoneUnfinished ==
    ASSUME BooksStep, CrashFree', NEW c \in Clients, NEW t \in Tokens, NEW amount \in Nat,
           initiateWithdrawal(c, t, amount),
           NEW x \in Standing, x.asset = t, x.wallet = c
    PROVE  ~Unfinished(x)
<1>0. /\ OperatorTypeOK /\ TypeOK /\ CommitInv /\ PaymentInv /\ RequestsStand /\ ProvableIsRight
      /\ OneAtATime
  BY StepOfState, CrashFreeState
<1>1. /\ round \in Rounds /\ round - 1 \in 1..MaxRound /\ Proves(round - 1, t)
      /\ activeWithdrawalRounds[t][c] = 0 /\ ~halted
  BY <1>0, AskedOnChain
<1>2. StandOK(x) /\ x.round \in Rounds /\ x.amount \in Nat
  BY <1>0, RequestsStandIs, StandingIn
<1>3. x.round > 0 /\ Requested(x.round, t, c) = x.amount /\ x.amount > 0 /\ x.round \in Nat
  BY <1>2 DEF StandOK, Rounds
<1>4. ~(x.round >= round - 1)
  <2> SUFFICES ASSUME x.round >= round - 1 PROVE FALSE
    OBVIOUS
  <2>1. Requested(x.round, t, c) = 0
    BY <1>0, <1>1, <1>2, NothingAsked
  <2> QED
    BY <1>3, <2>1
<1>5. PICK s \in 1..MaxRound : s = round - 1 /\ Proves(s, t)
  BY <1>1
<1>6. x.round \in 0..(s - 1)
  BY <1>1, <1>3, <1>4, <1>5 DEF Rounds
<1>7. accounts[x.round][t][c].withdrawn = Requested(x.round, t, c)
  BY <1>0, <1>5, <1>6 DEF ProvableIsRight, Agree, Proves
<1>8. CASE x.status = "pending"
  <2>1. activeWithdrawalRounds[t][c] = x.round
    BY <1>0, <1>1, <1>8 DEF OneAtATime, Unfinished
  <2> QED
    BY <1>1, <1>3, <2>1
<1>9. CASE x.status = "unchecked"
  <2>1. BookedOK(x.round, t, c)
    BY <1>0, <1>2, RequestsStandIs
  <2>2. x \in Of(x.round, t, c)
    BY OfIs
  <2>3. ~\E y \in Of(x.round, t, c) : Granted(y)
    BY <1>9, <2>1, <2>2 DEF BookedOK, Granted
  <2>4. accounts[x.round][t][c].withdrawn = 0
    BY <2>1, <2>3 DEF BookedOK
  <2>5. x.amount = 0
    BY <1>3, <1>7, <2>4
  <2> QED
    BY <1>3, <2>5
<1> QED
  BY <1>8, <1>9 DEF Unfinished

\* A request that is granted is still the active one.
LEMMA GrantedIsActive ==
    ASSUME BooksStep, CrashFree', Booking
    PROVE  halted \/ activeWithdrawalRounds[request.asset][request.wallet] = request.round
<1> DEFINE q == request
           w == activeWithdrawalRounds[q.asset][q.wallet]
<1>0. /\ OperatorTypeOK /\ TypeOK /\ CommitInv /\ RequestsStand /\ RequestsAreCovered
      /\ OneAtATime /\ RefusalsAreFinal
  BY StepOfState, CrashFreeState
<1> SUFFICES ASSUME ~halted, w # q.round PROVE FALSE
  OBVIOUS
<1>1. q \in Standing /\ q.status = "unchecked" /\ pc = "book"
  BY DEF Booking
<1>2. request = q
  OBVIOUS
<1> HIDE DEF q
<1>3. StandOK(q) /\ q.round \in Rounds /\ q.asset \in Tokens /\ q.wallet \in Clients
      /\ q.amount \in Nat
  BY <1>0, <1>1, RequestsStandIs, StandingIn
<1>4. Requested(q.round, q.asset, q.wallet) > 0
  BY <1>3 DEF StandOK
<1>5. PaidOut(q.round, q.asset, q.wallet)
  BY <1>4 DEF PaidOut, Requested
<1>6. q.round + 1 <= committedRounds /\ q.asset \in registeredTokens
  BY <1>0, <1>3, <1>4, <1>5 DEF RequestsAreCovered
<1>7. PICK s : s = q.round + 1
  OBVIOUS
<1>8. s \in 1..MaxRound /\ s <= committedRounds
  <2>1. committedRounds <= round /\ round <= MaxRound /\ committedRounds \in Nat /\ round \in Nat
    BY <1>0 DEF CommitInv, TypeOK, Rounds
  <2>2. q.round \in Nat
    BY <1>3 DEF Rounds
  <2> QED
    BY <1>6, <1>7, <2>1, <2>2, ConstantsAssumption
<1>9. commits[s][q.asset] # NoRoot
  BY <1>0, <1>6, <1>8, CompleteMeansCommitted
<1>10. q.round >= s
  BY <1>0, <1>1, <1>2, <1>3, <1>8, <1>9 DEF RefusalsAreFinal
<1> QED
  BY <1>3, <1>7, <1>10 DEF Rounds

ActiveOK(x) ==
    Unfinished(x) =>
        /\ activeWithdrawalRounds[x.asset][x.wallet] \in {0, x.round}
        /\ x.status = "pending" =>
              halted \/ activeWithdrawalRounds[x.asset][x.wallet] = x.round

OnlyOne == \A x, y \in Standing :
    (Unfinished(x) /\ Unfinished(y) /\ x.asset = y.asset /\ x.wallet = y.wallet) => x = y

\* The invariant in parts, before and after a step.
LEMMA OneAtATimeIs ==
    /\ OneAtATime <=> /\ ~up => withdrawals = <<>>
                      /\ \A x \in Standing : ActiveOK(x)
                      /\ OnlyOne
                      /\ pc = "cancelled" =>
                            WithdrawalsOf(request.asset, request.wallet,
                                          {"unchecked", "pending"}) = {row}
    /\ OneAtATime' <=> /\ ~up' => withdrawals' = <<>>
                       /\ \A x \in Standing' : ActiveOK(x)'
                       /\ OnlyOne'
                       /\ pc' = "cancelled" =>
                             WithdrawalsOf(request.asset, request.wallet,
                                           {"unchecked", "pending"})' = {row'}
BY DEF OneAtATime, ActiveOK, OnlyOne

\* The halt is for good.
LEMMA HaltStays ==
    ASSUME BooksStep
    PROVE  halted => halted'
<1>1. TypeOK /\ HaltInv /\ [AnyNext]_vars
  BY StepOfState
<1> QED
  BY <1>1, HaltStopsTheClock

\* A client that asks has no other request under way.
LEMMA OneAfterAsking ==
    ASSUME BooksStep, CrashFree', NEW c \in Clients, NEW t \in Tokens, NEW amount \in Nat,
           Requesting(c, t, amount)
    PROVE  (\A x \in Standing' : ActiveOK(x)') /\ OnlyOne'
<1> DEFINE n == NewRequest(c, t, amount)
<1>0. OperatorTypeOK /\ TypeOK /\ CommitInv /\ OneAtATime
  BY StepOfState, CrashFreeState
<1>1. initiateWithdrawal(c, t, amount) /\ Standing' = Standing \cup {n}
  BY DEF Requesting
<1>2. /\ n.round = round /\ n.asset = t /\ n.wallet = c /\ n.status = "unchecked"
  BY DEF NewRequest
<1>3. /\ round \in Rounds
      /\ \A u \in Tokens, d \in Clients :
            activeWithdrawalRounds'[u][d] = IF u = t /\ d = c THEN round
                                            ELSE activeWithdrawalRounds[u][d]
  <2>1. round \in Rounds
    BY <1>0 DEF TypeOK
  <2>2. \A u \in Tokens, d \in Clients :
           activeWithdrawalRounds'[u][d] = IF u = t /\ d = c THEN round
                                           ELSE activeWithdrawalRounds[u][d]
    BY <1>0, <1>1, ActiveAfterAsking
  <2> QED
    BY <2>1, <2>2
<1>4. \A x \in Standing : x.asset \in Tokens /\ x.wallet \in Clients
  BY <1>0, StandingIn
<1>5. \A x \in Standing : x.asset = t /\ x.wallet = c => ~Unfinished(x)
  BY <1>1, NoneUnfinished
<1>6. (\A x \in Standing : ActiveOK(x)) /\ OnlyOne
  BY <1>0, OneAtATimeIs
<1>7. \A x : Unfinished(x)' <=> Unfinished(x)
  BY DEF Unfinished
<1> HIDE DEF n
<1>8. halted => halted'
  BY HaltStays
<1>9. ASSUME NEW x \in Standing' PROVE ActiveOK(x)'
  <2>1. CASE x = n
    BY <1>2, <1>3, <2>1 DEF ActiveOK, Unfinished
  <2>2. CASE x \in Standing /\ ~(x.asset = t /\ x.wallet = c)
    <3>1. activeWithdrawalRounds'[x.asset][x.wallet] = activeWithdrawalRounds[x.asset][x.wallet]
      BY <1>3, <1>4, <2>2
    <3> QED
      BY <1>6, <1>7, <1>8, <2>2, <3>1 DEF ActiveOK
  <2>3. CASE x \in Standing /\ x.asset = t /\ x.wallet = c
    BY <1>5, <1>7, <2>3 DEF ActiveOK
  <2> QED
    BY <1>1, <2>1, <2>2, <2>3
<1>10. ASSUME NEW x \in Standing', NEW y \in Standing', Unfinished(x), Unfinished(y),
              x.asset = y.asset, x.wallet = y.wallet
       PROVE  x = y
  BY <1>1, <1>2, <1>5, <1>6, <1>10 DEF OnlyOne
<1> QED
  BY <1>7, <1>9, <1>10 DEF OnlyOne

\* A request that is granted is the active one.
LEMMA OneAfterBooking ==
    ASSUME BooksStep, CrashFree', Booking
    PROVE  (\A x \in Standing' : ActiveOK(x)') /\ OnlyOne'
<1> DEFINE q == request
           n == Changed(q, "pending")
<1>0. OperatorTypeOK /\ TypeOK /\ OneAtATime
  BY StepOfState, CrashFreeState
<1>1. q \in Standing /\ q.status = "unchecked" /\ Standing' = (Standing \ {q}) \cup {n}
      /\ UNCHANGED <<halted, activeWithdrawalRounds>>
  BY DEF Booking, mediatorVars, vars, haltVars, withdrawalVars
<1>2. halted \/ activeWithdrawalRounds[q.asset][q.wallet] = q.round
  BY GrantedIsActive
<1> HIDE DEF q
<1>3. q \in Withdrawal
  BY <1>0, <1>1, StandingIn
<1>4. n.status = "pending" /\ SameRequest(n, q)
  BY <1>3, ChangedIs
<1> HIDE DEF n
<1>6. (\A x \in Standing : ActiveOK(x)) /\ OnlyOne
  BY <1>0, OneAtATimeIs
<1>7. \A x : Unfinished(x)' <=> Unfinished(x)
  BY DEF Unfinished
<1>9. ASSUME NEW x \in Standing' PROVE ActiveOK(x)'
  <2>1. CASE x = n
    <3>1. activeWithdrawalRounds[q.asset][q.wallet] \in {0, q.round}
      BY <1>1, <1>6 DEF ActiveOK, Unfinished
    <3> QED
      BY <1>1, <1>2, <1>4, <2>1, <3>1 DEF ActiveOK, SameRequest
  <2>2. CASE x \in Standing
    BY <1>1, <1>6, <1>7, <2>2 DEF ActiveOK
  <2> QED
    BY <1>1, <2>1, <2>2
<1>10. ASSUME NEW x \in Standing', NEW y \in Standing', Unfinished(x), Unfinished(y),
              x.asset = y.asset, x.wallet = y.wallet
       PROVE  x = y
  <2>1. ASSUME NEW z \in Standing, z # q, Unfinished(z) PROVE ~(z.asset = q.asset /\ z.wallet = q.wallet)
    BY <1>1, <1>6, <2>1 DEF OnlyOne, Unfinished
  <2> QED
    BY <1>1, <1>4, <1>6, <1>10, <2>1 DEF OnlyOne, SameRequest
<1> QED
  BY <1>7, <1>9, <1>10 DEF OnlyOne

\* A request that is confirmed or canceled is no longer under way.
LEMMA OneAfterEnding ==
    ASSUME BooksStep, CrashFree', NEW q \in Standing, Unfinished(q), NEW n, ~Unfinished(n),
           Standing' \subseteq (Standing \ {q}) \cup {n},
           \A u \in Tokens, d \in Clients :
              activeWithdrawalRounds'[u][d] = IF u = q.asset /\ d = q.wallet THEN 0
                                              ELSE activeWithdrawalRounds[u][d]
    PROVE  (\A x \in Standing' : ActiveOK(x)') /\ OnlyOne'
<1>0. OperatorTypeOK /\ TypeOK /\ OneAtATime
  BY StepOfState, CrashFreeState
<1>4. \A x \in Standing : x.asset \in Tokens /\ x.wallet \in Clients
  BY <1>0, StandingIn
<1>6. (\A x \in Standing : ActiveOK(x)) /\ OnlyOne
  BY <1>0, OneAtATimeIs
<1>7. \A x : Unfinished(x)' <=> Unfinished(x)
  BY DEF Unfinished
<1>8. halted => halted'
  BY HaltStays
<1>9. ASSUME NEW x \in Standing' PROVE ActiveOK(x)'
  <2>1. CASE x = n
    BY <1>7, <2>1 DEF ActiveOK
  <2>2. CASE x \in Standing /\ x # q /\ Unfinished(x)
    <3>1. ~(x.asset = q.asset /\ x.wallet = q.wallet)
      BY <1>6, <2>2 DEF OnlyOne
    <3>2. activeWithdrawalRounds'[x.asset][x.wallet] = activeWithdrawalRounds[x.asset][x.wallet]
      BY <1>4, <2>2, <3>1
    <3> QED
      BY <1>6, <1>8, <2>2, <3>2 DEF ActiveOK
  <2>3. CASE ~Unfinished(x)
    BY <1>7, <2>3 DEF ActiveOK
  <2> QED
    BY <2>1, <2>2, <2>3
<1>10. ASSUME NEW x \in Standing', NEW y \in Standing', Unfinished(x), Unfinished(y),
              x.asset = y.asset, x.wallet = y.wallet
       PROVE  x = y
  BY <1>6, <1>10 DEF OnlyOne
<1> QED
  BY <1>7, <1>9, <1>10 DEF OnlyOne

\* What changes no request leaves the active ones alone.
LEMMA QuietKeepsActive ==
    ASSUME BooksStep, Quiet, ~ClaimStep
    PROVE  activeWithdrawalRounds' = activeWithdrawalRounds
<1>0. OperatorTypeOK /\ TypeOK /\ BooksState
  BY StepOfState
<1>1. CASE Clock
  BY <1>1 DEF Clock, Tick, withdrawalVars
<1>2. CASE DepositStep
  <2>1. PICK c \in Clients, t \in Tokens : \E amount \in Amounts(t) : deposit(c, t, amount)
    BY <1>2 DEF DepositStep
  <2> QED
    BY <2>1 DEF deposit, depositTokens, withdrawalVars
<1>3. CASE MinedStep
  BY <1>3 DEF MinedStep, commitMined, CommitOf, commit, withdrawalVars
<1>4. CASE UNCHANGED <<clockVars, depositVars, withdrawalVars, commitVars>>
  BY <1>4 DEF withdrawalVars
<1> QED
  BY <1>1, <1>2, <1>3, <1>4 DEF Quiet

\* What is not finished is active, one request for each client and token.
LEMMA ActiveStep ==
    ASSUME BooksStep, CrashFree'
    PROVE  (\A x \in Standing' : ActiveOK(x)') /\ OnlyOne'
<1>0. /\ OperatorTypeOK /\ TypeOK /\ BooksState /\ OneAtATime /\ Whole'
  BY StepOfState, CrashFreeState
<1>1. (\A x \in Standing : ActiveOK(x)) /\ OnlyOne
  BY <1>0, OneAtATimeIs
<1>2. \A x : Unfinished(x)' <=> Unfinished(x)
  BY DEF Unfinished
<1>3. halted => halted'
  BY HaltStays
<1>4. CASE ClaimStep
  <2>1. PICK c \in Clients, t \in Tokens :
           /\ confirmWithdrawal(c, t)
           /\ \/ \E x \in Standing : Claiming(c, t, x)
              \/ Standing' = Standing /\ WithdrawalsOf(t, c, {"pending"}) = {}
    BY <1>4, ClaimPart
  <2>2. /\ TRUE
        /\ \A u \in Tokens, d \in Clients :
              activeWithdrawalRounds'[u][d] = IF u = t /\ d = c THEN 0
                                              ELSE activeWithdrawalRounds[u][d]
    BY <1>0, <2>1, ClaimedOnChain
  <2>3. ASSUME NEW q \in Standing, Claiming(c, t, q)
        PROVE  (\A x \in Standing' : ActiveOK(x)') /\ OnlyOne'
    <3> DEFINE n == Changed(q, "confirmed")
    <3>1. /\ q.status = "pending" /\ q.asset = t /\ q.wallet = c
          /\ Standing' = (Standing \ {q}) \cup {n}
      BY <2>3 DEF Claiming
    <3>2. q \in Withdrawal
      BY <1>0, StandingIn
    <3>3. n.status = "confirmed"
      BY <3>2, ChangedIs
    <3> HIDE DEF n
    <3>4. ~Unfinished(n) /\ Unfinished(q)
      BY <3>1, <3>3 DEF Unfinished
    <3>5. \A u \in Tokens, d \in Clients :
              activeWithdrawalRounds'[u][d] = IF u = q.asset /\ d = q.wallet THEN 0
                                              ELSE activeWithdrawalRounds[u][d]
      BY <2>2, <3>1
    <3> QED
      BY <3>1, <3>4, <3>5, OneAfterEnding
  <2>4. CASE Standing' = Standing /\ WithdrawalsOf(t, c, {"pending"}) = {}
    <3>1. ASSUME NEW x \in Standing PROVE ActiveOK(x)'
      <4>1. x.asset \in Tokens /\ x.wallet \in Clients
        BY <1>0, StandingIn
      <4>2. CASE x.asset = t /\ x.wallet = c
        <5>1. activeWithdrawalRounds'[x.asset][x.wallet] = 0
          BY <2>2, <4>1, <4>2
        <5>2. x.status # "pending"
          <6> SUFFICES ASSUME x.status = "pending" PROVE FALSE
            OBVIOUS
          <6>1. PICK i \in LiveRows : x = withdrawals[i]
            <7>1. \A i \in Coming : RowOf(unprocessed[i]).status = "unchecked"
              BY DEF RowOf
            <7> QED
              BY <7>1, IsStanding
          <6>2. i \in WithdrawalsOf(t, c, {"pending"})
            BY <4>2, <6>1 DEF LiveRows, WithdrawalsOf
          <6> QED
            BY <2>4, <6>2
        <5> QED
          BY <5>1, <5>2 DEF ActiveOK
      <4>3. CASE ~(x.asset = t /\ x.wallet = c)
        <5>1. activeWithdrawalRounds'[x.asset][x.wallet] = activeWithdrawalRounds[x.asset][x.wallet]
          BY <2>2, <4>1, <4>3
        <5> QED
          BY <1>1, <1>3, <5>1 DEF ActiveOK, Unfinished
      <4> QED
        BY <4>2, <4>3
    <3> QED
      BY <1>1, <1>2, <2>4, <3>1 DEF OnlyOne
  <2> QED
    BY <2>1, <2>3, <2>4
<1>5. CASE Quiet /\ ~ClaimStep
  <2>1. activeWithdrawalRounds' = activeWithdrawalRounds /\ Standing' = Standing
    BY <1>5, QuietKeepsActive DEF Quiet
  <2>2. ASSUME NEW x \in Standing PROVE ActiveOK(x)'
    BY <1>1, <1>3, <2>1 DEF ActiveOK, Unfinished
  <2> QED
    BY <1>1, <1>2, <2>1, <2>2 DEF OnlyOne
<1>6. CASE Cancelling
  <2> DEFINE q == request
  <2>1. q \in Standing /\ q.status = "unchecked" /\ Standing' = Standing \ {q}
    BY <1>6 DEF Cancelling
  <2>2. /\ TRUE
        /\ \A t \in Tokens, c \in Clients :
              activeWithdrawalRounds'[t][c] = IF t = q.asset /\ c = q.wallet THEN 0
                                              ELSE activeWithdrawalRounds[t][c]
    BY <1>0, <1>6, CancellingChain
  <2> HIDE DEF q
  <2>3. PICK n : n = [status |-> "confirmed"]
    OBVIOUS
  <2>4. n.status = "confirmed"
    BY <2>3
  <2>5. ~Unfinished(n) /\ Unfinished(q)
    BY <2>1, <2>4 DEF Unfinished
  <2>6. Standing' \subseteq (Standing \ {q}) \cup {n}
    BY <2>1
  <2> QED
    BY <2>1, <2>2, <2>5, <2>6, OneAfterEnding
<1>7. CASE Booking
  BY <1>7, OneAfterBooking
<1>8. CASE \E c \in Clients, t \in Tokens, amount \in Nat : Requesting(c, t, amount)
  BY <1>8, OneAfterAsking
<1>9. CASE \E c \in Clients, t \in Tokens, x \in Standing : Claiming(c, t, x)
  BY <1>4, <1>9 DEF Claiming, ClaimStep
<1> QED
  BY <1>0, <1>4, <1>5, <1>6, <1>7, <1>8, <1>9, StandingPart

\* The process has rows only while it runs.
LEMMA RowsNeedProcess ==
    ASSUME BooksStep, CrashFree', ~up'
    PROVE  withdrawals' = <<>>
<1>0. /\ OperatorTypeOK /\ AtABlock /\ [OpNext]_opVars /\ OneAtATime /\ ~Crash /\ BooksState
  BY StepOfState, CrashFreeState
<1>1. ~up
  BY <1>0, UpPart DEF Start
<1>2. withdrawals = <<>> /\ pc = "idle"
  BY <1>0, <1>1 DEF OneAtATime, AtABlock
<1>3. ~RowInserted /\ ~bookWithdrawal /\ ~cancelWithdrawalInLedger
  BY <1>2 DEF RowInserted, onInitiateWithdrawal, bookWithdrawal, cancelWithdrawalInLedger
<1> QED
  BY <1>0, <1>1, <1>2, <1>3, RowsPart

\* Nobody else ends the request that is being canceled.
LEMMA CancelledIsAlone ==
    ASSUME BooksStep, CrashFree', pc' = "cancelled"
    PROVE  WithdrawalsOf(request.asset, request.wallet, {"unchecked", "pending"})' = {row'}
<1>0. /\ OperatorTypeOK /\ AtABlock /\ [OpNext]_opVars /\ OneAtATime /\ BooksState /\ ~Crash
      /\ RequestIds
  BY StepOfState, CrashFreeState
<1>1. CancelsOnChain \/ (pc = "cancelled" /\ todo' = todo)
  <2>1. pc' \in Moderates
    BY DEF Moderates, Moderating
  <2> QED
    <3>1. moderateWithdrawalRequest => pc' \in {"approve", "cancel"}
      BY DEF moderateWithdrawalRequest, Goto
    <3> QED
      BY <1>0, <2>1, <3>1, ModerationPart
<1>2. todo' = todo /\ row' = row
  BY <1>1 DEF CancelsOnChain, row
<1> DEFINE W(t, c) == WithdrawalsOf(t, c, {"unchecked", "pending"})
<1>3. CASE CancelsOnChain
  <2>1. /\ withdrawals' = withdrawals /\ pc = "cancel" /\ request \in Standing
        /\ request.status = "unchecked" /\ row \in LiveRows /\ request = withdrawals[row]
    BY <1>0, <1>3, CancellingPart DEF Cancelling
  <2>2. ASSUME NEW i \in W(request.asset, request.wallet) PROVE i = row
    <3>1. i \in LiveRows /\ i \in DOMAIN withdrawals
      BY <2>1, <2>2 DEF WithdrawalsOf, LiveRows
    <3>2. withdrawals[i] \in Standing /\ Unfinished(withdrawals[i]) /\ Unfinished(request)
          /\ withdrawals[i].asset = request.asset /\ withdrawals[i].wallet = request.wallet
      BY <2>1, <2>2, <3>1, IsStanding DEF WithdrawalsOf, Unfinished
    <3>3. withdrawals[i] = request
      BY <1>0, <2>1, <3>2 DEF OneAtATime
    <3>4. row \in DOMAIN withdrawals
      BY <2>1 DEF LiveRows
    <3> QED
      BY <1>0, <2>1, <3>1, <3>3, <3>4 DEF RequestIds
  <2>3. row \in W(request.asset, request.wallet)
    BY <2>1 DEF WithdrawalsOf, LiveRows
  <2>4. request' = request
    BY <1>2, <2>1 DEF request, row
  <2> QED
    BY <1>2, <2>1, <2>2, <2>3, <2>4 DEF WithdrawalsOf
<1>4. CASE pc = "cancelled" /\ todo' = todo
  <2>1. /\ W(request.asset, request.wallet) = {row}
        /\ row \in DOMAIN withdrawals /\ withdrawals[row].status = "unchecked"
        /\ request = withdrawals[row]
    BY <1>0, <1>4, InCancellation
  <2>2. PICK q : q = request
    OBVIOUS
  <2>3. ~RowInserted /\ ~bookWithdrawal
    BY <1>4 DEF RowInserted, onInitiateWithdrawal, bookWithdrawal
  <2>4. ~cancelWithdrawalInLedger
    BY DEF cancelWithdrawalInLedger, NextItem
  <2>5. CASE withdrawals' = withdrawals
    <3>1. request' = request
      BY <1>2, <2>5 DEF request, row
    <3> QED
      BY <1>2, <2>1, <2>5, <3>1 DEF WithdrawalsOf
  <2>6. ASSUME NEW c \in Clients, NEW t \in Tokens, NEW j \in WithdrawalsOf(t, c, {"pending"}),
               SetsStatus(j, "confirmed")
        PROVE  WithdrawalsOf(request.asset, request.wallet, {"unchecked", "pending"})' = {row'}
    <3>1. /\ j \in DOMAIN withdrawals /\ withdrawals[j].status = "pending"
          /\ withdrawals[j].asset = t /\ withdrawals[j].wallet = c
      BY DEF WithdrawalsOf
    <3>2. /\ DOMAIN withdrawals' = DOMAIN withdrawals
          /\ \A i \in DOMAIN withdrawals \ {j} : withdrawals'[i] = withdrawals[i]
          /\ withdrawals'[j].status = "confirmed"
      BY <1>0, <2>6, <3>1, StatusSet
    <3>3. j # row
      BY <2>1, <3>1
    <3>4. j \notin W(q.asset, q.wallet)
      BY <2>1, <2>2, <3>3
    <3>5. request' = q
      BY <1>2, <2>1, <2>2, <3>2, <3>3 DEF request
    <3>6. \A i : i \in WithdrawalsOf(q.asset, q.wallet, {"unchecked", "pending"})'
                    <=> i \in W(q.asset, q.wallet)
      BY <3>2, <3>4 DEF WithdrawalsOf
    <3>7. WithdrawalsOf(q.asset, q.wallet, {"unchecked", "pending"})' = {row}
      <4>1. \A i : i \in WithdrawalsOf(q.asset, q.wallet, {"unchecked", "pending"})' <=> i = row
        BY <2>1, <2>2, <3>6
      <4> QED
        BY <4>1 DEF WithdrawalsOf
    <3> QED
      BY <1>2, <3>5, <3>7
  <2> QED
    BY <1>0, <2>3, <2>4, <2>5, <2>6, RowsPart
<1> QED
  BY <1>1, <1>3, <1>4

\* A client has one request of a token under way.
LEMMA OneAtATimeStep ==
    ASSUME BooksStep, CrashFree'
    PROVE  OneAtATime'
BY ActiveStep, RowsNeedProcess, CancelledIsAlone, OneAtATimeIs

-----------------------------------------------------------------------------
(* Without a crash: why a root proves nothing. *)

\* The row of a request that was not granted of a round before r.
Refused(i, t, r) ==
    /\ i \in LiveRows
    /\ withdrawals[i].asset = t /\ withdrawals[i].round < r
    /\ withdrawals[i].status = "unchecked"

\* When the tree mined is not the one of the contract's sum, some request was refused.
LEMMA RefusedBehind ==
    ASSUME BooksState, CrashFree, NEW tx \in outbox, commitMined(tx),
           commits'[round][tx.asset] = Unprovable, Clients # {}
    PROVE  \E i : Refused(i, tx.asset, round)
<1> DEFINE a == tx.asset
<1>0. OperatorTypeOK /\ TypeOK /\ DepositsCovered /\ RequestsStand /\ lost = 0 /\ crashes = 0
  BY DEF BooksState, DepositsInv, LedgerInv, ContractInv, IInv, Whole, CrashFree
<1>1. /\ a \in Tokens /\ round \in 1..MaxRound /\ Live(tx)
  BY MinedIsLive
<1>2. PICK r : r = round /\ r \in Rounds /\ r \in Nat
  BY <1>1 DEF Rounds
<1>3. /\ MinableIn(a, tx.leaves, r)
      /\ \A i \in DOMAIN unprocessed : unprocessed[i].round = r /\ unprocessed[i].round >= r
  <2>1. MinableIn(a, tx.leaves, r)
    BY <1>1, <1>2, LiveIs
  <2> QED
    BY <1>2, <2>1 DEF MinableIn
<1> DEFINE root == Root(getSolvencyTree(a, round), previousClosingBalance(a))
<1>4. commits'[round][a] = root
  BY <1>1, <1>2, MinedCommit
<1>5. IF \A k \in Before(round) : Agree(k, a)
      THEN root = Tree(getSolvencyTree(a, round))
      ELSE root = Unprovable
  BY MinedIsRight
<1>6. ~\A k \in Before(r) : Agree(k, a)
  <2>1. Tree(getSolvencyTree(a, round)) # Unprovable
    BY DEF Tree, Unprovable
  <2> QED
    BY <1>2, <1>4, <1>5, <2>1
<1>7. PICK k \in Before(r) : ~Agree(k, a)
  BY <1>6
<1>8. PICK c \in Clients : ~(/\ accounts[k][a][c].deposited = clientDeposits[k][a][c]
                            /\ accounts[k][a][c].withdrawn = Requested(k, a, c))
  BY <1>7 DEF Agree
<1>9. accounts[k][a][c].deposited = clientDeposits[k][a][c]
  BY <1>0, <1>1, <1>2, <1>3, LedgerCovers
<1>10. accounts[k][a][c].withdrawn # Requested(k, a, c)
  BY <1>8, <1>9
<1>11. k \in Rounds /\ k < r
  BY DEF Before
<1>12. BookedOK(k, a, c) /\ Requested(k, a, c) \in Nat
  BY <1>0, <1>1, <1>11, RequestsStandIs, RequestedOK
<1>13. ~(\E x \in Of(k, a, c) : Granted(x)) /\ Requested(k, a, c) > 0
  BY <1>10, <1>12 DEF BookedOK
<1>14. PICK x \in Of(k, a, c) : ~Granted(x)
  BY <1>12, <1>13 DEF BookedOK
<1>15. x \in Standing /\ x.round = k /\ x.asset = a /\ x.wallet = c
  BY OfIs
<1>16. x.status = "unchecked"
  BY <1>0, <1>14, <1>15, StandingIn DEF Granted
<1>17. ASSUME NEW i \in Coming, x = RowOf(unprocessed[i]) PROVE FALSE
  <2>1. x.round = unprocessed[i].round /\ i \in DOMAIN unprocessed
    BY <1>0, <1>17, ComingIn
  <2>2. x.round = r
    BY <1>3, <2>1
  <2> QED
    BY <1>2, <1>11, <1>15, <2>2 DEF Rounds
<1>18. PICK i \in LiveRows : x = withdrawals[i]
  BY <1>15, <1>17, IsStanding
<1> QED
  BY <1>2, <1>11, <1>15, <1>16, <1>18 DEF Refused

\* What was not granted of a round that has been closed stays so, and stays asked for.
LEMMA RefusedStays ==
    ASSUME BooksStep, CrashFree', NEW r \in 1..MaxRound, NEW t \in Tokens,
           commits[r][t] # NoRoot, NEW i, Refused(i, t, r)
    PROVE  Refused(i, t, r)'
<1>0. /\ OperatorTypeOK /\ AtABlock /\ [OpNext]_opVars /\ BooksState /\ CommitInv /\ TypeOK
      /\ RefusalsAreFinal /\ ~Crash
  BY StepOfState, CrashFreeState
<1>1. /\ i \in DOMAIN withdrawals /\ withdrawals[i].asset = t /\ withdrawals[i].round < r
      /\ withdrawals[i].status = "unchecked" /\ (pc = "cancelled" => i # row)
  BY DEF Refused, LiveRows
<1>2. r \in Rounds /\ r \in Nat /\ withdrawals[i].round \in Nat /\ round \in Nat /\ r <= round
  <2>1. r \in Rounds /\ r <= round
    BY <1>0, ConstantsAssumption DEF Rounds, CommitInv
  <2>2. withdrawals[i] \in Withdrawal
    BY <1>0, <1>1 DEF OperatorTypeOK
  <2> QED
    BY <1>0, <2>1, <2>2 DEF Withdrawal, Rounds, TypeOK
<1>3. i \in DOMAIN withdrawals' /\ withdrawals'[i] = withdrawals[i]
  <2>1. CASE RowInserted
    BY <1>1, <1>0, <2>1, RowsAfterInsertion
  <2>2. ASSUME NEW j \in DOMAIN withdrawals, j # i,
               NEW status \in {"pending", "confirmed", "canceled"}, SetsStatus(j, status)
        PROVE  i \in DOMAIN withdrawals' /\ withdrawals'[i] = withdrawals[i]
    BY <1>0, <1>1, <2>2, StatusSet
  <2>3. CASE bookWithdrawal
    <3>1. row \in DOMAIN withdrawals /\ request = withdrawals[row] /\ pc = "book"
          /\ SetsStatus(row, "pending")
      BY <1>0, <2>3, BookingPart DEF Booking
    <3>2. request.asset # t \/ request.round >= r
      BY <1>0, <3>1 DEF RefusalsAreFinal
    <3>3. row # i
      BY <1>1, <1>2, <3>1, <3>2
    <3> QED
      BY <2>2, <3>1, <3>3
  <2>4. CASE cancelWithdrawalInLedger
    <3>1. SetsStatus(row, "canceled") /\ row \in DOMAIN withdrawals /\ pc = "cancelled"
      BY <1>0, <2>4, StandingAfterEnd
    <3> QED
      BY <1>1, <2>2, <3>1
  <2>5. ASSUME NEW c, NEW u, NEW j \in WithdrawalsOf(u, c, {"pending"}), SetsStatus(j, "confirmed")
        PROVE  i \in DOMAIN withdrawals' /\ withdrawals'[i] = withdrawals[i]
    <3>1. j \in DOMAIN withdrawals /\ j # i
      BY <1>1 DEF WithdrawalsOf
    <3> QED
      BY <2>2, <2>5, <3>1
  <2>6. CASE withdrawals' = withdrawals
    BY <1>1, <2>6
  <2> QED
    BY <1>0, <2>1, <2>3, <2>4, <2>5, <2>6, RowsPart
<1>4. pc' = "cancelled" => i # row'
  <2> SUFFICES ASSUME pc' = "cancelled" PROVE i # row'
    OBVIOUS
  <2>1. CancelsOnChain \/ (pc = "cancelled" /\ todo' = todo)
    <3>1. moderateWithdrawalRequest => pc' \in {"approve", "cancel"}
      BY DEF moderateWithdrawalRequest, Goto
    <3>2. pc' \in Moderates
      BY DEF Moderates, Moderating
    <3> QED
      BY <1>0, <3>1, <3>2, ModerationPart
  <2>2. row' = row
    BY <2>1 DEF CancelsOnChain, row
  <2>3. CASE CancelsOnChain
    <3>1. Cancelling /\ request = withdrawals[row]
      BY <1>0, <2>3, CancellingPart DEF Cancelling
    <3>2. TRUE /\ canCancelWithdrawal(request.round, request.asset)
      BY <1>0, <3>1, CancellingChain
    <3>3. row # i
      <4> SUFFICES ASSUME row = i PROVE FALSE
        OBVIOUS
      <4>1. canCancelWithdrawal(withdrawals[i].round, t)
        BY <1>1, <3>1, <3>2
      <4>2. round = withdrawals[i].round + 1 /\ commits[round][t] = NoRoot
        BY <1>1, <1>2, <4>1 DEF canCancelWithdrawal
      <4>3. r = round
        BY <1>1, <1>2, <4>2
      <4> QED
        BY <4>2, <4>3
    <3> QED
      BY <2>2, <3>3
  <2> QED
    BY <1>1, <2>1, <2>2, <2>3
<1> QED
  BY <1>1, <1>3, <1>4 DEF Refused, LiveRows

\* A root that proves nothing is a root.
LEMMA UnprovableIsRoot == NoRoot # Unprovable
BY ConstantsAssumption DEF Unprovable, Roots

\* A root that proves nothing has a refused request behind it.
LEMMA UnprovableHasReasonStep ==
    ASSUME BooksStep, CrashFree'
    PROVE  UnprovableHasReason'
<1>0. BooksState /\ CrashFree /\ UnprovableHasReason /\ OperatorTypeOK
  BY StepOfState, CrashFreeState
<1>1. ASSUME NEW r \in 1..MaxRound, NEW t \in Tokens,
             Clients # {}, commits'[r][t] = Unprovable
      PROVE  \E i : Refused(i, t, r)'
  <2>0. r \in Rounds
    BY ConstantsAssumption DEF Rounds
  <2>1. CASE commits[r][t] = Unprovable
    <3>1. PICK i : Refused(i, t, r)
      BY <1>0, <1>1, <2>1 DEF UnprovableHasReason, Refused
    <3>2. commits[r][t] # NoRoot
      BY <2>1, UnprovableIsRoot
    <3> QED
      BY <3>1, <3>2, RefusedStays
  <2>2. CASE commits[r][t] # Unprovable
    <3>1. PICK tx \in outbox : commitMined(tx) /\ r = round /\ t = tx.asset
      BY <1>1, <2>0, <2>2, RootIsMined
    <3>2. \E i : Refused(i, tx.asset, round)
      BY <1>0, <1>1, <3>1, RefusedBehind
    <3>3. PICK i : Refused(i, t, r)
      BY <3>1, <3>2
    <3>4. UNCHANGED <<withdrawals, pc, todo>>
      BY <1>0, <3>1, MinedCommit
    <3> QED
      BY <3>3, <3>4 DEF Refused, LiveRows, row
  <2> QED
    BY <2>1, <2>2
<1> QED
  BY <1>1 DEF UnprovableHasReason, Refused

-----------------------------------------------------------------------------
(* The invariant, at the start and at every step. *)

(* At the start. *)

\* At the start nothing has been requested, deposited or booked.
LEMMA NothingRequested ==
    ASSUME OpInit
    PROVE  /\ withdrawals = <<>> /\ unprocessed = <<>> /\ outbox = {} /\ approvals = {}
           /\ pc = "idle" /\ ~up /\ _round = 0 /\ _quarter = 0 /\ round = 0 /\ quarter = 0
           /\ Standing = {} /\ uncheckedWithdrawals = {}
           /\ \A r \in Rounds, t \in Tokens : commits[r][t] = NoRoot /\ openingBalances[r][t] = 0
           /\ \A t \in Tokens, c \in Clients : activeWithdrawalRounds[t][c] = 0
           /\ \A k \in Rounds, t \in Tokens, c \in Clients :
                 /\ Requested(k, t, c) = 0 /\ ~PaidOut(k, t, c)
                 /\ clientRequestedWithdrawals[k][t][c].openingBalance = 0
                 /\ accounts[k][t][c].withdrawn = 0
                 /\ clientDeposits[k][t][c] = 0
<1>1. /\ withdrawals = <<>> /\ unprocessed = <<>> /\ outbox = {} /\ approvals = {}
      /\ pc = "idle" /\ ~up /\ _round = 0 /\ _quarter = 0 /\ round = 0 /\ quarter = 0
  BY DEF OpInit, Init
<1>2. DOMAIN withdrawals = {} /\ DOMAIN unprocessed = {}
  BY <1>1
<1>3. LiveRows = {} /\ Coming = {}
  BY <1>2 DEF LiveRows, Coming
<1>4. Standing = {}
  BY <1>3, IsStanding
<1>5. uncheckedWithdrawals = {}
  BY <1>2 DEF uncheckedWithdrawals
<1>6. /\ \A r \in Rounds, t \in Tokens : commits[r][t] = NoRoot /\ openingBalances[r][t] = 0
      /\ \A t \in Tokens, c \in Clients : activeWithdrawalRounds[t][c] = 0
  BY DEF OpInit, Init
<1>7. ASSUME NEW k \in Rounds, NEW t \in Tokens, NEW c \in Clients
      PROVE  /\ Requested(k, t, c) = 0
             /\ clientRequestedWithdrawals[k][t][c].openingBalance = 0
             /\ accounts[k][t][c].withdrawn = 0
             /\ clientDeposits[k][t][c] = 0
  BY DEF OpInit, Init, Requested
<1>8. ASSUME NEW k \in Rounds, NEW t \in Tokens, NEW c \in Clients
      PROVE  ~PaidOut(k, t, c)
  BY <1>7 DEF PaidOut, Requested
<1> QED
  BY <1>1, <1>4, <1>5, <1>6, <1>7, <1>8

\* And nobody owns anything.
LEMMA NothingOwned ==
    ASSUME OpInit, NEW t \in Tokens, NEW c \in Clients, NEW r
    PROVE  ChainOpening(t, c, r) = 0
<1>1. TypeOK
  BY InitIInv DEF OpInit, IInv
<1>2. \A k \in Before(r) : ChainFlow(t, c)[k] = 0
  <2> SUFFICES ASSUME NEW k \in Before(r) PROVE ChainFlow(t, c)[k] = 0
    OBVIOUS
  <2>1. k \in Rounds
    BY DEF Before
  <2>2. Requested(k, t, c) = 0 /\ clientDeposits[k][t][c] = 0
    BY <2>1, NothingRequested
  <2> QED
    BY <2>1, <2>2 DEF ChainFlow
<1>3. IsFiniteSet(Before(r))
  BY BeforeOK
<1>4. SumFunctionOnSet(ChainFlow(t, c), Before(r)) = 0
  BY <1>2, <1>3, SumZero
<1> QED
  BY <1>4, ChainOpeningIs

\* The invariant holds at the start.
LEMMA BooksAtStart == OpInit => BooksInv
<1> SUFFICES ASSUME OpInit PROVE BooksInv
  OBVIOUS
<1>0. OperatorTypeOK /\ IInv /\ TotalsMatch /\ MaxRound \in Nat
  BY OpInitOK, InitIInv, TotalsAtStart, ConstantsAssumption DEF OpInit
<1>1. /\ withdrawals = <<>> /\ unprocessed = <<>> /\ outbox = {} /\ approvals = {}
      /\ pc = "idle" /\ ~up /\ _round = 0 /\ _quarter = 0 /\ round = 0 /\ quarter = 0
      /\ Standing = {} /\ uncheckedWithdrawals = {}
  BY NothingRequested
<1>2. DOMAIN withdrawals = {} /\ DOMAIN unprocessed = {}
  BY <1>1
<1>3. \A r \in 1..MaxRound, t \in Tokens : commits[r][t] = NoRoot
  BY <1>0, NothingRequested DEF Rounds
<1>4. NoRoot # Unprovable
  BY UnprovableIsRoot
<1>5. OrderInv
  <2>1. BlocksInOrder
    BY <1>1, <1>2 DEF BlocksInOrder
  <2>2. AtWork
    BY <1>1 DEF AtWork, WorkPlaces, Moderating
  <2>3. RequestIds
    BY <1>1, <1>2 DEF RequestIds
  <2> QED
    BY <1>1, <2>1, <2>2, <2>3 DEF OrderInv
<1>6. ContractInv
  <2>1. RequestsAreCovered
    BY NothingRequested DEF RequestsAreCovered
  <2>2. OpeningsAddUp
    <3>1. ASSUME NEW r \in Rounds, NEW t \in Tokens
          PROVE  openingBalances[r][t] =
                    SumFunctionOnSet([c \in Clients |-> ChainOpening(t, c, r)], Clients)
      <4> DEFINE f == [c \in Clients |-> ChainOpening(t, c, r)]
      <4>1. \A c \in Clients : f[c] = 0
        BY NothingOwned
      <4> HIDE DEF f
      <4>2. SumFunctionOnSet(f, Clients) = 0
        BY <4>1, SumZero, ConstantsAssumption
      <4>3. openingBalances[r][t] = 0
        BY NothingRequested
      <4> QED
        BY <4>2, <4>3 DEF f
    <3> QED
      BY <3>1 DEF OpeningsAddUp
  <2>3. OpeningsCovered
    BY NothingOwned DEF OpeningsCovered
  <2> QED
    BY <1>0, <2>1, <2>2, <2>3 DEF ContractInv
<1>7. LedgerInv
  <2>1. Moderation
    BY <1>1 DEF Moderation, Moderating
  <2>2. RequestsStand
    <3>1. \A k, t, c : Of(k, t, c) = {}
      BY <1>1 DEF Of
    <3> QED
      BY <1>1, <3>1, NothingRequested DEF RequestsStand
  <2>3. CommitsFollow
    BY <1>2 DEF CommitsFollow
  <2>4. ProvableIsRight
    BY <1>3, <1>4 DEF ProvableIsRight
  <2>5. OutboxInv
    BY <1>1 DEF OutboxInv
  <2> QED
    BY <2>1, <2>2, <2>3, <2>4, <2>5 DEF LedgerInv
<1>8. CrashFreeInv
  <2>1. OneAtATime
    BY <1>1 DEF OneAtATime
  <2>2. RefusalsAreFinal
    BY <1>1, <1>3 DEF RefusalsAreFinal
  <2>3. UnprovableHasReason
    BY <1>3, <1>4 DEF UnprovableHasReason
  <2> QED
    BY <2>1, <2>2, <2>3 DEF CrashFreeInv
<1> QED
  BY <1>5, <1>6, <1>7, <1>8 DEF BooksInv

(* Every step. *)

\* Every step preserves it.
LEMMA BooksAfterStep ==
    ASSUME OperatorTypeOK, OperatorTypeOK', DepositsInv, DepositsInv', BooksInv,
           [OpNext]_opVars
    PROVE  BooksInv'
<1>1. OrderInv /\ OrderInv'
  BY OrderStays DEF BooksInv
<1>2. Whole' => BooksStep
  BY <1>1, WholeBefore DEF BooksInv, BooksStep
<1>3. ASSUME Whole' PROVE ContractInv' /\ LedgerInv'
  <2>1. BooksStep
    BY <1>2, <1>3
  <2>2. ContractInv'
    BY <2>1, ContractKeeps, RequestsAreCoveredStep, OpeningsAddUpStep, OpeningsCoveredStep
       DEF ContractInv
  <2>3. LedgerInv'
    BY <1>3, <2>1, ModerationStep, RequestsStandStep, CommitsFollowStep,
       ProvableIsRightStep, OutboxInvStep
       DEF LedgerInv
  <2> QED
    BY <2>2, <2>3
<1>4. ASSUME CrashFree' PROVE CrashFreeInv'
  <2>1. Whole'
    BY <1>4 DEF Whole, CrashFree, CancellationsAreWhole
  <2>2. BooksStep
    BY <1>2, <2>1
  <2> QED
    BY <1>4, <2>2, OneAtATimeStep, RefusalsAreFinalStep, UnprovableHasReasonStep
       DEF CrashFreeInv
<1> QED
  BY <1>1, <1>3, <1>4 DEF BooksInv

\* With the types and the deposits it is inductive.
LEMMA BooksInductive ==
    /\ OpInit => OperatorTypeOK /\ DepositsInv /\ BooksInv
    /\ OperatorTypeOK /\ DepositsInv /\ BooksInv /\ [OpNext]_opVars
          => (OperatorTypeOK /\ DepositsInv /\ BooksInv)'
<1>1. OpInit => OperatorTypeOK /\ DepositsInv /\ BooksInv
  BY OpInitOK, BooksAtStart
<1>2. ASSUME OperatorTypeOK, DepositsInv, BooksInv, [OpNext]_opVars
      PROVE  (OperatorTypeOK /\ DepositsInv /\ BooksInv)'
  <2>1. OperatorTypeOK' /\ DepositsInv'
    BY <1>2, StepPreserves
  <2>2. BooksInv'
    BY <1>2, <2>1, BooksAfterStep
  <2> QED
    BY <2>1, <2>2
<1> QED
  BY <1>1, <1>2

\* The inductive invariant of the operator's books.
THEOREM BooksAreKept == OpSpec => [](OperatorTypeOK /\ DepositsInv /\ BooksInv)
BY BooksInductive, PTL DEF OpSpec

-----------------------------------------------------------------------------
(* What follows. *)

\* Once a root that proves a balance to a client is on the chain, it proves the one leaf
\* of the client in the tree that the operator builds of the round (getSolvencyTree,
\* commitMined), however many rounds, orders, requests and cancellations follow, and
\* whenever the process crashes.
THEOREM CommittedTreesAreFinal == OpSpec => []BooksFinal
<1>1. BooksInv => BooksFinal
  <2> SUFFICES ASSUME BooksInv, Whole, NEW r \in 1..MaxRound, NEW t \in Tokens,
                      NEW c \in Clients, Provable(c, t, r) # {}
               PROVE  Provable(c, t, r) = {getSolvencyTree(t, r)[c]}
    BY DEF BooksFinal, Whole
  <2>1. /\ commits[r][t] # NoRoot /\ commits[r][t][c] # {}
        /\ Provable(c, t, r) = commits[r][t][c]
    BY DEF Provable
  <2>2. commits[r][t] # Unprovable
    BY <2>1 DEF Unprovable
  <2>3. commits[r][t] = Tree(getSolvencyTree(t, r))
    BY <2>1, <2>2 DEF BooksInv, LedgerInv, ProvableIsRight
  <2> QED
    BY <2>1, <2>3 DEF Tree
<1> QED
  BY <1>1, BooksInductive, PTL DEF OpSpec

\* A root of the operator leaves a client without a proof only if a request was neither
\* granted nor canceled before its round was closed (moderateWithdrawalRequest,
\* cancelWithdrawalInLedger, commitMined).
THEOREM UnprovableIsExplained == OpSpec => []UnprovableOnlyIfUnmoderated
<1>1. BooksInv => UnprovableOnlyIfUnmoderated
  <2> SUFFICES ASSUME BooksInv, crashes = 0, lost = 0, NEW r \in 1..MaxRound, NEW t \in Tokens,
                      NEW c \in Clients, commits[r][t] # NoRoot, Provable(c, t, r) = {}
               PROVE  \E i \in DOMAIN withdrawals :
                         /\ withdrawals[i].asset = t /\ withdrawals[i].round < r
                         /\ withdrawals[i].status = "unchecked"
    BY DEF UnprovableOnlyIfUnmoderated
  <2>1. UnprovableHasReason
    BY DEF BooksInv, CrashFree, CrashFreeInv
  <2>2. ProvableIsRight
    BY DEF BooksInv, LedgerInv, Whole, CancellationsAreWhole
  <2>3. commits[r][t][c] = {}
    <3>1. r \in Rounds
      BY ConstantsAssumption DEF Rounds
    <3> QED
      BY <3>1 DEF Provable
  <2>4. commits[r][t] = Unprovable
    <3> SUFFICES ASSUME commits[r][t] # Unprovable PROVE FALSE
      OBVIOUS
    <3>1. commits[r][t] = Tree(getSolvencyTree(t, r))
      BY <2>2 DEF ProvableIsRight
    <3> QED
      BY <2>3, <3>1 DEF Tree
  <2> QED
    BY <2>1, <2>4 DEF UnprovableHasReason, LiveRows
<1> QED
  BY <1>1, BooksInductive, PTL DEF OpSpec

\* The row of the active request, when the process has seen the block of it.
LEMMA ActiveHasOneRow ==
    ASSUME BooksState, NEW t \in Tokens, NEW c \in Clients, NEW w,
           w = activeWithdrawalRounds[t][c], w > 0, RequestSeen(t, c)
    PROVE  \E j \in DOMAIN withdrawals :
              {i \in DOMAIN withdrawals :
                  /\ withdrawals[i].asset = t /\ withdrawals[i].wallet = c
                  /\ withdrawals[i].round = w
                  /\ withdrawals[i].status \in {"unchecked", "pending"}} = {j}
<1>0. OperatorTypeOK /\ TypeOK /\ RequestsAreCovered /\ RequestsStand /\ RequestIds
  BY DEF BooksState, ContractInv, LedgerInv, IInv, OrderInv
<1>1. w \in Rounds
  BY <1>0 DEF TypeOK
<1>2. Requested(w, t, c) > 0
  BY <1>0 DEF RequestsAreCovered
<1>3. PICK x : x \in Of(w, t, c)
  BY <1>0, <1>1, <1>2 DEF RequestsStand
<1>4. x \in Standing /\ x.round = w /\ x.asset = t /\ x.wallet = c
  BY <1>3 DEF Of
<1>5. \A i \in Coming : x # RowOf(unprocessed[i])
  <2> SUFFICES ASSUME NEW i \in Coming, x = RowOf(unprocessed[i]) PROVE FALSE
    OBVIOUS
  <2>1. /\ i \in DOMAIN unprocessed /\ IsRequest(i)
        /\ unprocessed[i].event.asset = t /\ unprocessed[i].event.wallet = c
    BY <1>0, <1>4, ComingIn
  <2> QED
    BY <2>1 DEF RequestSeen, IsRequest
<1>6. PICK j \in LiveRows : x = withdrawals[j]
  BY <1>4, <1>5, IsStanding
<1>7. x.status # "confirmed"
  BY <1>0, <1>4 DEF RequestsStand
<1>8. /\ j \in DOMAIN withdrawals /\ x \in Withdrawal
      /\ withdrawals[j].status \in {"unchecked", "pending"}
  BY <1>0, <1>6, <1>7, LiveIn
<1>9. ASSUME NEW i \in DOMAIN withdrawals, withdrawals[i].asset = t, withdrawals[i].wallet = c,
             withdrawals[i].round = w, withdrawals[i].status \in {"unchecked", "pending"}
      PROVE  i = j
  <2>1. CASE i \in LiveRows
    <3>1. withdrawals[i] \in Standing
      BY <2>1, IsStanding
    <3>2. withdrawals[i] \in Of(w, t, c)
      BY <1>9, <3>1 DEF Of
    <3>3. withdrawals[i] = x
      BY <1>0, <1>1, <1>3, <3>2 DEF RequestsStand
    <3> QED
      BY <1>0, <1>6, <1>8, <1>9, <3>3 DEF RequestIds
  <2>2. CASE i \notin LiveRows
    <3>1. pc = "cancelled" /\ i = row
      BY <1>9, <2>2 DEF LiveRows
    <3>2. /\ WithdrawalsOf(request.asset, request.wallet, {"unchecked", "pending"}) = {row}
          /\ request = withdrawals[row]
      BY <3>1, InCancellation
    <3>3. j \in WithdrawalsOf(request.asset, request.wallet, {"unchecked", "pending"})
      BY <1>4, <1>6, <1>8, <1>9, <3>1, <3>2 DEF WithdrawalsOf
    <3> QED
      BY <3>1, <3>2, <3>3
  <2> QED
    BY <2>1, <2>2
<1> QED
  BY <1>4, <1>6, <1>8, <1>9

\* A request that is active on the chain is in the ledger exactly once, as a row that is
\* neither confirmed nor canceled, from the time its block was processed until it is paid
\* or canceled (onInitiateWithdrawal, claimWithdrawal, requestCancellation), whatever else
\* the client asks for meanwhile.
THEOREM ActiveRequestsAreTracked == OpSpec => []ActiveIsTracked
<1>1. OperatorTypeOK /\ DepositsInv /\ BooksInv => ActiveIsTracked
  <2> SUFFICES ASSUME OperatorTypeOK, DepositsInv, BooksInv, lost = 0, CancellationsAreWhole,
                      NEW t \in Tokens, NEW c \in Clients,
                      activeWithdrawalRounds[t][c] > 0, RequestSeen(t, c)
               PROVE  Cardinality({i \in DOMAIN withdrawals :
                          /\ withdrawals[i].asset = t /\ withdrawals[i].wallet = c
                          /\ withdrawals[i].round = activeWithdrawalRounds[t][c]
                          /\ withdrawals[i].status \in {"unchecked", "pending"}}) = 1
    BY DEF ActiveIsTracked
  <2>1. BooksState
    BY DEF BooksState, BooksInv, Whole
  <2>2. PICK j \in DOMAIN withdrawals :
           {i \in DOMAIN withdrawals :
               /\ withdrawals[i].asset = t /\ withdrawals[i].wallet = c
               /\ withdrawals[i].round = activeWithdrawalRounds[t][c]
               /\ withdrawals[i].status \in {"unchecked", "pending"}} = {j}
    BY <2>1, ActiveHasOneRow
  <2> QED
    BY <2>2, FS_Singleton
<1> QED
  BY <1>1, BooksInductive, PTL DEF OpSpec
=============================================================================
