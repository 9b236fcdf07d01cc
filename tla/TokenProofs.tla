----------------------------- MODULE TokenProofs -----------------------------
(***************************************************************************)
(* For any accounts, amounts and calls: no spender of a token moves more   *)
(* than it was allowed, nothing is made or lost between the accounts, the  *)
(* contract and the ledgers of the clients, and an approved deposit is not *)
(* refused for the allowance.                                              *)
(***************************************************************************)
EXTENDS Deposits, Sums, FiniteSetTheorems, TLAPS

-----------------------------------------------------------------------------
(* Allowances.  Everything is an amount, and that alone is needed beside   *)
(* the invariant to make it inductive.                                     *)

PerSpender == [Accounts -> [Accounts -> Nat]]

AllowancesTyped ==
    /\ allowances \in PerSpender
    /\ granted \in PerSpender
    /\ taken \in PerSpender

SpendingInv == AllowancesTyped /\ TakenWithinGranted

\* Nobody has been allowed anything.
LEMMA SpendingInit == TokenInit => SpendingInv
<1>1. Nobody \in PerSpender
  BY DEF Nobody, PerSpender
<1> QED
  BY <1>1 DEF TokenInit, SpendingInv, AllowancesTyped, TakenWithinGranted, Nobody

\* _approve with more of what is added than the allowance grows by.
LEMMA GrantKeeps ==
  ASSUME NEW owner \in Accounts, NEW spender \in Accounts,
         NEW allowed \in Nat, NEW more \in Nat,
         allowed <= allowances[owner][spender] + more,
         SpendingInv, Grant(owner, spender, allowed, more)
  PROVE  SpendingInv'
<1>1. AllowancesTyped'
  BY DEF Grant, SpendingInv, AllowancesTyped, PerSpender
<1>2. ASSUME NEW a \in Accounts, NEW b \in Accounts
      PROVE  taken'[a][b] + allowances'[a][b] <= granted'[a][b]
  <2>1. taken[a][b] + allowances[a][b] <= granted[a][b]
    BY DEF SpendingInv, TakenWithinGranted
  <2>2. /\ taken[a][b] \in Nat /\ allowances[a][b] \in Nat /\ granted[a][b] \in Nat
    BY DEF SpendingInv, AllowancesTyped, PerSpender
  <2>3. CASE a = owner /\ b = spender
    BY <2>1, <2>2, <2>3 DEF Grant, SpendingInv, AllowancesTyped, PerSpender
  <2>4. CASE ~(a = owner /\ b = spender)
    BY <2>1, <2>4 DEF Grant, SpendingInv, AllowancesTyped, PerSpender
  <2> QED
    BY <2>3, <2>4
<1> QED
  BY <1>1, <1>2 DEF SpendingInv, TakenWithinGranted

\* What is taken is taken off the allowance.
LEMMA SpendKeeps ==
  ASSUME NEW owner \in Accounts, NEW spender \in Accounts, NEW amount \in Nat,
         SpendingInv, Spend(owner, spender, amount), granted' = granted
  PROVE  SpendingInv'
<1>1. /\ allowances[owner][spender] \in Nat
      /\ allowances[owner][spender] - amount \in Nat
  BY DEF Spend, Fits, SpendingInv, AllowancesTyped, PerSpender
<1>2. AllowancesTyped'
  BY <1>1 DEF Spend, SpendingInv, AllowancesTyped, PerSpender
<1>3. ASSUME NEW a \in Accounts, NEW b \in Accounts
      PROVE  taken'[a][b] + allowances'[a][b] <= granted'[a][b]
  <2>1. taken[a][b] + allowances[a][b] <= granted[a][b]
    BY DEF SpendingInv, TakenWithinGranted
  <2>2. /\ taken[a][b] \in Nat /\ allowances[a][b] \in Nat /\ granted[a][b] \in Nat
    BY DEF SpendingInv, AllowancesTyped, PerSpender
  <2>3. CASE a = owner /\ b = spender
    BY <2>1, <2>2, <2>3 DEF Spend, SpendingInv, AllowancesTyped, PerSpender
  <2>4. CASE ~(a = owner /\ b = spender)
    BY <2>1, <2>4 DEF Spend, SpendingInv, AllowancesTyped, PerSpender
  <2> QED
    BY <2>3, <2>4
<1> QED
  BY <1>2, <1>3 DEF SpendingInv, TakenWithinGranted

\* A step that touches no allowance.
LEMMA OthersKeep == SpendingInv /\ UNCHANGED allowanceVars => SpendingInv'
  BY DEF SpendingInv, AllowancesTyped, TakenWithinGranted, allowanceVars

LEMMA SpendingStep == SpendingInv /\ [TokenNext]_tokenVars => SpendingInv'
<1> SUFFICES ASSUME SpendingInv, [TokenNext]_tokenVars PROVE SpendingInv'
  OBVIOUS
<1> USE TokenAssumption
<1>1. Values \subseteq Nat /\ Approvers \subseteq Accounts /\ Spenders \subseteq Accounts
  OBVIOUS
<1>2. ASSUME NEW owner \in Accounts, NEW spender \in Accounts
      PROVE  allowances[owner][spender] \in Nat
  BY DEF SpendingInv, AllowancesTyped, PerSpender
<1>3. ASSUME NEW a \in Accounts, NEW b \in Accounts, NEW amount \in Values,
             transfer(a, b, amount)
      PROVE  SpendingInv'
  BY <1>3, OthersKeep DEF transfer
<1>4. ASSUME NEW owner \in Approvers, NEW spender \in Accounts, NEW amount \in Values,
             approve(owner, spender, amount)
      PROVE  SpendingInv'
  BY <1>1, <1>2, <1>4, GrantKeeps DEF approve
<1>5. ASSUME NEW owner \in Approvers, NEW spender \in Accounts, NEW amount \in Values,
             increaseAllowance(owner, spender, amount)
      PROVE  SpendingInv'
  BY <1>1, <1>2, <1>5, GrantKeeps DEF increaseAllowance
<1>6. ASSUME NEW owner \in Approvers, NEW spender \in Accounts, NEW amount \in Values,
             decreaseAllowance(owner, spender, amount)
      PROVE  SpendingInv'
  <2> DEFINE left == allowances[owner][spender]
  <2>0. left \in Nat /\ amount \in Nat
    BY <1>1, <1>2
  <2>1. left - amount \in Nat
    BY <2>0, <1>6 DEF decreaseAllowance, Fits
  <2>2. left - amount <= left + 0
    <3> HIDE DEF left
    <3> QED BY <2>0
  <2> QED
    BY <1>1, <1>6, <2>1, <2>2, GrantKeeps DEF decreaseAllowance
<1>7. ASSUME NEW spender \in Accounts, NEW owner \in Accounts, NEW recipient \in Accounts,
             NEW amount \in Values, transferFrom(spender, owner, recipient, amount)
      PROVE  SpendingInv'
  BY <1>1, <1>7, SpendKeeps DEF transferFrom
<1>8. ASSUME NEW a \in Accounts, withdraw(a)
      PROVE  SpendingInv'
  BY <1>8, OthersKeep DEF withdraw
<1>9. ASSUME NEW a \in Accounts, NEW amount \in Values, wrap(a, amount)
      PROVE  SpendingInv'
  BY <1>9, OthersKeep DEF wrap
<1>10. CASE UNCHANGED tokenVars
  BY <1>10, OthersKeep DEF tokenVars
<1> QED
  BY <1>1, <1>3, <1>4, <1>5, <1>6, <1>7, <1>8, <1>9, <1>10 DEF TokenNext, TokenStep

\* ERC20.sol:98-102, 176-181: whatever approvals replace, raise or lower each other
\* and whoever uses them up, no spender has moved more than it was allowed.
THEOREM NobodyOverspends == TokenSpec => []TakenWithinGranted
<1>1. SpendingInv => TakenWithinGranted
  BY DEF SpendingInv
<1> QED
  BY SpendingInit, SpendingStep, <1>1, PTL DEF TokenSpec

-----------------------------------------------------------------------------
(* The supply. *)

SupplyTyped == balances \in [Accounts -> Nat] /\ totalSupply \in Nat /\ ether \in Nat

SupplyInv == SupplyTyped /\ SupplyIsOwned

\* What a change of one account does to the sum.
LEMMA OneAccount ==
  ASSUME NEW old \in [Accounts -> Nat], NEW a \in Accounts, NEW amount \in Nat
  PROVE  SumFunction([old EXCEPT ![a] = amount]) = SumFunction(old) - old[a] + amount
<1> DEFINE new == [old EXCEPT ![a] = amount]
<1>1. new \in [Accounts -> Nat] /\ new[a] = amount /\ \A x \in Accounts \ {a} : new[x] = old[x]
  OBVIOUS
<1> HIDE DEF new
<1>2. IsFiniteSet(Accounts)
  BY TokenAssumption
<1>3. (\A x \in Accounts : old[x] \in Int) /\ new[a] \in Int
  BY <1>1
<1>4. SumFunctionOnSet(new, Accounts) = SumFunctionOnSet(old, Accounts) - old[a] + new[a]
  BY <1>1, <1>2, <1>3, SumChange
<1>5. DOMAIN new = Accounts /\ DOMAIN old = Accounts
  BY <1>1
<1> QED
  BY <1>1, <1>4, <1>5 DEF SumFunction, new

LEMMA SumIsNat == ASSUME NEW f \in [Accounts -> Nat] PROVE SumFunction(f) \in Nat
<1>1. IsFiniteSet(Accounts) /\ \A x \in Accounts : f[x] \in Nat
  BY TokenAssumption
<1>2. SumFunctionOnSet(f, Accounts) \in Nat
  BY <1>1, SumNat
<1> QED
  BY <1>2 DEF SumFunction

LEMMA SupplyInit == TokenInit => SupplyInv
<1> SUFFICES ASSUME TokenInit PROVE SupplyInv
  OBVIOUS
<1> DEFINE nothing == [a \in Accounts |-> 0]
<1>1. InitialSupply \in Nat /\ Creator \in Accounts /\ IsFiniteSet(Accounts)
      /\ (Wrapped => InitialSupply = 0)
  BY TokenAssumption
<1>2. /\ nothing \in [Accounts -> Nat] /\ nothing[Creator] = 0 /\ DOMAIN nothing = Accounts
      /\ \A x \in Accounts : nothing[x] = 0
  BY <1>1
<1>3. balances = [nothing EXCEPT ![Creator] = InitialSupply] /\ balances \in [Accounts -> Nat]
  BY <1>1 DEF TokenInit
<1>4. totalSupply = InitialSupply /\ ether = 0
  BY DEF TokenInit
<1> HIDE DEF nothing
<1>5. SumFunctionOnSet(nothing, Accounts) = 0
  BY <1>1, <1>2, SumZero
<1>6. SumFunction(balances) = SumFunction(nothing) - 0 + InitialSupply
  <2>1. SumFunction([nothing EXCEPT ![Creator] = InitialSupply])
           = SumFunction(nothing) - nothing[Creator] + InitialSupply
    BY <1>1, <1>2, OneAccount
  <2> QED
    BY <1>2, <1>3, <2>1
<1> QED
  BY <1>1, <1>2, <1>3, <1>4, <1>5, <1>6 DEF SupplyInv, SupplyTyped, SupplyIsOwned, SumFunction

\* _transfer moves, also to oneself.
LEMMA MoveKeeps ==
  ASSUME SupplyInv, NEW a \in Accounts, NEW b \in Accounts, NEW amount \in Nat,
         Move(a, b, amount), UNCHANGED supplyVars
  PROVE  SupplyInv'
<1> DEFINE between == [balances EXCEPT ![a] = balances[a] - amount]
<1>1. balances \in [Accounts -> Nat] /\ balances[a] \in Nat /\ balances[a] - amount \in Nat
  BY DEF SupplyInv, SupplyTyped, Move
<1>2. between \in [Accounts -> Nat]
  BY <1>1
<1>3. balances' = [between EXCEPT ![b] = between[b] + amount]
  BY DEF Move
<1>4. SumFunction(between) = SumFunction(balances) - balances[a] + (balances[a] - amount)
  BY <1>1, OneAccount
<1> HIDE DEF between
<1>5. between[b] \in Nat /\ between[b] + amount \in Nat
  BY <1>2
<1>6. SumFunction(balances') = SumFunction(between) - between[b] + (between[b] + amount)
  BY <1>2, <1>3, <1>5, OneAccount
<1>7. SumFunction(balances) \in Nat
  BY <1>1, SumIsNat
<1>8. SumFunction(balances') = SumFunction(balances)
  BY <1>1, <1>4, <1>5, <1>6, <1>7
<1>9. balances' \in [Accounts -> Nat]
  BY <1>2, <1>3, <1>5
<1>10. totalSupply' = totalSupply /\ ether' = ether
  BY DEF supplyVars
<1> QED
  BY <1>8, <1>9, <1>10 DEF SupplyInv, SupplyTyped, SupplyIsOwned

LEMMA SupplyUnchanged == SupplyInv /\ UNCHANGED <<balances, supplyVars>> => SupplyInv'
BY DEF SupplyInv, SupplyTyped, SupplyIsOwned, supplyVars

LEMMA SupplyStep ==
  ASSUME SupplyInv, NEW caller \in Accounts, TokenStep(caller) PROVE SupplyInv'
<1>1. Values \subseteq Nat
  BY TokenAssumption
<1>2. balances \in [Accounts -> Nat] /\ totalSupply \in Nat /\ ether \in Nat
      /\ SumFunction(balances) = totalSupply /\ (Wrapped => ether = totalSupply)
  BY DEF SupplyInv, SupplyTyped, SupplyIsOwned
<1>3. ASSUME NEW b \in Accounts, NEW amount \in Values, transfer(caller, b, amount)
      PROVE  SupplyInv'
  BY <1>1, <1>3, MoveKeeps DEF transfer
<1>4. ASSUME NEW spender, NEW amount,
             \/ approve(caller, spender, amount) \/ increaseAllowance(caller, spender, amount)
             \/ decreaseAllowance(caller, spender, amount)
      PROVE  SupplyInv'
  BY <1>4, SupplyUnchanged DEF approve, increaseAllowance, decreaseAllowance, Grant
<1>5. ASSUME NEW owner \in Accounts, NEW recipient \in Accounts, NEW amount \in Values,
             transferFrom(caller, owner, recipient, amount)
      PROVE  SupplyInv'
  BY <1>1, <1>5, MoveKeeps DEF transferFrom
<1>6. ASSUME NEW amount \in Values, wrap(caller, amount) PROVE SupplyInv'
  <2>1. balances[caller] \in Nat /\ amount \in Nat /\ balances[caller] + amount \in Nat
    BY <1>1, <1>2
  <2>2. balances' = [balances EXCEPT ![caller] = balances[caller] + amount]
    BY <1>6 DEF wrap
  <2>3. SumFunction(balances') = SumFunction(balances) - balances[caller] + (balances[caller] + amount)
    BY <1>2, <2>1, <2>2, OneAccount
  <2>4. totalSupply' = totalSupply + amount /\ ether' = ether + amount /\ Wrapped
    BY <1>6 DEF wrap
  <2>5. balances' \in [Accounts -> Nat]
    BY <1>2, <2>1, <2>2
  <2> QED
    BY <1>2, <2>1, <2>3, <2>4, <2>5 DEF SupplyInv, SupplyTyped, SupplyIsOwned
<1>7. CASE withdraw(caller)
  <2>1. balances' = [balances EXCEPT ![caller] = 0] /\ Wrapped
        /\ totalSupply' = totalSupply - balances[caller] /\ ether' = ether - balances[caller]
    BY <1>7 DEF withdraw
  <2>2. SumFunction(balances') = SumFunction(balances) - balances[caller] + 0
    BY <1>2, <2>1, OneAccount
  <2>3. balances' \in [Accounts -> Nat] /\ balances[caller] \in Nat
    BY <1>2, <2>1
  <2>4. SumFunction(balances') \in Nat
    BY <2>3, SumIsNat
  <2> QED
    BY <1>2, <2>1, <2>2, <2>3, <2>4 DEF SupplyInv, SupplyTyped, SupplyIsOwned
<1> QED
  BY <1>3, <1>4, <1>5, <1>6, <1>7 DEF TokenStep

\* ERC20.sol:154-160 and ETHToken.sol: the balances add up to the supply, and the
\* supply of a wrapped token to its ether.
THEOREM SupplyIsAlwaysOwned == TokenSpec => []SupplyIsOwned
<1>1. SupplyInv /\ [TokenNext]_tokenVars => SupplyInv'
  <2>1. UNCHANGED tokenVars => UNCHANGED <<balances, supplyVars>>
    BY DEF tokenVars
  <2> QED
    BY <2>1, SupplyStep, SupplyUnchanged DEF TokenNext
<1>2. SupplyInv => SupplyIsOwned
  BY DEF SupplyInv
<1> QED
  BY <1>1, <1>2, SupplyInit, PTL DEF TokenSpec

-----------------------------------------------------------------------------
(* Deposits. *)

Places == {"idle", "asking", "approving", "depositing", "crediting", "done", "failed", "unapproved"}

CallsTyped ==
    calls \in [Calls -> [pc : Places, client : Approvers \cup {Creator}, amount : Nat,
                         approve : BOOLEAN, round : Rounds]]

BooksTyped ==
    /\ round \in Rounds
    /\ deposited \in [Rounds -> [Approvers -> Nat]] /\ credited \in [Rounds -> [Approvers -> Nat]]

\* Whoever has asked for an approval has it, when it comes to the deposit.
ApprovedInv ==
    \A k \in Calls : calls[k].pc \in {"depositing", "unapproved"} =>
        \/ ~calls[k].approve \/ k \in disturbed
        \/ calls[k].pc = "depositing" /\ calls[k].amount <= Allowance(k)

DepositsInv ==
    /\ SpendingInv /\ SupplyInv
    /\ CallsTyped /\ BooksTyped
    /\ \A k \in Calls : calls[k].pc # "idle" => calls[k].client \in Approvers
    /\ DepositsInFlight
    /\ ApprovedInv

\* Every step of a client or of others uses the token as everybody may.
LEMMA UsesToken ==
  ASSUME DepositsInv, [DepositsNext]_depositVars
  PROVE  [TokenNext]_tokenVars \/
         (\E a \in Accounts : \E amount \in Nat :
             approve(a, Mediator, amount) \/ transferFrom(Mediator, a, Mediator, amount))
<1>1. ASSUME NEW k \in Calls, DepositStep(k)
      PROVE  UNCHANGED tokenVars \/
             (\E a \in Accounts : \E amount \in Nat :
                 approve(a, Mediator, amount) \/ transferFrom(Mediator, a, Mediator, amount))
  <2>1. calls[k].client \in Accounts /\ calls[k].amount \in Nat
    BY TokenAssumption DEF DepositsInv, CallsTyped
  <2> QED
    BY <1>1, <2>1 DEF DepositStep, deposit, allowance, raise, depositsToken, depositReverts,
                      creditDeposit
<1>2. CASE Others
  BY <1>2 DEF Others, TokenNext
<1> QED
  BY <1>1, <1>2 DEF DepositsNext, depositVars

LEMMA TokenKeeps ==
  ASSUME DepositsInv, [DepositsNext]_depositVars PROVE SpendingInv' /\ SupplyInv'
<1>1. SpendingInv /\ SupplyInv /\ Mediator \in Accounts
  BY DepositsAssumption DEF DepositsInv
<1>2. ASSUME [TokenNext]_tokenVars PROVE SpendingInv' /\ SupplyInv'
  <2>1. SpendingInv'
    BY <1>1, <1>2, SpendingStep
  <2>2. UNCHANGED tokenVars => UNCHANGED <<balances, supplyVars>>
    BY DEF tokenVars
  <2> QED
    BY <1>1, <1>2, <2>1, <2>2, SupplyStep, SupplyUnchanged DEF TokenNext
<1>3. ASSUME NEW a \in Accounts, NEW amount \in Nat, approve(a, Mediator, amount)
      PROVE  SpendingInv' /\ SupplyInv'
  <2>1. allowances[a][Mediator] \in Nat
    BY <1>1 DEF SpendingInv, AllowancesTyped, PerSpender
  <2>2. SpendingInv'
    BY <1>1, <1>3, <2>1, GrantKeeps DEF approve
  <2> QED
    BY <1>1, <1>3, <2>2, SupplyUnchanged DEF approve, Grant
<1>4. ASSUME NEW a \in Accounts, NEW amount \in Nat, transferFrom(Mediator, a, Mediator, amount)
      PROVE  SpendingInv' /\ SupplyInv'
  BY <1>1, <1>4, SpendKeeps, MoveKeeps DEF transferFrom
<1> QED
  BY <1>2, <1>3, <1>4, UsesToken

\* One call moves on.
LEMMA CallMoves ==
  ASSUME CallsTyped, NEW k \in Calls, NEW place \in Places, Goto(k, place)
  PROVE  /\ CallsTyped'
         /\ \A j \in Calls \ {k} : calls'[j] = calls[j]
         /\ calls'[k].pc = place /\ calls'[k].client = calls[k].client
         /\ calls'[k].amount = calls[k].amount /\ calls'[k].approve = calls[k].approve
         /\ calls'[k].round = calls[k].round
<1> DEFINE r == [calls[k] EXCEPT !.pc = place]
<1>1. calls' = [calls EXCEPT ![k] = r]
  BY DEF Goto
<1>2. /\ r \in [pc : Places, client : Approvers \cup {Creator}, amount : Nat,
               approve : BOOLEAN, round : Rounds]
      /\ r.pc = place /\ r.client = calls[k].client /\ r.amount = calls[k].amount
      /\ r.approve = calls[k].approve /\ r.round = calls[k].round
  BY DEF CallsTyped
<1> HIDE DEF r
<1> QED
  BY <1>1, <1>2 DEF CallsTyped

\* What flies changes with a call that begins or ends to be credited.
LEMMA FlyingChange ==
  ASSUME CallsTyped, CallsTyped', NEW k \in Calls, \A j \in Calls \ {k} : calls'[j] = calls[j],
         NEW r \in Rounds, NEW c \in Approvers
  PROVE  /\ SumFunction(Flying(r, c)) \in Nat
         /\ SumFunction(Flying(r, c)') =
               SumFunction(Flying(r, c)) - Flying(r, c)[k] + Flying(r, c)'[k]
         /\ Flying(r, c)[k] \in Nat /\ Flying(r, c)'[k] \in Nat
<1> DEFINE f == Flying(r, c)
           g == Flying(r, c)'
<1>1. IsFiniteSet(Calls)
  BY DepositsAssumption
<1>2. /\ DOMAIN f = Calls /\ DOMAIN g = Calls
      /\ \A j \in Calls : f[j] \in Nat /\ f[j] \in Int /\ g[j] \in Nat /\ g[j] \in Int
      /\ \A j \in Calls \ {k} : g[j] = f[j]
  BY DEF Flying, CallsTyped, At
<1> HIDE DEF f, g
<1>3. SumFunctionOnSet(f, Calls) \in Nat
  BY <1>1, <1>2, SumNat
<1>4. SumFunctionOnSet(g, Calls) = SumFunctionOnSet(f, Calls) - f[k] + g[k]
  BY <1>1, <1>2, SumChange
<1>5. SumFunction(f) \in Nat /\ SumFunction(g) = SumFunction(f) - f[k] + g[k]
      /\ f[k] \in Nat /\ g[k] \in Nat
  BY <1>2, <1>3, <1>4 DEF SumFunction
<1> QED
  BY <1>5 DEF f, g

\* A call that is not credited before and after a step leaves everything in flight.
LEMMA FlyingKeeps ==
  ASSUME CallsTyped, CallsTyped', DepositsInFlight, BooksTyped, UNCHANGED <<deposited, credited>>,
         NEW k \in Calls, \A j \in Calls \ {k} : calls'[j] = calls[j],
         calls[k].pc # "crediting", calls'[k].pc # "crediting"
  PROVE  DepositsInFlight'
<1>1. ASSUME NEW r \in Rounds, NEW c \in Approvers
      PROVE  SumFunction(Flying(r, c)') = SumFunction(Flying(r, c))
  <2>1. Flying(r, c)[k] = 0 /\ Flying(r, c)'[k] = 0
    BY DEF Flying, At
  <2> QED
    BY <2>1, FlyingChange
<1> QED
  BY <1>1 DEF DepositsInFlight

\* Whoever's allowance changes under its deposit is disturbed.
LEMMA ApprovedOther ==
  ASSUME DepositsInv, NEW S \in SUBSET Calls, NEW j \in S, calls'[j] = calls[j],
         ChangedFor(S) \subseteq disturbed', j \in disturbed => j \in disturbed',
         calls'[j].pc \in {"depositing", "unapproved"}
  PROVE  \/ ~calls'[j].approve \/ j \in disturbed'
         \/ calls'[j].pc = "depositing" /\ calls'[j].amount <= Allowance(j)'
<1>1. \/ ~calls[j].approve \/ j \in disturbed
      \/ calls[j].pc = "depositing" /\ calls[j].amount <= Allowance(j)
  BY DEF DepositsInv, ApprovedInv
<1>2. CASE calls[j].pc = "depositing" /\ calls[j].amount <= Allowance(j) /\ j \notin disturbed'
  <2>1. ~Ended(j)
    BY <1>2 DEF Ended
  <2>2. allowances'[calls[j].client][Mediator] = Allowance(j)
    BY <1>2, <2>1 DEF ChangedFor
  <2> QED
    BY <1>2, <2>2 DEF Allowance
<1> QED
  BY <1>1, <1>2

\* The step of a call, seen from the call itself.
LEMMA OwnStep ==
  ASSUME DepositsInv, NEW k \in Calls, DepositStep(k),
         disturbed' = (IF Ended(k) THEN disturbed \ {k} ELSE disturbed)
                         \cup ChangedFor(Calls \ {k})
  PROVE  /\ CallsTyped' /\ BooksTyped' /\ DepositsInFlight'
         /\ \A j \in Calls \ {k} : calls'[j] = calls[j]
         /\ calls'[k].pc # "idle" => calls'[k].client \in Approvers
         /\ calls'[k].pc \in {"depositing", "unapproved"} =>
               \/ ~calls'[k].approve \/ k \in disturbed'
               \/ calls'[k].pc = "depositing" /\ calls'[k].amount <= Allowance(k)'
<1>1. /\ CallsTyped /\ BooksTyped /\ DepositsInFlight /\ ApprovedInv
      /\ calls[k].pc # "idle" => calls[k].client \in Approvers
      /\ {"approving", "depositing", "crediting", "done", "failed", "unapproved"} \subseteq Places
  BY DEF DepositsInv, Places
<1>2. \A amount \in Values : amount \in Nat
  BY TokenAssumption
<1>3. CASE deposit(k)
  <2>1. PICK client \in Approvers, amount \in Values \ {0}, approve_ \in BOOLEAN :
           calls' = [calls EXCEPT ![k] = [pc |-> IF approve_ THEN "asking" ELSE "depositing",
                                          client |-> client, amount |-> amount,
                                          approve |-> approve_, round |-> 0]]
    BY <1>3 DEF deposit
  <2> DEFINE r == [pc |-> IF approve_ THEN "asking" ELSE "depositing", client |-> client,
                   amount |-> amount, approve |-> approve_, round |-> 0]
  <2>2. /\ r \in [pc : Places, client : Approvers \cup {Creator}, amount : Nat,
                 approve : BOOLEAN, round : Rounds]
        /\ r.pc \in {"asking", "depositing"} /\ r.client \in Approvers
        /\ r.pc = "depositing" => ~r.approve
    BY <1>2, DepositsAssumption DEF Places, Rounds
  <2>3. calls' = [calls EXCEPT ![k] = r]
    BY <2>1
  <2> HIDE DEF r
  <2>4. CallsTyped' /\ calls'[k] = r /\ \A j \in Calls \ {k} : calls'[j] = calls[j]
    BY <1>1, <2>2, <2>3 DEF CallsTyped
  <2>5. /\ UNCHANGED <<round, halted, deposited, credited>> /\ calls[k].pc # "crediting"
    BY <1>3 DEF deposit, contractVars, Ended
  <2>6. DepositsInFlight'
    BY <1>1, <2>2, <2>4, <2>5, FlyingKeeps
  <2> QED
    BY <1>1, <2>2, <2>4, <2>5, <2>6 DEF BooksTyped
<1>4. ASSUME NEW place \in Places, Goto(k, place), UNCHANGED <<contractVars, credited>>,
             calls[k].pc \notin {"idle", "crediting"}, place # "crediting",
             place \in {"depositing", "unapproved"} =>
               \/ ~calls[k].approve \/ k \in disturbed'
               \/ place = "depositing" /\ calls[k].amount <= Allowance(k)'
      PROVE  /\ CallsTyped' /\ BooksTyped' /\ DepositsInFlight'
             /\ \A j \in Calls \ {k} : calls'[j] = calls[j]
             /\ calls'[k].pc # "idle" => calls'[k].client \in Approvers
             /\ calls'[k].pc \in {"depositing", "unapproved"} =>
                   \/ ~calls'[k].approve \/ k \in disturbed'
                   \/ calls'[k].pc = "depositing" /\ calls'[k].amount <= Allowance(k)'
  <2>1. /\ CallsTyped' /\ calls'[k].pc = place /\ calls'[k].client = calls[k].client
        /\ calls'[k].amount = calls[k].amount /\ calls'[k].approve = calls[k].approve
        /\ \A j \in Calls \ {k} : calls'[j] = calls[j]
    BY <1>1, <1>4, CallMoves
  <2>2. round' = round /\ deposited' = deposited /\ credited' = credited
    BY <1>4 DEF contractVars
  <2>3. DepositsInFlight'
    BY <1>1, <1>4, <2>1, <2>2, FlyingKeeps
  <2>4. BooksTyped'
    BY <1>1, <2>2 DEF BooksTyped
  <2> QED
    BY <1>1, <1>4, <2>1, <2>3, <2>4
<1>6. /\ calls[k].client \in Accounts /\ calls[k].amount \in Nat /\ Mediator \in Accounts
      /\ Allowance(k) \in Nat
      /\ allowances \in PerSpender
  <2>1. calls[k].client \in Accounts /\ calls[k].amount \in Nat /\ Mediator \in Accounts
    BY <1>1, TokenAssumption, DepositsAssumption DEF CallsTyped
  <2> QED
    BY <2>1 DEF DepositsInv, SpendingInv, AllowancesTyped, PerSpender, Allowance
<1>7. CASE allowance(k)
  <2> DEFINE place == IF Allowance(k) < calls[k].amount THEN "approving" ELSE "depositing"
  <2>1. /\ calls[k].pc = "asking" /\ Goto(k, place) /\ UNCHANGED <<tokenVars, contractVars, credited>>
    BY <1>7 DEF allowance, At
  <2>2. place \in {"approving", "depositing"}
        /\ (place = "depositing" => calls[k].amount <= Allowance(k))
    BY <1>6
  <2> HIDE DEF place
  <2>3. Allowance(k)' = Allowance(k)
    <3>1. calls'[k].client = calls[k].client
      BY <1>1, <2>1, <2>2, CallMoves
    <3> QED
      BY <2>1, <3>1 DEF Allowance, tokenVars, allowanceVars
  <2> QED
    BY <1>1, <1>4, <2>1, <2>2, <2>3
<1>8. CASE raise(k)
  <2>1. /\ calls[k].pc = "approving" /\ Goto(k, "depositing") /\ UNCHANGED <<contractVars, credited>>
        /\ approve(calls[k].client, Mediator, calls[k].amount)
    BY <1>8 DEF raise, At
  <2>2. calls'[k].client = calls[k].client
    BY <1>1, <2>1, CallMoves
  <2>3. allowances' = [allowances EXCEPT ![calls[k].client][Mediator] = calls[k].amount]
    BY <2>1 DEF approve, Grant
  <2>4. allowances'[calls[k].client][Mediator] = calls[k].amount
    BY <1>6, <2>3 DEF PerSpender
  <2>5. calls[k].amount <= Allowance(k)'
    BY <1>6, <2>2, <2>4 DEF Allowance
  <2> QED
    BY <1>1, <1>4, <2>1, <2>5
<1>9. CASE depositReverts(k)
  <2> DEFINE place == IF ~halted /\ balances[calls[k].client] >= calls[k].amount
                      THEN "unapproved" ELSE "failed"
  <2>1. /\ calls[k].pc = "depositing" /\ Goto(k, place)
        /\ UNCHANGED <<tokenVars, contractVars, credited>>
        /\ halted \/ balances[calls[k].client] < calls[k].amount \/ Allowance(k) < calls[k].amount
    BY <1>9 DEF depositReverts, At
  <2>2. place \in {"unapproved", "failed"}
        /\ (place = "unapproved" => Allowance(k) < calls[k].amount)
    <3>1. balances[calls[k].client] \in Nat
      BY <1>6 DEF DepositsInv, SupplyInv, SupplyTyped
    <3> QED
      BY <1>6, <2>1, <3>1
  <2> HIDE DEF place
  <2>3. ~Ended(k) /\ (k \in disturbed => k \in disturbed')
    BY <2>1 DEF Ended
  <2>4. place = "unapproved" => ~calls[k].approve \/ k \in disturbed'
    BY <1>1, <1>6, <2>1, <2>2, <2>3 DEF ApprovedInv
  <2> QED
    BY <1>1, <1>4, <2>1, <2>2, <2>4
<1>10. CASE depositsToken(k)
  <2> DEFINE r == [calls[k] EXCEPT !.pc = "crediting", !.round = round]
             n == calls[k].amount
             c == calls[k].client
  <2>1. /\ calls[k].pc = "depositing" /\ calls' = [calls EXCEPT ![k] = r]
        /\ deposited' = [deposited EXCEPT ![round][c] = @ + n]
        /\ UNCHANGED <<round, credited>>
    BY <1>1, <1>10 DEF depositsToken, At, CallsTyped
  <2>2. /\ r \in [pc : Places, client : Approvers \cup {Creator}, amount : Nat,
                 approve : BOOLEAN, round : Rounds]
        /\ r.pc = "crediting" /\ r.client = c /\ r.amount = n /\ r.round = round
    BY <1>1 DEF CallsTyped, BooksTyped
  <2> HIDE DEF r
  <2>3. CallsTyped' /\ calls'[k] = r /\ \A j \in Calls \ {k} : calls'[j] = calls[j]
    BY <1>1, <2>1, <2>2 DEF CallsTyped
  <2>4. c \in Approvers /\ n \in Nat /\ round \in Rounds
    BY <1>1, <1>6, <2>1 DEF BooksTyped
  <2> HIDE DEF c, n
  <2>5. BooksTyped'
    BY <1>1, <2>1, <2>4 DEF BooksTyped
  <2>6. ASSUME NEW x \in Rounds, NEW y \in Approvers
        PROVE  deposited'[x][y] = credited'[x][y] + SumFunction(Flying(x, y)')
    <3>1. /\ Flying(x, y)[k] = 0
          /\ Flying(x, y)'[k] = IF x = round /\ y = c THEN n ELSE 0
      BY <2>1, <2>2, <2>3 DEF Flying, At
    <3>2. /\ SumFunction(Flying(x, y)) \in Nat
          /\ SumFunction(Flying(x, y)') =
                SumFunction(Flying(x, y)) - Flying(x, y)[k] + Flying(x, y)'[k]
      BY <1>1, <2>3, FlyingChange
    <3>3. deposited[x][y] = credited[x][y] + SumFunction(Flying(x, y))
      BY <1>1 DEF DepositsInFlight
    <3>4. deposited'[x][y] = deposited[x][y] + (IF x = round /\ y = c THEN n ELSE 0)
          /\ deposited[x][y] \in Nat /\ credited[x][y] \in Nat
      BY <1>1, <2>1, <2>4 DEF BooksTyped
    <3> QED
      BY <2>1, <2>4, <3>1, <3>2, <3>3, <3>4
  <2>7. DepositsInFlight'
    BY <2>6 DEF DepositsInFlight
  <2> QED
    BY <2>2, <2>3, <2>4, <2>5, <2>7
<1>11. CASE creditDeposit(k)
  <2> DEFINE n == calls[k].amount
             c == calls[k].client
             d == calls[k].round
  <2>1. /\ calls[k].pc = "crediting" /\ Goto(k, "done")
        /\ credited' = [credited EXCEPT ![d][c] = @ + n]
        /\ UNCHANGED <<round, deposited>>
    BY <1>11 DEF creditDeposit, At, contractVars
  <2>2. /\ CallsTyped' /\ calls'[k].pc = "done" /\ calls'[k].client = c
        /\ \A j \in Calls \ {k} : calls'[j] = calls[j]
    BY <1>1, <2>1, CallMoves
  <2>3. c \in Approvers /\ n \in Nat /\ d \in Rounds
    BY <1>1, <1>6, <2>1 DEF CallsTyped
  <2>4. \A x \in Rounds, y \in Approvers :
           Flying(x, y)[k] = IF x = d /\ y = c THEN n ELSE 0
    BY <2>1 DEF Flying, At
  <2> HIDE DEF c, n, d
  <2>5. BooksTyped'
    BY <1>1, <2>1, <2>3 DEF BooksTyped
  <2>6. ASSUME NEW x \in Rounds, NEW y \in Approvers
        PROVE  deposited'[x][y] = credited'[x][y] + SumFunction(Flying(x, y)')
    <3>1. Flying(x, y)'[k] = 0
      BY <2>2 DEF Flying, At
    <3>2. /\ SumFunction(Flying(x, y)) \in Nat
          /\ SumFunction(Flying(x, y)') =
                SumFunction(Flying(x, y)) - Flying(x, y)[k] + Flying(x, y)'[k]
      BY <1>1, <2>2, FlyingChange
    <3>3. deposited[x][y] = credited[x][y] + SumFunction(Flying(x, y))
      BY <1>1 DEF DepositsInFlight
    <3>4. credited'[x][y] = credited[x][y] + (IF x = d /\ y = c THEN n ELSE 0)
          /\ deposited[x][y] \in Nat /\ credited[x][y] \in Nat
      BY <1>1, <2>1, <2>3 DEF BooksTyped
    <3> QED
      BY <2>1, <2>3, <2>4, <3>1, <3>2, <3>3, <3>4
  <2>7. DepositsInFlight'
    BY <2>6 DEF DepositsInFlight
  <2> QED
    BY <2>2, <2>3, <2>5, <2>7
<1> QED
  BY <1>3, <1>7, <1>8, <1>9, <1>10, <1>11 DEF DepositStep

LEMMA DepositsStep == DepositsInv /\ [DepositsNext]_depositVars => DepositsInv'
<1> SUFFICES ASSUME DepositsInv, [DepositsNext]_depositVars PROVE DepositsInv'
  OBVIOUS
<1>1. SpendingInv' /\ SupplyInv'
  BY TokenKeeps
<1>2. ASSUME NEW k \in Calls, DepositStep(k),
             disturbed' = (IF Ended(k) THEN disturbed \ {k} ELSE disturbed)
                             \cup ChangedFor(Calls \ {k})
      PROVE  DepositsInv'
  <2>1. /\ CallsTyped' /\ BooksTyped' /\ DepositsInFlight'
        /\ \A j \in Calls \ {k} : calls'[j] = calls[j]
        /\ calls'[k].pc # "idle" => calls'[k].client \in Approvers
        /\ calls'[k].pc \in {"depositing", "unapproved"} =>
              \/ ~calls'[k].approve \/ k \in disturbed'
              \/ calls'[k].pc = "depositing" /\ calls'[k].amount <= Allowance(k)'
    BY <1>2, OwnStep
  <2>2. \A j \in Calls : calls'[j].pc # "idle" => calls'[j].client \in Approvers
    BY <2>1 DEF DepositsInv
  <2>3. ASSUME NEW j \in Calls \ {k}, calls'[j].pc \in {"depositing", "unapproved"}
        PROVE  \/ ~calls'[j].approve \/ j \in disturbed'
               \/ calls'[j].pc = "depositing" /\ calls'[j].amount <= Allowance(j)'
    <3>1. /\ Calls \ {k} \in SUBSET Calls /\ j \in Calls \ {k} /\ calls'[j] = calls[j]
          /\ ChangedFor(Calls \ {k}) \subseteq disturbed' /\ (j \in disturbed => j \in disturbed')
      BY <1>2, <2>1, <2>3
    <3> QED
      BY <2>3, <3>1, ApprovedOther
  <2>4. ApprovedInv'
    BY <2>1, <2>3 DEF ApprovedInv
  <2> QED
    BY <1>1, <2>1, <2>2, <2>4 DEF DepositsInv
<1>3. CASE Others /\ disturbed' = disturbed \cup ChangedFor(Calls)
  <2>1. /\ calls' = calls /\ deposited' = deposited /\ credited' = credited
        /\ round' = round \/ (round < MaxRound /\ round' = round + 1)
    BY <1>3 DEF Others
  <2>2. BooksTyped'
    BY <2>1, DepositsAssumption DEF DepositsInv, BooksTyped, Rounds
  <2>3. CallsTyped' /\ DepositsInFlight'
    BY <2>1 DEF DepositsInv, CallsTyped, DepositsInFlight, Flying, At
  <2>4. ASSUME NEW j \in Calls, calls'[j].pc \in {"depositing", "unapproved"}
        PROVE  \/ ~calls'[j].approve \/ j \in disturbed'
               \/ calls'[j].pc = "depositing" /\ calls'[j].amount <= Allowance(j)'
    <3>1. /\ Calls \in SUBSET Calls /\ calls'[j] = calls[j]
          /\ ChangedFor(Calls) \subseteq disturbed' /\ (j \in disturbed => j \in disturbed')
      BY <1>3, <2>1
    <3> QED
      BY <2>4, <3>1, ApprovedOther
  <2>5. ApprovedInv'
    BY <2>4 DEF ApprovedInv
  <2> QED
    BY <1>1, <2>1, <2>2, <2>3, <2>5 DEF DepositsInv
<1>4. CASE UNCHANGED depositVars
  <2>1. /\ calls' = calls /\ deposited' = deposited /\ credited' = credited /\ round' = round
        /\ disturbed' = disturbed /\ allowances' = allowances
    BY <1>4 DEF depositVars, tokenVars, allowanceVars
  <2>2. ApprovedInv' /\ CallsTyped' /\ BooksTyped' /\ DepositsInFlight'
    BY <2>1 DEF DepositsInv, ApprovedInv, Allowance, CallsTyped, BooksTyped, DepositsInFlight,
                Flying, At
  <2> QED
    BY <1>1, <2>1, <2>2 DEF DepositsInv
<1> QED
  BY <1>2, <1>3, <1>4 DEF DepositsNext

LEMMA DepositsAtStart == DepositsInit => DepositsInv
<1> SUFFICES ASSUME DepositsInit PROVE DepositsInv
  OBVIOUS
<1>1. SpendingInv /\ SupplyInv
  BY SpendingInit, SupplyInit DEF DepositsInit
<1>2. 0 \in Rounds /\ IsFiniteSet(Calls)
  BY DepositsAssumption DEF Rounds
<1>3. /\ round = 0 /\ deposited = [r \in Rounds |-> [c \in Approvers |-> 0]] /\ credited = deposited
      /\ \A k \in Calls : calls[k].pc = "idle"
  BY DEF DepositsInit, NoCall
<1>4. CallsTyped
  BY <1>2 DEF DepositsInit, NoCall, CallsTyped, Places
<1>5. BooksTyped
  BY <1>2, <1>3 DEF BooksTyped
<1>6. ASSUME NEW r \in Rounds, NEW c \in Approvers
      PROVE  deposited[r][c] = credited[r][c] + SumFunction(Flying(r, c))
  <2> DEFINE f == Flying(r, c)
  <2>1. DOMAIN f = Calls /\ \A k \in Calls : f[k] = 0
    BY <1>3 DEF Flying, At
  <2> HIDE DEF f
  <2>2. SumFunctionOnSet(f, Calls) = 0
    BY <1>2, <2>1, SumZero
  <2>3. SumFunction(f) = 0
    BY <2>1, <2>2 DEF SumFunction
  <2> QED
    BY <1>3, <2>3 DEF f
<1>7. ApprovedInv
  BY <1>3 DEF ApprovedInv
<1> QED
  BY <1>1, <1>3, <1>4, <1>5, <1>6, <1>7 DEF DepositsInv, DepositsInFlight

LEMMA DepositsInvariant == DepositsSpec => []DepositsInv
BY DepositsAtStart, DepositsStep, PTL DEF DepositsSpec

\* However deposits overlap with each other, with the clock, with the halt and with
\* other uses of the token: what the contract has booked and the ledgers have not is
\* on its way there, in the round of the contract.
THEOREM NothingIsMadeOrLost == DepositsSpec => []NothingMadeOrLost
<1>1. DepositsInv => NothingMadeOrLost
  BY DEF DepositsInv, SupplyInv, NothingMadeOrLost
<1> QED
  BY <1>1, DepositsInvariant, PTL

\* A deposit that asks for an approval is not refused for the allowance, whatever was
\* allowed before, unless somebody else changes it meanwhile.
THEOREM ApprovedIsAlwaysDeposited == DepositsSpec => []ApprovedIsDeposited
<1>1. DepositsInv => ApprovedIsDeposited
  BY DEF DepositsInv, ApprovedInv, ApprovedIsDeposited, At
<1> QED
  BY <1>1, DepositsInvariant, PTL

\* ... and the contract takes no more from a client than it was allowed.
THEOREM DepositsAreAllowed == DepositsSpec => []TakenWithinGranted
<1>1. DepositsInv => TakenWithinGranted
  BY DEF DepositsInv, SpendingInv
<1> QED
  BY <1>1, DepositsInvariant, PTL
=============================================================================
