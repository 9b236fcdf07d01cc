-------------------------------- MODULE Token --------------------------------
(***************************************************************************)
(* A token of the exchange: ERC20.sol, with the supply of OAXToken.sol or, *)
(* when it is Wrapped, of ETHToken.sol, which gives a token for an ether   *)
(* and back.  Every action is one call; one that reverts is not enabled.   *)
(*                                                                         *)
(* granted and taken remember what each spender was ever allowed and has   *)
(* ever moved; no call reads them.                                         *)
(*                                                                         *)
(* A definition named Wrong... is the one after it with a mistake in it:   *)
(* TLC must find what the mistake breaks.                                  *)
(***************************************************************************)
EXTENDS Integers, FiniteSets, Functions

CONSTANTS
    Accounts,
    Creator,        \* who deploys the token
    InitialSupply,
    Wrapped,
    MaxUint,        \* the largest uint256
    Values,         \* the amounts that calls are made with
    Approvers,      \* bound: the accounts that approve others
    Spenders,       \* bound: the accounts that are approved
    MaxGranted      \* bound: what each of these is ever allowed, of one owner

ASSUME TokenAssumption ==
    /\ IsFiniteSet(Accounts)   \* an address has 20 bytes
    /\ Creator \in Accounts /\ Approvers \subseteq Accounts /\ Spenders \subseteq Accounts
    /\ Wrapped \in BOOLEAN /\ (Wrapped => InitialSupply = 0)
    /\ MaxUint \in Nat /\ InitialSupply \in 0 .. MaxUint /\ Values \subseteq 0 .. MaxUint
    /\ MaxGranted \in [Spenders -> Nat]

VARIABLES
    balances, allowances, totalSupply,
    ether,          \* what the contract has
    granted, taken

allowanceVars == <<allowances, granted, taken>>
supplyVars == <<totalSupply, ether>>
tokenVars == <<balances, supplyVars, allowanceVars>>

Nobody == [owner \in Accounts |-> [spender \in Accounts |-> 0]]

TokenInit ==
    /\ balances = [a \in Accounts |-> IF a = Creator THEN InitialSupply ELSE 0]
    /\ totalSupply = InitialSupply /\ ether = 0
    /\ allowances = Nobody /\ granted = Nobody /\ taken = Nobody

\* SafeMath reverts what does not fit.
Fits(n) == 0 <= n /\ n <= MaxUint

\* _transfer: the balance of the recipient is read after that of the sender is
\* written, and the two may be one.
Move(sender, recipient, amount) ==
    LET debited == [balances EXCEPT ![sender] = @ - amount]
    IN /\ balances[sender] >= amount
       /\ balances' = [debited EXCEPT ![recipient] = @ + amount]
       /\ Fits(balances'[recipient])

transfer(sender, recipient, amount) ==
    /\ Move(sender, recipient, amount)
    /\ UNCHANGED <<supplyVars, allowanceVars>>

Grant(owner, spender, allowed, more) ==
    /\ granted[owner][spender] + more <= MaxGranted[spender]
    /\ allowances' = [allowances EXCEPT ![owner][spender] = allowed]
    /\ granted' = [granted EXCEPT ![owner][spender] = @ + more]
    /\ UNCHANGED <<balances, supplyVars, taken>>

\* Replaces what was allowed before.
approve(owner, spender, value) == Grant(owner, spender, value, value)

increaseAllowance(owner, spender, added) ==
    /\ Fits(allowances[owner][spender] + added)
    /\ Grant(owner, spender, allowances[owner][spender] + added, added)

decreaseAllowance(owner, spender, subtracted) ==
    /\ Fits(allowances[owner][spender] - subtracted)
    /\ Grant(owner, spender, allowances[owner][spender] - subtracted, 0)

WrongSpend(owner, spender, amount) ==
    /\ Fits(allowances[owner][spender] - amount)
    /\ taken' = [taken EXCEPT ![owner][spender] = @ + amount]
    /\ UNCHANGED allowances

Spend(owner, spender, amount) ==
    /\ Fits(allowances[owner][spender] - amount)
    /\ allowances' = [allowances EXCEPT ![owner][spender] = @ - amount]
    /\ taken' = [taken EXCEPT ![owner][spender] = @ + amount]

transferFrom(spender, owner, recipient, amount) ==
    /\ Move(owner, recipient, amount)
    /\ Spend(owner, spender, amount)
    /\ UNCHANGED <<supplyVars, granted>>

\* The fallback of ETHToken: ether in, tokens out.
wrap(sender, amount) ==
    /\ Wrapped /\ Fits(totalSupply + amount) /\ Fits(balances[sender] + amount)
    /\ totalSupply' = totalSupply + amount /\ ether' = ether + amount
    /\ balances' = [balances EXCEPT ![sender] = @ + amount]
    /\ UNCHANGED allowanceVars

\* All that the sender has.
withdraw(sender) ==
    /\ Wrapped /\ balances[sender] <= ether
    /\ balances' = [balances EXCEPT ![sender] = 0]
    /\ totalSupply' = totalSupply - balances[sender]
    /\ ether' = ether - balances[sender]
    /\ UNCHANGED allowanceVars

\* What an account may do.
TokenStep(caller) ==
    \/ \E recipient \in Accounts, amount \in Values : transfer(caller, recipient, amount)
    \/ /\ caller \in Approvers
       /\ \E spender \in Spenders, amount \in Values :
             \/ approve(caller, spender, amount)
             \/ increaseAllowance(caller, spender, amount)
             \/ decreaseAllowance(caller, spender, amount)
    \/ \E owner, recipient \in Accounts, amount \in Values :
          transferFrom(caller, owner, recipient, amount)
    \/ \E amount \in Values : wrap(caller, amount)
    \/ withdraw(caller)

TokenNext == \E caller \in Accounts : TokenStep(caller)

TokenSpec == TokenInit /\ [][TokenNext]_tokenVars

(***************************************************************************)
(* Properties.                                                             *)
(***************************************************************************)
\* ERC20.sol:154-160 and ETHToken.sol: nothing is made or lost, whoever sends to
\* whom, also to oneself; and a wrapped token can be given back.  Ether comes only by
\* deposit here; what reaches the contract in no call of it would be more than the supply.
SupplyIsOwned ==
    /\ SumFunction(balances) = totalSupply
    /\ Wrapped => ether = totalSupply

\* ERC20.sol:98-102, 176-181: what a spender has moved and may still move is never
\* more than what it was allowed, in whatever order approvals replace, raise and
\* lower each other and are used up.
TakenWithinGranted ==
    \A owner, spender \in Accounts :
        taken[owner][spender] + allowances[owner][spender] <= granted[owner][spender]
=============================================================================
