-------------------------------- MODULE Vault --------------------------------
(***************************************************************************)
(* What the Mediator promises to the people who hand it tokens: a pool per *)
(* token, what each client is owed out of it, and a switch that freezes    *)
(* the claims.  It knows nothing of rounds, roots, requests or disputes.   *)
(* Who moves the claims between the clients may credit more than there is: *)
(* the vault cannot tell.  It promises that they can all be paid only of   *)
(* the tokens that are sound.                                              *)
(***************************************************************************)
EXTENDS Integers, Functions

CONSTANTS Clients, Tokens

VARIABLES
    pool,    \* pool[t]: tokens t in the vault
    owed,    \* owed[t][c]: what client c can take out of it
    sound,   \* sound[t]: no more of t was credited than there was
    frozen

vaultVars == <<pool, owed, sound, frozen>>

\* Every claim can be paid, whoever asks first.
Covered(p, o, s) == \A t \in Tokens : s[t] => SumFunction(o[t]) <= p[t]

VaultInit ==
    /\ pool = [t \in Tokens |-> 0]
    /\ owed = [t \in Tokens |-> [c \in Clients |-> 0]]
    /\ sound = [t \in Tokens |-> TRUE]
    /\ frozen = FALSE

\* c brings tokens and is owed as many more.
Deposit(c, t) ==
    LET amount == pool'[t] - pool[t]
    IN /\ ~frozen /\ ~frozen'
       /\ amount > 0
       /\ pool' = [pool EXCEPT ![t] = @ + amount]
       /\ owed' = [owed EXCEPT ![t][c] = @ + amount]
       /\ UNCHANGED sound

\* c is paid out of its own claim and of nobody else's.  The last payment after
\* the freeze may be less than the claim: c gave up the rest.
Pay(c, t) ==
    LET amount == pool[t] - pool'[t]
        rest == owed'[t][c]
    IN /\ frozen => frozen'
       /\ amount >= 0
       /\ pool' = [pool EXCEPT ![t] = @ - amount]
       /\ owed' = [owed EXCEPT ![t][c] = rest]
       /\ 0 <= rest /\ rest <= owed[t][c] - amount
       /\ frozen' \/ rest = owed[t][c] - amount
       /\ UNCHANGED sound

\* Trading moves claims between clients while the vault is not frozen.
Reallocate ==
    /\ ~frozen /\ ~frozen'
    /\ pool' = pool
    /\ owed' \in [Tokens -> [Clients -> Nat]]
    /\ sound' \in [Tokens -> BOOLEAN]
    /\ Covered(pool', owed', sound')

Freeze ==
    /\ ~frozen /\ frozen'
    /\ UNCHANGED <<pool, owed, sound>>

VaultNext ==
    \/ Reallocate
    \/ Freeze
    \/ \E c \in Clients, t \in Tokens : Deposit(c, t) \/ Pay(c, t)

VaultSpec == VaultInit /\ [][VaultNext]_vaultVars
==============================================================================
