---------------------------- MODULE MutexPromise ----------------------------
(***************************************************************************)
(* What the users of src/src/common/Mutex.ts rely on: lockAsync resolves   *)
(* for one caller at a time, a caller is kept pending only because of      *)
(* another, and the promise of a pending one resolves to its turn and to   *)
(* nothing else.  In which order the pending ones get in is not promised.  *)
(***************************************************************************)
CONSTANT Callers

VARIABLES
    pending,    \* the callers whose lockAsync has not resolved
    inside      \* those that are past it and have not called unlock

PromiseInit == inside \cup pending = {}

\* lockAsync resolves, at once or after a wait.
Resolves(c) ==
    /\ inside = {} /\ inside' = inside \cup {c}
    /\ pending' = pending \ {c}

\* lockAsync goes to its await.
IsKept(c) ==
    /\ \E d \in inside : d # c
    /\ pending' = pending \cup {c}
    /\ UNCHANGED inside

unlock(c) ==
    /\ c \in inside /\ inside' = inside \ {c}
    /\ UNCHANGED pending

PromiseNext == \E c \in Callers : Resolves(c) \/ IsKept(c) \/ unlock(c)

PromiseSpec == PromiseInit /\ [][PromiseNext]_<<pending, inside>>
=============================================================================
