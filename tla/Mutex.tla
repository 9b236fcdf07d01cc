-------------------------------- MODULE Mutex --------------------------------
(***************************************************************************)
(* src/src/common/Mutex.ts: a lock word and the event "unlocked", in one   *)
(* thread.  A caller that finds the word locked registers a listener; to   *)
(* unlock wakes all listeners, whose continuations then run one after the  *)
(* other, in that order, and try again.  Other code of the process, new    *)
(* calls of lockAsync included, may run between any two of them.           *)
(*                                                                         *)
(* A definition named Wrong... is the one after it with a mistake in it:   *)
(* TLC must find what the mistake breaks.                                  *)
(***************************************************************************)
EXTENDS Integers, Sequences, Functions

CONSTANTS
    Callers,    \* flows of control that use the lock
    MaxCalls    \* bound: how often each one takes it

ASSUME MutexAssumption == MaxCalls \in Nat

VARIABLES
    word,       \* the lock word
    listeners,  \* callers registered for the event, in order
    woken,      \* callers whose continuation is queued, in order
    state,      \* caller -> "out", "waiting" or "in"
    taken       \* caller -> how often it has called

mutexVars == <<word, listeners, woken, state, taken>>

UNLOCKED == 0
LOCKED == 1

MutexInit ==
    /\ word = UNLOCKED /\ listeners = <<>> /\ woken = <<>>
    /\ state = [c \in Callers |-> "out"]
    /\ taken = [c \in Callers |-> 0]

WrongTryLock(c) ==
    /\ word' = word + 1 /\ state' = [state EXCEPT ![c] = "in"]
    /\ UNCHANGED listeners

\* One turn of the loop of lockAsync, up to its return or its await.
TryLock(c) ==
    IF word = UNLOCKED
    THEN /\ word' = LOCKED /\ state' = [state EXCEPT ![c] = "in"]
         /\ UNCHANGED listeners
    ELSE /\ state' = [state EXCEPT ![c] = "waiting"]
         /\ listeners' = Append(listeners, c)
         /\ UNCHANGED word

lockAsync(c) ==
    /\ state[c] = "out" /\ taken[c] < MaxCalls
    /\ taken' = [taken EXCEPT ![c] = @ + 1]
    /\ TryLock(c)
    /\ UNCHANGED woken

\* The continuation of the first of the callers woken.
resume ==
    /\ woken # <<>>
    /\ woken' = Tail(woken)
    /\ TryLock(Head(woken))
    /\ UNCHANGED taken

\* compareExchange and notifyUnlocked.
unlock(c) ==
    /\ state[c] = "in" /\ word = LOCKED
    /\ word' = UNLOCKED
    /\ state' = [state EXCEPT ![c] = "out"]
    /\ woken' = woken \o listeners /\ listeners' = <<>>
    /\ UNCHANGED taken

MutexNext == resume \/ \E c \in Callers : lockAsync(c) \/ unlock(c)

MutexSpec == MutexInit /\ [][MutexNext]_mutexVars

-----------------------------------------------------------------------------
MutexTypeOK ==
    /\ word \in {UNLOCKED, LOCKED}
    /\ listeners \in Seq(Callers) /\ woken \in Seq(Callers)
    /\ state \in [Callers -> {"out", "waiting", "in"}]
    /\ taken \in [Callers -> Nat]

\* Two callers are never in at once, and the word says whether one is, although a
\* caller that finds it locked acts on that after an await.  (Mutex.ts:31)
MutualExclusion ==
    /\ \A c, d \in Callers : state[c] = "in" /\ state[d] = "in" => c = d
    /\ word = LOCKED <=> \E c \in Callers : state[c] = "in"

\* No wake-up is lost: while the lock is free nobody sits on the event, so each
\* one who waits has its continuation queued.  (Mutex.ts:37, 51)
NoLostWakeup ==
    /\ word = UNLOCKED => listeners = <<>>
    /\ \A c \in Callers : state[c] = "waiting" <=> c \in Range(listeners) \cup Range(woken)

In(place) == {c \in Callers : state[c] = place}

\* The lock word and the event keep the promise of a lock: whoever is let in is alone,
\* whoever waits does so because of another, and leaves its await for its turn only.
\* (Mutex.ts:26-52)
P == INSTANCE MutexPromise WITH inside <- In("in"), pending <- In("waiting")
ImplementsLock == P!PromiseSpec
=============================================================================
