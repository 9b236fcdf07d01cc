------------------------- MODULE TxSubmissionProofs -------------------------
(***************************************************************************)
(* For any number of callers and of calls: the lock of Mutex.ts excludes,  *)
(* loses no wake-up and keeps MutexPromise.  For any number of             *)
(* tokens, runs, repetitions and faults: what the calls and the operator   *)
(* report is true, and the nonces are their own.                           *)
(***************************************************************************)
EXTENDS TxSubmissionProperties, FiniteSetTheorems, TLAPS

-----------------------------------------------------------------------------
(* The mutex. *)

Distinct(seq) == \A i, j \in DOMAIN seq : seq[i] = seq[j] => i = j

\* What keeps the two properties: a caller is registered or queued at most once.
MutexInv ==
    /\ MutexTypeOK
    /\ MutualExclusion
    /\ NoLostWakeup
    /\ Distinct(listeners) /\ Distinct(woken)
    /\ Range(listeners) \cap Range(woken) = {}
-----------------------------------------------------------------------------
\* What registering a caller does to the listeners.
LEMMA AppendFacts ==
    ASSUME NEW S, NEW seq \in Seq(S), NEW e \in S
    PROVE  /\ Append(seq, e) \in Seq(S)
           /\ Range(Append(seq, e)) = Range(seq) \cup {e}
           /\ Distinct(seq) /\ e \notin Range(seq) => Distinct(Append(seq, e))
<1>1. Append(seq, e) \in Seq(S)
  OBVIOUS
<1>2. /\ DOMAIN seq = 1 .. Len(seq) /\ Len(seq) \in Nat
      /\ DOMAIN Append(seq, e) = 1 .. Len(seq) + 1
      /\ Append(seq, e)[Len(seq) + 1] = e
      /\ \A i \in 1 .. Len(seq) : Append(seq, e)[i] = seq[i]
  OBVIOUS
<1>3. Range(Append(seq, e)) = Range(seq) \cup {e}
  BY <1>2 DEF Range
<1>4. Distinct(seq) /\ e \notin Range(seq) => Distinct(Append(seq, e))
  BY <1>2 DEF Range, Distinct
<1> QED
  BY <1>1, <1>3, <1>4

\* What taking the first continuation does to the queue.
LEMMA TailFacts ==
    ASSUME NEW S, NEW seq \in Seq(S), seq # <<>>
    PROVE  /\ Head(seq) \in S /\ Tail(seq) \in Seq(S)
           /\ Range(seq) = {Head(seq)} \cup Range(Tail(seq))
           /\ Distinct(seq) => Distinct(Tail(seq)) /\ Head(seq) \notin Range(Tail(seq))
<1>1. Head(seq) \in S /\ Tail(seq) \in Seq(S)
  OBVIOUS
<1>2. /\ Len(seq) \in Nat \ {0} /\ DOMAIN seq = 1 .. Len(seq)
      /\ DOMAIN Tail(seq) = 1 .. Len(seq) - 1
      /\ Head(seq) = seq[1]
      /\ \A i \in 1 .. Len(seq) - 1 : Tail(seq)[i] = seq[i + 1]
  OBVIOUS
<1>3. \A i \in 1 .. Len(seq) : i = 1 \/ i - 1 \in 1 .. Len(seq) - 1
  BY <1>2
<1>4. Range(seq) = {Head(seq)} \cup Range(Tail(seq))
  <2>1. ASSUME NEW i \in 1 .. Len(seq)
        PROVE  seq[i] \in {Head(seq)} \cup Range(Tail(seq))
    <3>1. CASE i = 1
      BY <1>2, <3>1
    <3>2. CASE i # 1
      <4>1. i - 1 \in DOMAIN Tail(seq) /\ Tail(seq)[i - 1] = seq[i]
        BY <1>2, <3>2
      <4> QED
        BY <4>1 DEF Range
    <3> QED
      BY <3>1, <3>2
  <2>2. ASSUME NEW i \in DOMAIN Tail(seq)
        PROVE  Tail(seq)[i] \in Range(seq)
    BY <1>2 DEF Range
  <2>3. Head(seq) \in Range(seq)
    BY <1>2 DEF Range
  <2> QED
    BY <1>2, <2>1, <2>2, <2>3 DEF Range
<1>5. Distinct(seq) => Distinct(Tail(seq)) /\ Head(seq) \notin Range(Tail(seq))
  BY <1>2 DEF Range, Distinct
<1> QED
  BY <1>1, <1>4, <1>5

\* What unlocking does: the listeners queue up behind the callers woken before.
LEMMA ConcatFacts ==
    ASSUME NEW S, NEW s \in Seq(S), NEW t \in Seq(S)
    PROVE  /\ s \o t \in Seq(S)
           /\ Range(s \o t) = Range(s) \cup Range(t)
           /\ Distinct(s) /\ Distinct(t) /\ Range(s) \cap Range(t) = {} => Distinct(s \o t)
<1>1. s \o t \in Seq(S)
  OBVIOUS
<1>2. /\ Len(s) \in Nat /\ DOMAIN s = 1 .. Len(s)
      /\ Len(t) \in Nat /\ DOMAIN t = 1 .. Len(t)
      /\ DOMAIN (s \o t) = 1 .. Len(s) + Len(t)
      /\ \A i \in 1 .. Len(s) : (s \o t)[i] = s[i]
      /\ \A i \in Len(s) + 1 .. Len(s) + Len(t) : (s \o t)[i] = t[i - Len(s)]
  OBVIOUS
<1>3. \A i \in DOMAIN (s \o t) :
         \/ i \in DOMAIN s /\ (s \o t)[i] = s[i]
         \/ i - Len(s) \in DOMAIN t /\ (s \o t)[i] = t[i - Len(s)]
  BY <1>2
<1>4. \A j \in DOMAIN t : j + Len(s) \in DOMAIN (s \o t) /\ (s \o t)[j + Len(s)] = t[j]
  BY <1>2
<1>5. \A i \in DOMAIN s : i \in DOMAIN (s \o t) /\ (s \o t)[i] = s[i]
  BY <1>2
<1>6. Range(s \o t) = Range(s) \cup Range(t)
  <2>1. \A i \in DOMAIN (s \o t) : (s \o t)[i] \in Range(s) \cup Range(t)
    BY <1>3 DEF Range
  <2>2. \A i \in DOMAIN s : s[i] \in Range(s \o t)
    BY <1>5, Zenon DEF Range
  <2>3. \A j \in DOMAIN t : t[j] \in Range(s \o t)
    BY <1>4, Zenon DEF Range
  <2> QED
    BY <2>1, <2>2, <2>3, Zenon DEF Range
<1>7. ASSUME Distinct(s), Distinct(t), Range(s) \cap Range(t) = {},
             NEW i \in DOMAIN (s \o t), NEW j \in DOMAIN (s \o t),
             (s \o t)[i] = (s \o t)[j]
      PROVE  i = j
  <2>1. i \in Int /\ j \in Int
    BY <1>2
  <2>2. CASE i \in DOMAIN s /\ j \in DOMAIN s
    BY <1>5, <1>7, <2>2 DEF Distinct
  <2>3. CASE i \notin DOMAIN s /\ j \notin DOMAIN s
    <3>1. i - Len(s) = j - Len(s)
      BY <1>3, <1>7, <2>3 DEF Distinct
    <3> QED
      BY <1>2, <2>1, <3>1
  <2>4. CASE i \in DOMAIN s /\ j \notin DOMAIN s
    <3>1. s[i] \in Range(s) /\ t[j - Len(s)] \in Range(t)
      BY <1>3, <1>7, <2>4, Zenon DEF Range
    <3> QED
      BY <1>3, <1>5, <1>7, <2>4, <3>1
  <2>5. CASE i \notin DOMAIN s /\ j \in DOMAIN s
    <3>1. s[j] \in Range(s) /\ t[i - Len(s)] \in Range(t)
      BY <1>3, <1>7, <2>5, Zenon DEF Range
    <3> QED
      BY <1>3, <1>5, <1>7, <2>5, <3>1
  <2> QED
    BY <2>2, <2>3, <2>4, <2>5
<1> QED
  BY <1>1, <1>6, <1>7 DEF Distinct
-----------------------------------------------------------------------------
LEMMA InitInv == MutexInit => MutexInv
BY MutexAssumption
   DEF MutexInit, MutexInv, MutexTypeOK, MutualExclusion, NoLostWakeup, Range, Distinct,
       UNLOCKED, LOCKED

\* A turn of the loop of lockAsync, by a caller that is in nobody's queue.
LEMMA TryLockInv ==
    ASSUME MutexInv, NEW c \in Callers, NEW rest \in Seq(Callers),
           Distinct(rest), Range(rest) \subseteq Range(woken),
           state[c] # "in", c \notin Range(listeners), c \notin Range(rest),
           \A d \in Callers : state[d] = "waiting" /\ d # c =>
                                 d \in Range(listeners) \cup Range(rest),
           woken' = rest, TryLock(c), taken' \in [Callers -> Nat]
    PROVE  MutexInv'
<1> USE DEF MutexInv
<1>1. CASE word = UNLOCKED
  <2>1. /\ word' = LOCKED /\ state' = [state EXCEPT ![c] = "in"]
        /\ listeners' = listeners
    BY <1>1 DEF TryLock
  <2>2. \A d \in Callers : state[d] # "in"
    BY <1>1 DEF MutualExclusion, UNLOCKED, LOCKED
  <2>3. MutexTypeOK'
    BY <2>1 DEF MutexTypeOK
  <2>4. MutualExclusion'
    BY <2>1, <2>2 DEF MutualExclusion, MutexTypeOK
  <2>5. NoLostWakeup'
    BY <2>1 DEF NoLostWakeup, MutexTypeOK, UNLOCKED, LOCKED
  <2> QED
    BY <2>1, <2>3, <2>4, <2>5
<1>2. CASE word # UNLOCKED
  <2>1. /\ word' = word /\ state' = [state EXCEPT ![c] = "waiting"]
        /\ listeners' = Append(listeners, c)
    BY <1>2 DEF TryLock
  <2>2. /\ listeners' \in Seq(Callers)
        /\ Range(listeners') = Range(listeners) \cup {c}
        /\ Distinct(listeners')
    BY <2>1, AppendFacts DEF MutexTypeOK
  <2>3. MutexTypeOK'
    BY <2>1, <2>2 DEF MutexTypeOK
  <2>4. MutualExclusion'
    BY <2>1 DEF MutualExclusion, MutexTypeOK
  <2>5. NoLostWakeup'
    BY <1>2, <2>1, <2>2 DEF NoLostWakeup, MutexTypeOK
  <2>6. Range(listeners') \cap Range(woken') = {}
    BY <2>2
  <2> QED
    BY <2>2, <2>3, <2>4, <2>5, <2>6
<1> QED
  BY <1>1, <1>2

LEMMA lockAsyncInv == ASSUME MutexInv, NEW c \in Callers, lockAsync(c) PROVE MutexInv'
<1>1. /\ state[c] = "out" /\ TryLock(c)
      /\ woken' = woken /\ taken' \in [Callers -> Nat]
  BY DEF lockAsync, MutexInv, MutexTypeOK
<1>2. c \notin Range(listeners) /\ c \notin Range(woken)
  BY <1>1 DEF MutexInv, NoLostWakeup
<1>3. \A d \in Callers : state[d] = "waiting" => d \in Range(listeners) \cup Range(woken)
  BY DEF MutexInv, NoLostWakeup
<1>4. woken \in Seq(Callers) /\ Distinct(woken)
  BY DEF MutexInv, MutexTypeOK
<1> QED
  BY <1>1, <1>2, <1>3, <1>4, TryLockInv

LEMMA resumeInv == ASSUME MutexInv, resume PROVE MutexInv'
<1> DEFINE c == Head(woken)
<1>1. /\ woken # <<>> /\ woken' = Tail(woken) /\ TryLock(c)
      /\ taken' \in [Callers -> Nat] /\ woken \in Seq(Callers) /\ Distinct(woken)
  BY DEF resume, MutexInv, MutexTypeOK
<1>2. /\ c \in Callers /\ Tail(woken) \in Seq(Callers)
      /\ Range(woken) = {c} \cup Range(Tail(woken))
      /\ Distinct(Tail(woken)) /\ c \notin Range(Tail(woken))
  BY <1>1, TailFacts
<1>3. state[c] = "waiting" /\ c \notin Range(listeners)
  BY <1>2 DEF MutexInv, NoLostWakeup
<1>4. \A d \in Callers : state[d] = "waiting" /\ d # c =>
                            d \in Range(listeners) \cup Range(Tail(woken))
  BY <1>2 DEF MutexInv, NoLostWakeup
<1> QED
  BY <1>1, <1>2, <1>3, <1>4, TryLockInv

LEMMA unlockInv == ASSUME MutexInv, NEW c \in Callers, unlock(c) PROVE MutexInv'
<1> USE DEF MutexInv
<1>1. /\ state[c] = "in" /\ word' = UNLOCKED
      /\ state' = [state EXCEPT ![c] = "out"]
      /\ woken' = woken \o listeners /\ listeners' = <<>> /\ taken' = taken
  BY DEF unlock
<1>2. /\ woken' \in Seq(Callers) /\ Distinct(woken')
      /\ Range(woken') = Range(woken) \cup Range(listeners)
  BY <1>1, ConcatFacts DEF MutexTypeOK
<1>3. Range(listeners') = {} /\ Distinct(listeners')
  BY <1>1 DEF Range, Distinct
<1>4. MutexTypeOK'
  BY <1>1, <1>2 DEF MutexTypeOK
<1>5. MutualExclusion'
  BY <1>1 DEF MutualExclusion, MutexTypeOK, UNLOCKED, LOCKED
<1>6. NoLostWakeup'
  BY <1>1, <1>2, <1>3 DEF NoLostWakeup, MutexTypeOK
<1> QED
  BY <1>2, <1>3, <1>4, <1>5, <1>6

LEMMA StepInv == MutexInv /\ [MutexNext]_mutexVars => MutexInv'
<1> SUFFICES ASSUME MutexInv, [MutexNext]_mutexVars PROVE MutexInv'
  OBVIOUS
<1>1. CASE resume
  BY <1>1, resumeInv
<1>2. ASSUME NEW c \in Callers, lockAsync(c) PROVE MutexInv'
  BY <1>2, lockAsyncInv
<1>3. ASSUME NEW c \in Callers, unlock(c) PROVE MutexInv'
  BY <1>3, unlockInv
<1>4. CASE UNCHANGED mutexVars
  <2>1. /\ word' = word /\ listeners' = listeners /\ woken' = woken
        /\ state' = state /\ taken' = taken
    BY <1>4 DEF mutexVars
  <2>2. MutexTypeOK'
    BY <2>1 DEF MutexInv, MutexTypeOK
  <2>3. MutualExclusion'
    BY <2>1 DEF MutexInv, MutualExclusion
  <2>4. NoLostWakeup'
    BY <2>1 DEF MutexInv, NoLostWakeup, Range
  <2>5. Distinct(listeners)' /\ Distinct(woken)' /\ (Range(listeners) \cap Range(woken) = {})'
    BY <2>1 DEF MutexInv, Range, Distinct
  <2> QED
    BY <2>2, <2>3, <2>4, <2>5 DEF MutexInv
<1> QED
  BY <1>1, <1>2, <1>3, <1>4 DEF MutexNext

LEMMA Invariant == MutexSpec => []MutexInv
BY InitInv, StepInv, PTL DEF MutexSpec
-----------------------------------------------------------------------------
\* Every state of the mutex has its type, for any number of callers.
THEOREM MutexIsTyped == MutexSpec => []MutexTypeOK
<1>1. MutexInv => MutexTypeOK
  BY DEF MutexInv
<1> QED
  BY <1>1, Invariant, PTL

\* No two callers of lockAsync are ever in at once, whatever the order in which
\* calls, continuations and unlocks interleave.
THEOREM MutexExcludes == MutexSpec => []MutualExclusion
<1>1. MutexInv => MutualExclusion
  BY DEF MutexInv
<1> QED
  BY <1>1, Invariant, PTL

\* No caller is left sitting on the event of a lock that is free.
THEOREM MutexLosesNoWakeup == MutexSpec => []NoLostWakeup
<1>1. MutexInv => NoLostWakeup
  BY DEF MutexInv
<1> QED
  BY <1>1, Invariant, PTL

\* Every behaviour of the mutex, its callers that are in and those that wait taken for
\* those inside and those pending, keeps the promise of MutexPromise.
THEOREM MutexRefinesLock == MutexSpec => ImplementsLock
<1>1. ASSUME MutexInit PROVE P!PromiseInit
  BY <1>1 DEF MutexInit, P!PromiseInit, In
<1>2. ASSUME MutexInv, [MutexNext]_mutexVars
      PROVE  [P!PromiseNext]_<<In("waiting"), In("in")>>
  <2>0. /\ state \in [Callers -> {"out", "waiting", "in"}]
        /\ \A c, d \in Callers : state[c] = "in" /\ state[d] = "in" => c = d
        /\ word = LOCKED <=> In("in") # {}
        /\ word \in {UNLOCKED, LOCKED} /\ UNLOCKED # LOCKED
    BY <1>2 DEF MutexInv, MutexTypeOK, MutualExclusion, In, UNLOCKED, LOCKED
  <2>1. ASSUME NEW c \in Callers, TryLock(c), state[c] # "in"
        PROVE  P!PromiseNext
    <3>1. CASE word = UNLOCKED
      <4>1. In("in") = {}
        BY <2>0, <3>1
      <4>2. state' = [state EXCEPT ![c] = "in"]
        BY <2>1, <3>1 DEF TryLock
      <4>3. In("in")' = In("in") \cup {c} /\ In("waiting")' = In("waiting") \ {c}
        BY <2>0, <4>1, <4>2 DEF In
      <4> QED
        BY <4>1, <4>3 DEF P!PromiseNext, P!Resolves
    <3>2. CASE word # UNLOCKED
      <4>1. \E d \in In("in") : d # c
        BY <2>0, <2>1, <3>2 DEF In
      <4>2. state' = [state EXCEPT ![c] = "waiting"]
        BY <2>1, <3>2 DEF TryLock
      <4>3. In("in")' = In("in") /\ In("waiting")' = In("waiting") \cup {c}
        BY <2>0, <2>1, <4>2 DEF In
      <4> QED
        BY <4>1, <4>3 DEF P!PromiseNext, P!IsKept
    <3> QED
      BY <3>1, <3>2
  <2>2. CASE resume
    <3>1. Head(woken) \in Callers /\ state[Head(woken)] = "waiting"
      BY <1>2, <2>2, TailFacts DEF resume, MutexInv, MutexTypeOK, NoLostWakeup
    <3> QED
      BY <2>1, <2>2, <3>1 DEF resume
  <2>3. ASSUME NEW c \in Callers, lockAsync(c) PROVE P!PromiseNext
    BY <2>1, <2>3 DEF lockAsync
  <2>4. ASSUME NEW c \in Callers, unlock(c) PROVE P!PromiseNext
    <3>1. state[c] = "in" /\ state' = [state EXCEPT ![c] = "out"]
      BY <2>4 DEF unlock
    <3>2. c \in In("in") /\ In("in")' = In("in") \ {c} /\ In("waiting")' = In("waiting")
      BY <2>0, <3>1 DEF In
    <3> QED
      BY <3>2 DEF P!PromiseNext, P!unlock
  <2>5. CASE UNCHANGED mutexVars
    BY <2>5 DEF mutexVars, In
  <2> QED
    BY <1>2, <2>2, <2>3, <2>4, <2>5 DEF MutexNext
<1> QED
  BY <1>1, <1>2, Invariant, PTL DEF MutexSpec, ImplementsLock, P!PromiseSpec
-----------------------------------------------------------------------------
(* The calls hold the lock. *)

\* Every step of the calls is a step of the mutex or leaves it alone.
LEMMA LockSteps == [SubmissionNext]_submissionVars => [MutexNext]_mutexVars
<1> SUFFICES ASSUME [SubmissionNext]_submissionVars PROVE [MutexNext]_mutexVars
  OBVIOUS
<1>1. ASSUME NEW c \in Calls, CommitStep(c) PROVE [MutexNext]_mutexVars
  BY <1>1, SubmissionAssumption
     DEF CommitStep, lockNonce, getTransactionCount, newTx, retryTx, pollForMining, UnlockNonce,
         MutexNext
<1>2. ASSUME NEW c \in HaltCalls, DirectStep(c) PROVE UNCHANGED mutexVars
  BY <1>2 DEF DirectStep, askNonce, sendDirectly, waitForMining
<1>3. CASE OperatorStep
  BY <1>3 DEF OperatorStep, commit, resolves, rejects, nextRun
<1>4. CASE Mine \/ resumeNonce
  BY <1>4 DEF Mine, resumeNonce, MutexNext
<1>5. CASE UNCHANGED submissionVars
  BY <1>5 DEF submissionVars
<1> QED
  BY <1>1, <1>2, <1>3, <1>4, <1>5 DEF SubmissionNext

\* The calls use the mutex as its specification says.
THEOREM SubmissionUsesMutex == SubmissionSpec => MutexSpec
<1>1. SubmissionInit => MutexInit
  BY DEF SubmissionInit
<1> QED
  BY <1>1, LockSteps, PTL DEF SubmissionSpec, MutexSpec

LEMMA LockInv == SubmissionSpec => []MutexInv
BY SubmissionUsesMutex, Invariant, PTL

\* Between the request for a nonce and its use no other call asks for one.
THEOREM NonceIsLocked == SubmissionSpec => ImplementsLock
BY SubmissionUsesMutex, MutexRefinesLock, PTL

-----------------------------------------------------------------------------
(* Types. *)

LEMMA CallFacts ==
    /\ Calls \subseteq AllCalls /\ HaltCalls \subseteq AllCalls /\ Calls \cap HaltCalls = {}
    /\ \A c \in Calls : c.token \in Tokens /\ c.run \in Runs
    /\ \A c \in AllCalls : c.run \in Runs /\ (c.token \in Tokens <=> c \in Calls)
    /\ \A c \in AllCalls : c = [token |-> c.token, run |-> c.run]
BY SubmissionAssumption DEF Calls, HaltCalls, AllCalls

LEMMA CallOfFacts ==
    ASSUME run \in Runs
    PROVE  /\ \A t \in Tokens : CallOf(t) \in Calls /\ CallOf(t).token = t /\ CallOf(t).run = run
           /\ CallOf(Halting) \in HaltCalls /\ CallOf(Halting).run = run
           /\ \A c \in Calls : c.run = run => c = CallOf(c.token)
           /\ \A h \in HaltCalls : h.run = run => h = CallOf(Halting)
BY DEF CallOf, Calls, HaltCalls

LEMMA PriceType == \A price \in Nat : RetryPrice(price) \in Nat
BY DEF RetryPrice

LEMMA PendingType == SubmissionTypeOK => PendingCount \in Nat /\ Len(mined) \in Nat
BY FS_CardinalityType DEF SubmissionTypeOK, PendingCount

\* What goes wrong is counted.
LEMMA FaultType ==
    ASSUME SubmissionTypeOK, (\E kind \in AllFaults : Fault(kind)) \/ UNCHANGED faults
    PROVE  /\ faults' \in [AllFaults -> Nat]
           /\ \A kind \in AllFaults : faults[kind] <= faults'[kind]
<1>1. faults \in [AllFaults -> Nat]
  BY DEF SubmissionTypeOK
<1>2. ASSUME NEW kind \in AllFaults, Fault(kind)
      PROVE  /\ faults' \in [AllFaults -> Nat]
             /\ \A other \in AllFaults : faults[other] <= faults'[other]
  BY <1>1, <1>2 DEF Fault
<1> QED
  BY <1>1, <1>2

\* What the node does with a transaction leaves the pool a finite set of them.
LEMMA ReceiveType ==
    ASSUME SubmissionTypeOK, NEW c \in AllCalls, NEW nonce \in Nat, NEW price \in Nat,
           Receive(Tx(c, nonce, price))
    PROVE  /\ pool' \in SUBSET [call : AllCalls, nonce : Nat, price : Nat]
           /\ IsFiniteSet(pool')
<1>1. Tx(c, nonce, price) \in [call : AllCalls, nonce : Nat, price : Nat]
  BY DEF Tx
<1>2. IsFiniteSet({other \in pool : other.nonce # Tx(c, nonce, price).nonce})
  BY FS_Subset DEF SubmissionTypeOK
<1>3. IsFiniteSet(pool')
  BY <1>2, FS_AddElement DEF Receive
<1> QED
  BY <1>1, <1>3 DEF Receive, SubmissionTypeOK

\* What comes of a submission, field by field.
LEMMA SubmitOutcome ==
    ASSUME SubmissionTypeOK, NEW c \in Calls, NEW nonce \in Nat, NEW price \in Nat,
           NEW again \in {"new", "retrying"}, Submit(c, nonce, price, again)
    PROVE  /\ calls' \in [AllCalls -> CallRecord]
           /\ \A d \in AllCalls \ {c} : calls'[d] = calls[d]
           /\ pool' \in SUBSET [call : AllCalls, nonce : Nat, price : Nat] /\ IsFiniteSet(pool')
           /\ faults' \in [AllFaults -> Nat] /\ \A kind \in AllFaults : faults[kind] <= faults'[kind]
           /\ \/ /\ Accepts(nonce, price) /\ Receive(Tx(c, nonce, price)) /\ faults' = faults
                 /\ calls'[c].pc = "polling" /\ calls'[c].nonce = nonce
                 /\ calls'[c].price = price /\ calls'[c].sub = 0
              \/ /\ calls'[c].pc \in {again, "failed"} /\ calls'[c].nonce = calls[c].nonce
                 /\ \/ ~Accepts(nonce, price) /\ UNCHANGED <<pool, faults>>
                    \/ UNCHANGED pool /\ Fault("refuse")
                    \/ Receive(Tx(c, nonce, price)) /\ Fault("lost")
<1>1. c \in AllCalls /\ calls[c] \in CallRecord /\ calls \in [AllCalls -> CallRecord]
  BY CallFacts DEF SubmissionTypeOK
<1>2. ASSUME Sent(c, nonce, price)
      PROVE  /\ calls' \in [AllCalls -> CallRecord]
             /\ \A d \in AllCalls \ {c} : calls'[d] = calls[d]
             /\ calls'[c].pc = "polling" /\ calls'[c].nonce = nonce
             /\ calls'[c].price = price /\ calls'[c].sub = 0
  <2> DEFINE r == [calls[c] EXCEPT !.pc = "polling", !.nonce = nonce, !.price = price, !.sub = 0]
  <2>1. calls' = [calls EXCEPT ![c] = r]
    BY <1>2 DEF Sent
  <2>2. r \in CallRecord /\ r.pc = "polling" /\ r.nonce = nonce /\ r.price = price /\ r.sub = 0
    BY <1>1 DEF CallRecord, CommitPlaces, LatePlaces
  <2> HIDE DEF r
  <2> QED
    BY <1>1, <2>1, <2>2
<1>3. ASSUME Refused(c, again)
      PROVE  /\ calls' \in [AllCalls -> CallRecord]
             /\ \A d \in AllCalls \ {c} : calls'[d] = calls[d]
             /\ calls'[c].pc \in {again, "failed"} /\ calls'[c].nonce = calls[c].nonce
  <2> DEFINE place == IF calls[c].sub + 1 < retryLimit THEN again ELSE "failed"
             r == [calls[c] EXCEPT !.sub = calls[c].sub + 1, !.pc = place]
  <2>1. place \in {again, "failed"}
    OBVIOUS
  <2>2. calls' = [calls EXCEPT ![c].sub = @ + 1, ![c].pc = place]
    BY <1>3 DEF Refused
  <2> HIDE DEF place
  <2>3. calls' = [calls EXCEPT ![c] = r]
    BY <1>1, <2>2
  <2>4. calls[c].sub + 1 \in Nat /\ place \in CommitPlaces
    BY <1>1, <2>1 DEF CallRecord, CommitPlaces, EarlyPlaces, LatePlaces
  <2>5. r \in CallRecord /\ r.pc = place /\ r.nonce = calls[c].nonce
    BY <1>1, <2>4 DEF CallRecord
  <2> HIDE DEF r
  <2> QED
    BY <1>1, <2>1, <2>3, <2>5
<1>4. ASSUME Receive(Tx(c, nonce, price)) \/ UNCHANGED pool
      PROVE  pool' \in SUBSET [call : AllCalls, nonce : Nat, price : Nat] /\ IsFiniteSet(pool')
  BY <1>1, <1>4, ReceiveType DEF SubmissionTypeOK
<1>5. ASSUME (\E kind \in AllFaults : Fault(kind)) \/ UNCHANGED faults
      PROVE  /\ faults' \in [AllFaults -> Nat]
             /\ \A kind \in AllFaults : faults[kind] <= faults'[kind]
  BY <1>5, FaultType
<1>6. {"refuse", "lost"} \subseteq AllFaults
  BY DEF AllFaults
<1>7. CASE Accepts(nonce, price) /\ Receive(Tx(c, nonce, price)) /\ Sent(c, nonce, price) /\ UNCHANGED faults
  BY <1>2, <1>4, <1>5, <1>7
<1>8. CASE ~Accepts(nonce, price) /\ Refused(c, again) /\ UNCHANGED <<pool, faults>>
  BY <1>3, <1>4, <1>5, <1>8
<1>9. CASE Fault("refuse") /\ Refused(c, again) /\ UNCHANGED pool
  BY <1>3, <1>4, <1>5, <1>6, <1>9
<1>10. CASE Fault("lost") /\ Receive(Tx(c, nonce, price)) /\ Refused(c, again)
  BY <1>3, <1>4, <1>5, <1>6, <1>10
<1> QED
  BY <1>7, <1>8, <1>9, <1>10 DEF Submit

\* What a move of one call does, field by field.
LEMMA GotoOutcome ==
    ASSUME SubmissionTypeOK, NEW c \in AllCalls, NEW place \in CommitPlaces \cup DirectPlaces,
           Goto(c, place)
    PROVE  /\ calls' \in [AllCalls -> CallRecord]
           /\ \A d \in AllCalls \ {c} : calls'[d] = calls[d]
           /\ calls'[c].pc = place /\ calls'[c].nonce = calls[c].nonce
           /\ calls'[c].price = calls[c].price /\ calls'[c].sub = calls[c].sub
<1>1. calls \in [AllCalls -> CallRecord] /\ calls[c] \in CallRecord
  BY DEF SubmissionTypeOK
<1> DEFINE r == [calls[c] EXCEPT !.pc = place]
<1>2. calls' = [calls EXCEPT ![c] = r]
  BY DEF Goto
<1>3. /\ r \in CallRecord /\ r.pc = place /\ r.nonce = calls[c].nonce
      /\ r.price = calls[c].price /\ r.sub = calls[c].sub
  BY <1>1 DEF CallRecord
<1> HIDE DEF r
<1> QED
  BY <1>1, <1>2, <1>3

\* ... what asking for a nonce does, ...
LEMMA AskOutcome ==
    ASSUME SubmissionTypeOK, NEW c \in AllCalls, NEW place \in CommitPlaces \cup DirectPlaces,
           calls' = [calls EXCEPT ![c].nonce = PendingCount, ![c].pc = place]
    PROVE  /\ calls' \in [AllCalls -> CallRecord]
           /\ \A d \in AllCalls \ {c} : calls'[d] = calls[d]
           /\ calls'[c].pc = place /\ calls'[c].nonce = PendingCount
           /\ calls'[c].price = calls[c].price /\ calls'[c].sub = calls[c].sub
<1>1. calls \in [AllCalls -> CallRecord] /\ calls[c] \in CallRecord
  BY DEF SubmissionTypeOK
<1> DEFINE r == [calls[c] EXCEPT !.nonce = PendingCount, !.pc = place]
<1>2. calls' = [calls EXCEPT ![c] = r]
  BY <1>1
<1>3. /\ r \in CallRecord /\ r.pc = place /\ r.nonce = PendingCount
      /\ r.price = calls[c].price /\ r.sub = calls[c].sub
  BY <1>1, PendingType DEF CallRecord
<1> HIDE DEF r
<1> QED
  BY <1>1, <1>2, <1>3

\* ... and what the end of the polling does.
LEMMA FailsOutcome ==
    ASSUME SubmissionTypeOK, NEW c \in AllCalls, MiningFails(c)
    PROVE  /\ calls' \in [AllCalls -> CallRecord]
           /\ \A d \in AllCalls \ {c} : calls'[d] = calls[d]
           /\ calls'[c].pc \in {"retrying", "failed"} /\ calls'[c].nonce = calls[c].nonce
           /\ calls'[c].price = calls[c].price /\ calls'[c].sub = calls[c].sub
<1>1. calls \in [AllCalls -> CallRecord] /\ calls[c] \in CallRecord
  BY DEF SubmissionTypeOK
<1> DEFINE place == IF calls[c].attempt + 1 < retryLimit THEN "retrying" ELSE "failed"
           r == [calls[c] EXCEPT !.attempt = calls[c].attempt + 1, !.pc = place]
<1>2. calls' = [calls EXCEPT ![c].attempt = @ + 1, ![c].pc = place]
  BY DEF MiningFails
<1>3. place \in {"retrying", "failed"}
  OBVIOUS
<1> HIDE DEF place
<1>4. calls' = [calls EXCEPT ![c] = r]
  BY <1>1, <1>2
<1>5. calls[c].attempt + 1 \in Nat /\ place \in CommitPlaces
  BY <1>1, <1>3 DEF CallRecord, CommitPlaces, LatePlaces
<1>6. /\ r \in CallRecord /\ r.pc = place /\ r.nonce = calls[c].nonce
      /\ r.price = calls[c].price /\ r.sub = calls[c].sub
  BY <1>1, <1>5 DEF CallRecord
<1> HIDE DEF r
<1> QED
  BY <1>1, <1>3, <1>4, <1>6

\* What each step of a commit does to its call, to the node and to the faults.
Moves(c, from, to) ==
    /\ calls[c].pc \in from /\ calls'[c].pc \in to
    /\ calls' \in [AllCalls -> CallRecord]
    /\ \A d \in AllCalls \ {c} : calls'[d] = calls[d]

Steady(c) ==
    calls'[c].nonce = calls[c].nonce /\ calls'[c].price = calls[c].price
        /\ calls'[c].sub = calls[c].sub

LEMMA LockOutcome ==
    ASSUME SubmissionTypeOK, NEW c \in Calls, lockNonce(c)
    PROVE  /\ Moves(c, {"new"}, {"asking", "locking"}) /\ Steady(c)
           /\ calls'[c].pc = "asking" <=> state'[c] = "in"
           /\ lockAsync(c) /\ UNCHANGED <<nodeVars, runVars, faults>>
<1>1. c \in AllCalls /\ {"asking", "locking"} \subseteq CommitPlaces
  BY CallFacts DEF CommitPlaces, EarlyPlaces
<1> DEFINE place == IF state'[c] = "in" THEN "asking" ELSE "locking"
<1>2. Goto(c, place) /\ calls[c].pc = "new" /\ lockAsync(c) /\ UNCHANGED <<nodeVars, runVars, faults>>
  BY DEF lockNonce
<1>3. place \in {"asking", "locking"} /\ (place = "asking" <=> state'[c] = "in")
  OBVIOUS
<1> HIDE DEF place
<1> QED
  BY <1>1, <1>2, <1>3, GotoOutcome DEF Moves, Steady

LEMMA PollOutcome ==
    ASSUME SubmissionTypeOK, NEW c \in Calls, pollForMining(c)
    PROVE  /\ Moves(c, {"polling"}, {"returned", "retrying", "failed"}) /\ Steady(c)
           /\ \/ calls'[c].pc = "returned" /\ HasReceipt(c) /\ Succeeded(c) /\ UNCHANGED faults
              \/ calls'[c].pc # "returned" /\ HasReceipt(c) /\ ~Succeeded(c) /\ UNCHANGED faults
              \/ calls'[c].pc # "returned" /\ ~HasReceipt(c) /\ TimePasses
           /\ faults' \in [AllFaults -> Nat] /\ \A kind \in AllFaults : faults[kind] <= faults'[kind]
           /\ UNCHANGED <<nodeVars, runVars, mutexVars>>
<1>1. c \in AllCalls /\ "returned" \in CommitPlaces
  BY CallFacts DEF CommitPlaces, LatePlaces
<1>2. calls[c].pc = "polling" /\ UNCHANGED <<nodeVars, runVars, mutexVars>>
  BY DEF pollForMining
<1>3. TimePasses => (\E kind \in AllFaults : Fault(kind)) \/ UNCHANGED faults
  BY DEF TimePasses, AllFaults
<1>4. TimePasses \/ UNCHANGED faults
      => faults' \in [AllFaults -> Nat] /\ \A kind \in AllFaults : faults[kind] <= faults'[kind]
  BY <1>3, FaultType
<1>5. CASE HasReceipt(c) /\ Succeeded(c)
  <2>1. Goto(c, "returned") /\ UNCHANGED faults
    BY <1>5 DEF pollForMining
  <2> QED
    BY <1>1, <1>2, <1>4, <1>5, <2>1, GotoOutcome DEF Moves, Steady
<1>6. CASE ~(HasReceipt(c) /\ Succeeded(c))
  <2>1. MiningFails(c) /\ \/ HasReceipt(c) /\ ~Succeeded(c) /\ UNCHANGED faults
                          \/ ~HasReceipt(c) /\ TimePasses
    BY <1>6 DEF pollForMining
  <2>2. /\ calls' \in [AllCalls -> CallRecord]
        /\ \A d \in AllCalls \ {c} : calls'[d] = calls[d]
        /\ calls'[c].pc \in {"retrying", "failed"} /\ Steady(c)
    BY <1>1, <2>1, FailsOutcome DEF Steady
  <2> QED
    BY <1>2, <1>4, <2>1, <2>2 DEF Moves
<1> QED
  BY <1>5, <1>6

LEMMA NewOutcome ==
    ASSUME SubmissionTypeOK, NEW c \in Calls, newTx(c)
    PROVE  /\ Moves(c, {"sending"}, {"polling", "new", "failed"})
           /\ calls'[c].nonce = calls[c].nonce
           /\ \/ /\ calls'[c].pc = "polling"
                 /\ calls'[c].price = BasePrice /\ calls'[c].sub = 0
                 /\ Accepts(calls[c].nonce, BasePrice) /\ Receive(Tx(c, calls[c].nonce, BasePrice))
                 /\ UNCHANGED faults
              \/ /\ calls'[c].pc # "polling"
                 /\ \/ ~Accepts(calls[c].nonce, BasePrice) /\ UNCHANGED <<pool, faults>>
                    \/ UNCHANGED pool /\ Fault("refuse")
                    \/ Receive(Tx(c, calls[c].nonce, BasePrice)) /\ Fault("lost")
           /\ pool' \in SUBSET [call : AllCalls, nonce : Nat, price : Nat] /\ IsFiniteSet(pool')
           /\ faults' \in [AllFaults -> Nat] /\ \A kind \in AllFaults : faults[kind] <= faults'[kind]
           /\ unlock(c) /\ UNCHANGED <<floor, mined, runVars>>
<1>1. c \in AllCalls /\ calls[c] \in CallRecord /\ calls[c].nonce \in Nat /\ BasePrice \in Nat
  BY CallFacts, SubmissionAssumption DEF SubmissionTypeOK, CallRecord
<1>2. /\ calls[c].pc = "sending" /\ Submit(c, calls[c].nonce, BasePrice, "new")
      /\ unlock(c) /\ UNCHANGED <<floor, mined, runVars>>
  BY DEF newTx, UnlockNonce
<1> QED
  BY <1>1, <1>2, SubmitOutcome DEF Moves

LEMMA RetryOutcome ==
    ASSUME SubmissionTypeOK, NEW c \in Calls, retryTx(c)
    PROVE  /\ Moves(c, {"retrying"}, {"polling", "retrying", "failed"})
           /\ calls'[c].nonce = calls[c].nonce
           /\ RetryPrice(calls[c].price) \in Nat
           /\ \/ /\ calls'[c].pc = "polling"
                 /\ calls'[c].price = RetryPrice(calls[c].price)
                 /\ Accepts(calls[c].nonce, RetryPrice(calls[c].price))
                 /\ Receive(Tx(c, calls[c].nonce, RetryPrice(calls[c].price)))
                 /\ UNCHANGED faults
              \/ /\ calls'[c].pc # "polling"
                 /\ \/ ~Accepts(calls[c].nonce, RetryPrice(calls[c].price))
                         /\ UNCHANGED <<pool, faults>>
                    \/ UNCHANGED pool /\ Fault("refuse")
                    \/ Receive(Tx(c, calls[c].nonce, RetryPrice(calls[c].price))) /\ Fault("lost")
           /\ pool' \in SUBSET [call : AllCalls, nonce : Nat, price : Nat] /\ IsFiniteSet(pool')
           /\ faults' \in [AllFaults -> Nat] /\ \A kind \in AllFaults : faults[kind] <= faults'[kind]
           /\ UNCHANGED <<floor, mined, runVars, mutexVars>>
<1>1. c \in AllCalls /\ calls[c] \in CallRecord /\ calls[c].nonce \in Nat /\ calls[c].price \in Nat
  BY CallFacts DEF SubmissionTypeOK, CallRecord
<1>2. /\ calls[c].pc = "retrying"
      /\ Submit(c, calls[c].nonce, RetryPrice(calls[c].price), "retrying")
      /\ UNCHANGED <<floor, mined, runVars, mutexVars>>
  BY DEF retryTx
<1>3. RetryPrice(calls[c].price) \in Nat
  BY <1>1, PriceType
<1> QED
  BY <1>1, <1>2, <1>3, SubmitOutcome DEF Moves

LEMMA CountOutcome ==
    ASSUME SubmissionTypeOK, NEW c \in Calls, getTransactionCount(c)
    PROVE  /\ Moves(c, {"asking"}, {"sending"})
           /\ calls'[c].nonce = PendingCount /\ calls'[c].sub = calls[c].sub
           /\ UNCHANGED <<nodeVars, runVars, mutexVars, faults>>
<1>1. c \in AllCalls /\ "sending" \in CommitPlaces
  BY CallFacts DEF CommitPlaces, EarlyPlaces
<1>2. /\ calls[c].pc = "asking"
      /\ calls' = [calls EXCEPT ![c].nonce = PendingCount, ![c].pc = "sending"]
      /\ UNCHANGED <<nodeVars, runVars, mutexVars, faults>>
  BY DEF getTransactionCount, UnlockNonce
<1> QED
  BY <1>1, <1>2, AskOutcome DEF Moves

\* A woken call gets the lock or registers once more.
LEMMA ResumeOutcome ==
    ASSUME SubmissionTypeOK, PlacesInv, MutexInv, resumeNonce
    PROVE  \E c \in Calls :
              /\ state[c] = "waiting" /\ calls[c].pc = "locking" /\ TryLock(c)
              /\ Moves(c, {"locking"}, {"asking", "locking"}) /\ Steady(c)
              /\ calls'[c].pc = "asking" <=> state'[c] = "in"
              /\ UNCHANGED <<nodeVars, runVars, faults>>
<1> DEFINE c == Head(woken)
<1>1. /\ woken # <<>> /\ TryLock(c) /\ UNCHANGED <<nodeVars, runVars, faults>>
      /\ calls' = [d \in AllCalls |-> IF d = c /\ state'[c] = "in"
                                      THEN [calls[d] EXCEPT !.pc = "asking"] ELSE calls[d]]
  BY DEF resumeNonce, resume
<1>2. woken \in Seq(Callers)
  BY DEF MutexInv, MutexTypeOK
<1>3. c \in Callers /\ c \in Range(woken)
  BY <1>1, <1>2, TailFacts
<1>4. state[c] = "waiting" /\ c \in Calls
  BY <1>3, SubmissionAssumption DEF MutexInv, NoLostWakeup
<1>5. calls[c].pc = "locking"
  BY <1>4 DEF PlacesInv
<1>6. c \in AllCalls /\ calls \in [AllCalls -> CallRecord] /\ calls[c] \in CallRecord
  BY <1>4, CallFacts DEF SubmissionTypeOK
<1> HIDE DEF c
<1>7. CASE state'[c] = "in"
  <2> DEFINE r == [calls[c] EXCEPT !.pc = "asking"]
  <2>1. r \in CallRecord /\ r.pc = "asking" /\ r.nonce = calls[c].nonce
        /\ r.price = calls[c].price /\ r.sub = calls[c].sub
    BY <1>6 DEF CallRecord, CommitPlaces, EarlyPlaces
  <2>2. calls' = [d \in AllCalls |-> IF d = c THEN r ELSE calls[d]]
    BY <1>1, <1>7
  <2> HIDE DEF r
  <2>3. /\ calls' \in [AllCalls -> CallRecord] /\ calls'[c] = r
        /\ \A d \in AllCalls \ {c} : calls'[d] = calls[d]
    BY <1>6, <2>1, <2>2
  <2> QED
    BY <1>1, <1>4, <1>5, <1>7, <2>1, <2>3 DEF Moves, Steady
<1>8. CASE state'[c] # "in"
  <2>1. calls' = calls
    BY <1>1, <1>6, <1>8
  <2> QED
    BY <1>1, <1>4, <1>5, <1>6, <1>8, <2>1 DEF Moves, Steady
<1> QED
  BY <1>7, <1>8

\* The same for the other transactions of the operator, ...
LEMMA DirectOutcome ==
    ASSUME SubmissionTypeOK, NEW h \in HaltCalls, DirectStep(h)
    PROVE  /\ UNCHANGED <<floor, mined, runVars, mutexVars, faults>>
           /\ pool' \in SUBSET [call : AllCalls, nonce : Nat, price : Nat] /\ IsFiniteSet(pool')
           /\ \/ /\ Moves(h, {"direct"}, {"directSending"})
                 /\ calls'[h].nonce = PendingCount /\ UNCHANGED pool
              \/ /\ Moves(h, {"directSending"}, {"waiting"}) /\ Steady(h)
                 /\ Accepts(calls[h].nonce, BasePrice) /\ Receive(Tx(h, calls[h].nonce, BasePrice))
              \/ /\ Moves(h, {"directSending"}, {"failed"}) /\ Steady(h)
                 /\ ~Accepts(calls[h].nonce, BasePrice) /\ UNCHANGED pool
              \/ /\ Moves(h, {"waiting"}, {"returned"}) /\ Steady(h)
                 /\ HasReceipt(h) /\ UNCHANGED pool
<1>1. /\ h \in AllCalls /\ calls[h] \in CallRecord /\ calls[h].nonce \in Nat /\ BasePrice \in Nat
      /\ {"direct", "directSending", "waiting", "returned", "failed"} \subseteq DirectPlaces
  BY CallFacts, SubmissionAssumption DEF SubmissionTypeOK, CallRecord, DirectPlaces
<1>2. UNCHANGED pool => pool' \in SUBSET [call : AllCalls, nonce : Nat, price : Nat]
                        /\ IsFiniteSet(pool')
  BY DEF SubmissionTypeOK
<1>3. CASE askNonce(h)
  <2>1. /\ calls[h].pc = "direct" /\ UNCHANGED <<nodeVars, runVars, mutexVars, faults>>
        /\ calls' = [calls EXCEPT ![h].nonce = PendingCount, ![h].pc = "directSending"]
    BY <1>3 DEF askNonce
  <2>2. UNCHANGED pool /\ UNCHANGED <<floor, mined, runVars, mutexVars, faults>>
    BY <2>1 DEF nodeVars
  <2> QED
    BY <1>1, <1>2, <2>1, <2>2, AskOutcome DEF Moves
<1>4. CASE sendDirectly(h)
  <2>1. CASE Accepts(calls[h].nonce, BasePrice)
    BY <1>1, <1>4, <2>1, GotoOutcome, ReceiveType DEF sendDirectly, Moves, Steady
  <2>2. CASE ~Accepts(calls[h].nonce, BasePrice)
    BY <1>1, <1>2, <1>4, <2>2, GotoOutcome DEF sendDirectly, Moves, Steady
  <2> QED
    BY <2>1, <2>2
<1>5. CASE waitForMining(h)
  BY <1>1, <1>2, <1>5, GotoOutcome DEF waitForMining, Moves, Steady, nodeVars
<1> QED
  BY <1>3, <1>4, <1>5 DEF DirectStep

\* ... and for the operator.
LEMMA OperatorOutcome ==
    ASSUME SubmissionTypeOK, OperatorStep
    PROVE  /\ UNCHANGED <<nodeVars, mutexVars, faults>>
           /\ calls' \in [AllCalls -> CallRecord]
           /\ \/ \E t \in Tokens \ visited :
                    /\ runState = "looping" /\ visited' = visited \cup {t}
                    /\ UNCHANGED <<run, runState>>
                    /\ \/ t \in OnChain /\ UNCHANGED calls
                       \/ /\ t \notin OnChain /\ calls'[CallOf(t)].pc = "new"
                          /\ calls'[CallOf(t)].sub = calls[CallOf(t)].sub
                          /\ \A d \in AllCalls \ {CallOf(t)} : calls'[d] = calls[d]
              \/ resolves
              \/ /\ runState = "looping" /\ visited = Tokens /\ runState' = "halting"
                 /\ \E t \in Tokens : CommitStarted(t) /\ calls[CallOf(t)].pc = "failed"
                 /\ calls'[CallOf(Halting)].pc = "direct"
                 /\ \A d \in AllCalls \ {CallOf(Halting)} : calls'[d] = calls[d]
                 /\ UNCHANGED <<run, visited>>
              \/ nextRun
<1>1. /\ run \in Runs /\ CallOf(Halting) \in AllCalls
      /\ \A t \in Tokens : CallOf(t) \in AllCalls
      /\ {"direct", "new"} \subseteq CommitPlaces \cup DirectPlaces
  BY CallFacts, CallOfFacts DEF SubmissionTypeOK, CommitPlaces, EarlyPlaces, DirectPlaces
<1>2. UNCHANGED calls => calls' \in [AllCalls -> CallRecord]
  BY DEF SubmissionTypeOK
<1>3. ASSUME NEW t \in Tokens, commit(t)
      PROVE  /\ UNCHANGED <<nodeVars, mutexVars, faults>>
             /\ calls' \in [AllCalls -> CallRecord]
             /\ t \notin visited /\ runState = "looping" /\ visited' = visited \cup {t}
             /\ UNCHANGED <<run, runState>>
             /\ \/ t \in OnChain /\ UNCHANGED calls
                \/ /\ t \notin OnChain /\ calls'[CallOf(t)].pc = "new"
                   /\ calls'[CallOf(t)].sub = calls[CallOf(t)].sub
                   /\ \A d \in AllCalls \ {CallOf(t)} : calls'[d] = calls[d]
  <2>1. CASE t \in OnChain
    BY <1>2, <1>3, <2>1 DEF commit
  <2>2. CASE t \notin OnChain
    BY <1>1, <1>3, <2>2, GotoOutcome DEF commit
  <2> QED
    BY <2>1, <2>2
<1>4. CASE resolves
  BY <1>2, <1>4 DEF resolves
<1>5. CASE rejects
  BY <1>1, <1>5, GotoOutcome DEF rejects
<1>6. CASE nextRun
  BY <1>2, <1>6 DEF nextRun
<1> QED
  BY <1>3, <1>4, <1>5, <1>6 DEF OperatorStep

\* The node mines the transaction of the next nonce.
LEMMA MineOutcome ==
    ASSUME SubmissionTypeOK, Mine
    PROVE  \E tx \in pool :
              /\ tx.call \in AllCalls /\ tx.nonce = Len(mined)
              /\ pool' = pool \ {tx} /\ IsFiniteSet(pool')
              /\ mined' \in Seq([call : AllCalls, price : Nat, status : BOOLEAN])
              /\ Len(mined') = Len(mined) + 1
              /\ mined'[Len(mined) + 1].call = tx.call
              /\ mined'[Len(mined) + 1].price = tx.price
              /\ mined'[Len(mined) + 1].status = (tx.call.token \notin OnChain \ {Halting})
              /\ \A i \in 1 .. Len(mined) : mined'[i] = mined[i]
              /\ UNCHANGED <<floor, runVars, mutexVars, calls, faults>>
<1>1. PICK tx \in pool :
         /\ tx.nonce = Len(mined) /\ pool' = pool \ {tx}
         /\ mined' = Append(mined, [call |-> tx.call, price |-> tx.price,
                                    status |-> tx.call.token \notin OnChain \ {Halting}])
         /\ UNCHANGED <<floor, runVars, mutexVars, calls, faults>>
  BY DEF Mine
<1> DEFINE r == [call |-> tx.call, price |-> tx.price,
                 status |-> tx.call.token \notin OnChain \ {Halting}]
<1>2. tx.call \in AllCalls /\ tx.price \in Nat
  BY <1>1 DEF SubmissionTypeOK
<1>3. /\ r \in [call : AllCalls, price : Nat, status : BOOLEAN]
      /\ r.call = tx.call /\ r.price = tx.price
      /\ r.status = (tx.call.token \notin OnChain \ {Halting})
  BY <1>2
<1>4. mined \in Seq([call : AllCalls, price : Nat, status : BOOLEAN]) /\ mined' = Append(mined, r)
  BY <1>1 DEF SubmissionTypeOK
<1>5. IsFiniteSet(pool')
  BY <1>1, FS_RemoveElement DEF SubmissionTypeOK
<1> HIDE DEF r
<1>6. /\ mined' \in Seq([call : AllCalls, price : Nat, status : BOOLEAN])
      /\ Len(mined') = Len(mined) + 1 /\ mined'[Len(mined) + 1] = r
      /\ \A i \in 1 .. Len(mined) : mined'[i] = mined[i]
  BY <1>3, <1>4
<1> QED
  BY <1>1, <1>2, <1>3, <1>5, <1>6

LEMMA TypesAtStart == SubmissionInit => SubmissionTypeOK
<1> SUFFICES ASSUME SubmissionInit PROVE SubmissionTypeOK
  OBVIOUS
<1>1. floor \in Nat /\ pool = {} /\ mined = <<>> /\ run = 1 /\ 1 \in Runs
  BY SubmissionAssumption DEF SubmissionInit, Runs
<1>2. IsFiniteSet(pool)
  BY <1>1, FS_EmptySet
<1>3. BasePrice \in Nat
  BY SubmissionAssumption
<1>4. calls \in [AllCalls -> CallRecord]
  BY <1>3 DEF SubmissionInit, CallRecord, CommitPlaces
<1>5. mined \in Seq([call : AllCalls, price : Nat, status : BOOLEAN])
  BY <1>1
<1>6. faults \in [AllFaults -> Nat] /\ visited \in SUBSET Tokens /\ runState = "looping"
  BY DEF SubmissionInit
<1> QED
  BY <1>1, <1>2, <1>4, <1>5, <1>6 DEF SubmissionTypeOK

LEMMA TypesStep ==
    SubmissionTypeOK /\ PlacesInv /\ MutexInv /\ [SubmissionNext]_submissionVars
        => SubmissionTypeOK'
<1> SUFFICES ASSUME SubmissionTypeOK, PlacesInv, MutexInv, [SubmissionNext]_submissionVars
             PROVE  SubmissionTypeOK'
  OBVIOUS
<1>1. CASE Mine
  BY <1>1, MineOutcome DEF SubmissionTypeOK, runVars
<1>2. CASE resumeNonce
  BY <1>2, ResumeOutcome DEF SubmissionTypeOK, nodeVars, runVars, Moves
<1>3. CASE OperatorStep
  <2>1. UNCHANGED <<nodeVars, faults>> /\ calls' \in [AllCalls -> CallRecord]
    BY <1>3, OperatorOutcome
  <2>2. /\ run' \in Runs /\ runState' \in {"looping", "halting", "resolved", "ended"}
        /\ visited' \in SUBSET Tokens
    <3>1. run \in Runs /\ runState \in {"looping", "halting", "resolved", "ended"}
          /\ visited \in SUBSET Tokens
      BY DEF SubmissionTypeOK
    <3>2. CASE nextRun
      BY <3>1, <3>2, SubmissionAssumption DEF nextRun, Runs
    <3>3. CASE ~nextRun
      BY <1>3, <3>1, <3>3, OperatorOutcome DEF resolves
    <3> QED
      BY <3>2, <3>3
  <2> QED
    BY <2>1, <2>2 DEF SubmissionTypeOK, nodeVars
<1>4. ASSUME NEW c \in Calls, CommitStep(c) PROVE SubmissionTypeOK'
  <2>1. CASE lockNonce(c)
    BY <2>1, LockOutcome DEF SubmissionTypeOK, nodeVars, runVars, Moves
  <2>2. CASE getTransactionCount(c)
    BY <2>2, CountOutcome DEF SubmissionTypeOK, nodeVars, runVars, Moves
  <2>3. CASE newTx(c)
    BY <2>3, NewOutcome DEF SubmissionTypeOK, runVars, Moves
  <2>4. CASE retryTx(c)
    BY <2>4, RetryOutcome DEF SubmissionTypeOK, runVars, Moves
  <2>5. CASE pollForMining(c)
    BY <2>5, PollOutcome DEF SubmissionTypeOK, nodeVars, runVars, Moves
  <2> QED
    BY <1>4, <2>1, <2>2, <2>3, <2>4, <2>5 DEF CommitStep
<1>5. ASSUME NEW h \in HaltCalls, DirectStep(h) PROVE SubmissionTypeOK'
  <2>1. calls' \in [AllCalls -> CallRecord]
    BY <1>5, DirectOutcome DEF Moves
  <2> QED
    BY <1>5, <2>1, DirectOutcome DEF SubmissionTypeOK, runVars
<1>6. CASE UNCHANGED submissionVars
  BY <1>6 DEF SubmissionTypeOK, submissionVars, nodeVars, runVars
<1> QED
  BY <1>1, <1>2, <1>3, <1>4, <1>5, <1>6 DEF SubmissionNext

-----------------------------------------------------------------------------
(* Which call can be where. *)

LEMMA PlacesAtStart == SubmissionInit => PlacesInv
BY CallFacts, CallOfFacts, SubmissionAssumption, TypesAtStart
   DEF SubmissionInit, MutexInit, PlacesInv, CommitPlaces, DirectPlaces, SubmissionTypeOK, EarlyPlaces

\* A call that has begun moves on, and the mutex with it.
LEMMA PlacesMove ==
    ASSUME SubmissionTypeOK, PlacesInv, NEW c \in AllCalls, NEW from, NEW to,
           Moves(c, from, to), "idle" \notin from,
           c \in Calls => to \subseteq CommitPlaces,
           c \in HaltCalls => to \subseteq DirectPlaces,
           UNCHANGED runVars,
           \A d \in Calls \ {c} : state'[d] = state[d],
           c \in Calls => /\ state'[c] = "in" <=> calls'[c].pc \in {"asking", "sending"}
                          /\ state'[c] = "waiting" <=> calls'[c].pc = "locking"
    PROVE  PlacesInv'
<1>1. /\ run' = run /\ runState' = runState /\ visited' = visited /\ run \in Runs
      /\ calls[c].pc # "idle" /\ calls'[c].pc \in to
      /\ \A d \in AllCalls \ {c} : calls'[d] = calls[d]
      /\ visited \subseteq Tokens
  BY DEF runVars, SubmissionTypeOK, Moves
<1>2. \A t \in Tokens \cup {Halting} : CallOf(t)' = CallOf(t)
  BY <1>1 DEF CallOf
<1>3. (\A d \in Calls : calls[d].pc \in CommitPlaces)'
  BY <1>1, CallFacts DEF PlacesInv
<1>4. (\A d \in HaltCalls : calls[d].pc \in DirectPlaces)'
  BY <1>1, CallFacts DEF PlacesInv
<1>5. (\A d \in AllCalls : d.run > run => calls[d].pc = "idle")'
  BY <1>1 DEF PlacesInv
<1>6. (\A t \in Tokens \ visited : calls[CallOf(t)].pc = "idle")'
  <2>1. ASSUME NEW t \in Tokens, t \notin visited PROVE calls'[CallOf(t)].pc = "idle"
    <3>1. CallOf(t) \in AllCalls /\ calls[CallOf(t)].pc = "idle"
      BY <1>1, <2>1, CallFacts, CallOfFacts DEF PlacesInv
    <3> QED
      BY <1>1, <3>1
  <2> QED
    BY <1>1, <1>2, <2>1
<1>7. (runState = "looping" => calls[CallOf(Halting)].pc = "idle")'
  <2>1. CallOf(Halting) \in AllCalls
    BY <1>1, CallFacts, CallOfFacts
  <2> QED
    BY <1>1, <1>2, <2>1 DEF PlacesInv
<1>8. (runState # "looping" => visited = Tokens)'
  BY <1>1 DEF PlacesInv
<1>9. (\A d \in Calls : /\ state[d] = "in" <=> calls[d].pc \in {"asking", "sending"}
                        /\ state[d] = "waiting" <=> calls[d].pc = "locking")'
  BY <1>1, CallFacts DEF PlacesInv
<1> QED
  BY <1>3, <1>4, <1>5, <1>6, <1>7, <1>8, <1>9 DEF PlacesInv

\* The loop starts the calls of its own run, and the next run those of the next.
LEMMA PlacesRun ==
    ASSUME SubmissionTypeOK, PlacesInv, MutexInv, OperatorStep PROVE PlacesInv'
<1>1. /\ run \in Runs /\ visited \subseteq Tokens /\ state' = state
      /\ \A t \in Tokens : CallOf(t) \in Calls /\ CallOf(t) \in AllCalls
                              /\ CallOf(t).token = t /\ CallOf(t).run = run
      /\ CallOf(Halting) \in HaltCalls /\ CallOf(Halting) \in AllCalls
      /\ CallOf(Halting).run = run
      /\ run \in Nat
  BY CallFacts, CallOfFacts, OperatorOutcome, SubmissionAssumption
     DEF SubmissionTypeOK, mutexVars, Runs
<1>2. ASSUME NEW c \in AllCalls, UNCHANGED run, c.run = run,
             \A d \in AllCalls \ {c} : calls'[d] = calls[d],
             c \in Calls => calls[c].pc = "idle" /\ calls'[c].pc = "new",
             c \in HaltCalls => calls'[c].pc = "direct"
      PROVE  /\ (\A d \in Calls : calls[d].pc \in CommitPlaces)'
             /\ (\A d \in HaltCalls : calls[d].pc \in DirectPlaces)'
             /\ (\A d \in AllCalls : d.run > run => calls[d].pc = "idle")'
             /\ (\A d \in Calls : /\ state[d] = "in" <=> calls[d].pc \in {"asking", "sending"}
                                  /\ state[d] = "waiting" <=> calls[d].pc = "locking")'
  <2>1. (\A d \in Calls : calls[d].pc \in CommitPlaces)'
    BY <1>2, CallFacts DEF PlacesInv, CommitPlaces, EarlyPlaces
  <2>2. (\A d \in HaltCalls : calls[d].pc \in DirectPlaces)'
    BY <1>2, CallFacts DEF PlacesInv, DirectPlaces
  <2>3. (\A d \in AllCalls : d.run > run => calls[d].pc = "idle")'
    BY <1>1, <1>2 DEF PlacesInv
  <2>4. ASSUME NEW d \in Calls
        PROVE  /\ state'[d] = "in" <=> calls'[d].pc \in {"asking", "sending"}
               /\ state'[d] = "waiting" <=> calls'[d].pc = "locking"
    <3>1. CASE d = c
      BY <1>1, <1>2, <2>4, <3>1 DEF PlacesInv
    <3>2. CASE d # c
      BY <1>1, <1>2, <2>4, <3>2, CallFacts DEF PlacesInv
    <3> QED
      BY <3>1, <3>2
  <2> QED
    BY <2>1, <2>2, <2>3, <2>4
<1>3. ASSUME NEW t \in Tokens \ visited, runState = "looping", visited' = visited \cup {t},
             UNCHANGED <<run, runState>>,
             \/ UNCHANGED calls
             \/ /\ calls'[CallOf(t)].pc = "new"
                /\ \A d \in AllCalls \ {CallOf(t)} : calls'[d] = calls[d]
      PROVE  PlacesInv'
  <2>1. \A u \in Tokens \cup {Halting} : CallOf(u)' = CallOf(u)
    BY <1>3 DEF CallOf
  <2>2. \A u \in Tokens \ visited : calls[CallOf(u)].pc = "idle"
    BY DEF PlacesInv
  <2>3. calls[CallOf(Halting)].pc = "idle"
    BY <1>3 DEF PlacesInv
  <2>4. /\ (\A u \in Tokens \ visited : calls[CallOf(u)].pc = "idle")'
        /\ (runState = "looping" => calls[CallOf(Halting)].pc = "idle")'
        /\ (runState # "looping" => visited = Tokens)'
    <3>1. ASSUME NEW u \in Tokens, u \notin visited' PROVE calls'[CallOf(u)].pc = "idle"
      <4>1. u \notin visited /\ u # t
        BY <1>3, <3>1
      <4>2. CallOf(u) # CallOf(t) /\ CallOf(u) \in AllCalls
        BY <1>1, <4>1
      <4> QED
        BY <1>3, <2>2, <4>1, <4>2
    <3>2. CallOf(Halting) # CallOf(t)
      BY <1>1, CallFacts
    <3>3. calls'[CallOf(Halting)].pc = "idle"
      BY <1>1, <1>3, <2>3, <3>2
    <3> QED
      BY <1>3, <2>1, <3>1, <3>3
  <2>5. CASE UNCHANGED calls
    BY <1>1, <1>3, <2>4, <2>5 DEF PlacesInv
  <2>6. CASE ~UNCHANGED calls
    <3>1. /\ calls'[CallOf(t)].pc = "new" /\ calls[CallOf(t)].pc = "idle"
          /\ \A d \in AllCalls \ {CallOf(t)} : calls'[d] = calls[d]
          /\ CallOf(t) \notin HaltCalls
      BY <1>1, <1>3, <2>2, <2>6, CallFacts
    <3> QED
      BY <1>1, <1>2, <1>3, <2>4, <3>1 DEF PlacesInv
  <2> QED
    BY <2>5, <2>6
<1>4. CASE resolves
  <2>1. /\ run' = run /\ visited' = visited /\ calls' = calls
        /\ runState' = "resolved" /\ visited = Tokens
    BY <1>4 DEF resolves
  <2> QED
    BY <1>1, <2>1 DEF PlacesInv, CallOf
<1>5. ASSUME runState' = "halting", visited = Tokens, calls'[CallOf(Halting)].pc = "direct",
             \A d \in AllCalls \ {CallOf(Halting)} : calls'[d] = calls[d],
             UNCHANGED <<run, visited>>
      PROVE  PlacesInv'
  <2>1. CallOf(Halting) \notin Calls
    BY <1>1, CallFacts
  <2>2. (\A u \in Tokens \ visited : calls[CallOf(u)].pc = "idle")'
    BY <1>5
  <2> QED
    BY <1>1, <1>2, <1>5, <2>1, <2>2 DEF PlacesInv
<1>6. CASE nextRun
  <2>1. calls' = calls
    BY <1>6 DEF nextRun
  <2>2. CASE run < MaxRuns
    <3>1. run' = run + 1 /\ runState' = "looping" /\ visited' = {} /\ run' \in Runs
      BY <1>1, <1>6, <2>2, SubmissionAssumption DEF nextRun, Runs
    <3>2. \A d \in AllCalls : d.run \in Nat
      BY CallFacts DEF Runs
    <3>3. /\ \A t \in Tokens : CallOf(t)' \in AllCalls /\ CallOf(t)'.run = run + 1
          /\ CallOf(Halting)' \in AllCalls /\ CallOf(Halting)'.run = run + 1
      BY <3>1 DEF CallOf, AllCalls, Calls, HaltCalls
    <3>4. \A d \in AllCalls : d.run = run + 1 => calls[d].pc = "idle"
      BY <1>1 DEF PlacesInv
    <3>5. (\A d \in AllCalls : d.run > run => calls[d].pc = "idle")'
      BY <1>1, <2>1, <3>1, <3>2 DEF PlacesInv
    <3>6. /\ (\A u \in Tokens \ visited : calls[CallOf(u)].pc = "idle")'
          /\ (runState = "looping" => calls[CallOf(Halting)].pc = "idle")'
      BY <2>1, <3>3, <3>4
    <3> QED
      BY <1>1, <2>1, <3>1, <3>5, <3>6 DEF PlacesInv
  <2>3. CASE ~(run < MaxRuns)
    <3>1. run' = run /\ runState' = "ended" /\ visited' = visited /\ runState = "halting"
      BY <1>6, <2>3 DEF nextRun
    <3> QED
      BY <1>1, <2>1, <3>1 DEF PlacesInv, CallOf
  <2> QED
    BY <2>2, <2>3
<1> QED
  BY <1>3, <1>4, <1>5, <1>6, OperatorOutcome

LEMMA PlacesStep ==
    SubmissionTypeOK /\ PlacesInv /\ MutexInv /\ [SubmissionNext]_submissionVars => PlacesInv'
<1> SUFFICES ASSUME SubmissionTypeOK, PlacesInv, MutexInv, [SubmissionNext]_submissionVars
             PROVE  PlacesInv'
  OBVIOUS
<1>1. /\ Calls = Callers /\ state \in [Callers -> {"out", "waiting", "in"}]
      /\ {"new", "locking", "asking", "sending", "polling", "retrying", "returned", "failed"}
            \subseteq CommitPlaces
      /\ {"directSending", "waiting", "returned", "failed"} \subseteq DirectPlaces
  BY SubmissionAssumption DEF MutexInv, MutexTypeOK, CommitPlaces, EarlyPlaces, LatePlaces,
                              DirectPlaces
<1>2. ASSUME NEW c \in Calls, TryLock(c)
      PROVE  /\ \A d \in Calls \ {c} : state'[d] = state[d]
             /\ state'[c] \in {"in", "waiting"}
  BY <1>1, <1>2 DEF TryLock
<1>3. CASE Mine \/ UNCHANGED submissionVars
  <2>1. UNCHANGED <<runVars, calls, state>>
    BY <1>3, MineOutcome DEF submissionVars, mutexVars, runVars
  <2> QED
    BY <2>1 DEF PlacesInv, runVars, CallOf
<1>4. CASE resumeNonce
  <2>1. PICK c \in Calls :
              /\ TryLock(c) /\ Moves(c, {"locking"}, {"asking", "locking"})
              /\ calls'[c].pc = "asking" <=> state'[c] = "in"
              /\ UNCHANGED runVars
    BY <1>4, ResumeOutcome
  <2>2. /\ c \in AllCalls /\ c \notin HaltCalls /\ calls'[c].pc \in {"asking", "locking"}
    BY <2>1, CallFacts DEF Moves
  <2>3. /\ state'[c] = "in" <=> calls'[c].pc \in {"asking", "sending"}
        /\ state'[c] = "waiting" <=> calls'[c].pc = "locking"
    BY <1>2, <2>1, <2>2
  <2> QED
    BY <1>1, <1>2, <2>1, <2>2, <2>3, PlacesMove
<1>5. CASE OperatorStep
  BY <1>5, PlacesRun
<1>6. ASSUME NEW c \in Calls, CommitStep(c) PROVE PlacesInv'
  <2>1. c \in AllCalls /\ c \notin HaltCalls
    BY CallFacts
  <2>2. CASE lockNonce(c)
    <3>1. /\ Moves(c, {"new"}, {"asking", "locking"}) /\ TryLock(c) /\ UNCHANGED runVars
          /\ calls'[c].pc = "asking" <=> state'[c] = "in"
      BY <2>2, LockOutcome DEF lockAsync
    <3>2. /\ state'[c] = "in" <=> calls'[c].pc \in {"asking", "sending"}
          /\ state'[c] = "waiting" <=> calls'[c].pc = "locking"
      BY <1>2, <3>1 DEF Moves
    <3> QED
      BY <1>1, <1>2, <2>1, <3>1, <3>2, PlacesMove
  <2>3. CASE getTransactionCount(c)
    <3>1. Moves(c, {"asking"}, {"sending"}) /\ UNCHANGED runVars /\ state' = state
      BY <2>3, CountOutcome DEF mutexVars
    <3>2. /\ state'[c] = "in" <=> calls'[c].pc \in {"asking", "sending"}
          /\ state'[c] = "waiting" <=> calls'[c].pc = "locking"
      BY <3>1 DEF Moves, PlacesInv
    <3> QED
      BY <1>1, <2>1, <3>1, <3>2, PlacesMove
  <2>4. CASE newTx(c)
    <3>1. Moves(c, {"sending"}, {"polling", "new", "failed"}) /\ UNCHANGED runVars /\ unlock(c)
      BY <2>4, NewOutcome
    <3>2. state'[c] = "out" /\ \A d \in Calls \ {c} : state'[d] = state[d]
      BY <1>1, <3>1 DEF unlock
    <3>3. /\ state'[c] = "in" <=> calls'[c].pc \in {"asking", "sending"}
          /\ state'[c] = "waiting" <=> calls'[c].pc = "locking"
      BY <3>1, <3>2 DEF Moves
    <3> QED
      BY <1>1, <2>1, <3>1, <3>2, <3>3, PlacesMove
  <2>5. CASE retryTx(c)
    <3>1. /\ Moves(c, {"retrying"}, {"polling", "retrying", "failed"})
          /\ UNCHANGED runVars /\ state' = state
      BY <2>5, RetryOutcome DEF mutexVars
    <3>2. /\ state'[c] = "in" <=> calls'[c].pc \in {"asking", "sending"}
          /\ state'[c] = "waiting" <=> calls'[c].pc = "locking"
      BY <3>1 DEF Moves, PlacesInv
    <3> QED
      BY <1>1, <2>1, <3>1, <3>2, PlacesMove
  <2>6. CASE pollForMining(c)
    <3>1. /\ Moves(c, {"polling"}, {"returned", "retrying", "failed"})
          /\ UNCHANGED runVars /\ state' = state
      BY <2>6, PollOutcome DEF mutexVars
    <3>2. /\ state'[c] = "in" <=> calls'[c].pc \in {"asking", "sending"}
          /\ state'[c] = "waiting" <=> calls'[c].pc = "locking"
      BY <3>1 DEF Moves, PlacesInv
    <3> QED
      BY <1>1, <2>1, <3>1, <3>2, PlacesMove
  <2> QED
    BY <1>6, <2>2, <2>3, <2>4, <2>5, <2>6 DEF CommitStep
<1>7. ASSUME NEW h \in HaltCalls, DirectStep(h) PROVE PlacesInv'
  <2>1. h \in AllCalls /\ h \notin Calls
    BY CallFacts
  <2>2. PICK from \in {{"direct"}, {"directSending"}, {"waiting"}},
             to \in {{"directSending"}, {"waiting"}, {"failed"}, {"returned"}} : Moves(h, from, to)
    BY <1>7, DirectOutcome
  <2>3. UNCHANGED runVars /\ state' = state
    BY <1>7, DirectOutcome DEF mutexVars
  <2>4. "idle" \notin from /\ to \subseteq DirectPlaces
    BY <1>1, <2>2
  <2> QED
    BY <2>1, <2>2, <2>3, <2>4, PlacesMove
<1> QED
  BY <1>3, <1>4, <1>5, <1>6, <1>7 DEF SubmissionNext

-----------------------------------------------------------------------------
(* What is reported. *)

\* What is mined stays mined.
LEMMA MinedGrows ==
    ASSUME SubmissionTypeOK, PlacesInv, MutexInv, [SubmissionNext]_submissionVars
    PROVE  /\ \A i \in DOMAIN mined : i \in DOMAIN mined' /\ mined'[i] = mined[i]
           /\ OnChain \subseteq OnChain'
<1>1. UNCHANGED mined \/ Mine
  <2>1. ASSUME NEW c \in Calls, CommitStep(c) PROVE UNCHANGED mined
    BY <2>1 DEF CommitStep, lockNonce, getTransactionCount, newTx, retryTx, pollForMining, nodeVars
  <2>2. ASSUME NEW h \in HaltCalls, DirectStep(h) PROVE UNCHANGED mined
    BY <2>2 DEF DirectStep, askNonce, sendDirectly, waitForMining, nodeVars
  <2>3. OperatorStep => UNCHANGED mined
    BY OperatorOutcome DEF nodeVars
  <2>4. resumeNonce \/ UNCHANGED submissionVars => UNCHANGED mined
    BY DEF resumeNonce, submissionVars, nodeVars
  <2> QED
    BY <2>1, <2>2, <2>3, <2>4 DEF SubmissionNext
<1>2. \A i \in DOMAIN mined : i \in DOMAIN mined' /\ mined'[i] = mined[i]
  <2>1. CASE Mine
    <3>1. /\ mined' \in Seq([call : AllCalls, price : Nat, status : BOOLEAN])
          /\ Len(mined') = Len(mined) + 1
          /\ \A i \in 1 .. Len(mined) : mined'[i] = mined[i]
      BY <2>1, MineOutcome
    <3>2. mined \in Seq([call : AllCalls, price : Nat, status : BOOLEAN])
      BY DEF SubmissionTypeOK
    <3>3. /\ DOMAIN mined = 1 .. Len(mined) /\ DOMAIN mined' = 1 .. Len(mined')
          /\ Len(mined) \in Nat
      BY <3>1, <3>2
    <3> QED
      BY <3>1, <3>3
  <2> QED
    BY <1>1, <2>1
<1> QED
  BY <1>2 DEF OnChain

\* A call that has begun has begun for good, and one returns on a receipt of success.
LEMMA CallsGoOn ==
    ASSUME SubmissionTypeOK, PlacesInv, MutexInv, [SubmissionNext]_submissionVars
    PROVE  /\ \A c \in AllCalls : calls[c].pc # "idle" => calls'[c].pc # "idle"
           /\ \A c \in Calls : calls'[c].pc = "returned" =>
                 calls[c].pc = "returned" \/ (HasReceipt(c) /\ Succeeded(c))
<1>1. ASSUME NEW c \in AllCalls, NEW from, NEW to, Moves(c, from, to), "idle" \notin to,
             c \in Calls /\ "returned" \in to /\ calls'[c].pc = "returned"
                => HasReceipt(c) /\ Succeeded(c)
      PROVE  /\ \A d \in AllCalls : calls[d].pc # "idle" => calls'[d].pc # "idle"
             /\ \A d \in Calls : calls'[d].pc = "returned" =>
                   calls[d].pc = "returned" \/ (HasReceipt(d) /\ Succeeded(d))
  <2>1. calls'[c].pc \in to /\ \A d \in AllCalls \ {c} : calls'[d] = calls[d]
    BY <1>1 DEF Moves
  <2>2. ASSUME NEW d \in Calls, calls'[d].pc = "returned"
        PROVE  calls[d].pc = "returned" \/ (HasReceipt(d) /\ Succeeded(d))
    <3>1. CASE d = c
      BY <1>1, <2>1, <2>2, <3>1
    <3>2. CASE d # c
      BY <2>1, <2>2, <3>2, CallFacts
    <3> QED
      BY <3>1, <3>2
  <2> QED
    BY <1>1, <2>1, <2>2
<1>2. ASSUME NEW c \in Calls, CommitStep(c)
      PROVE  \E from, to : /\ Moves(c, from, to) /\ "idle" \notin to
                           /\ "returned" \in to /\ calls'[c].pc = "returned"
                                => HasReceipt(c) /\ Succeeded(c)
  <2>1. CASE lockNonce(c)
    <3>1. Moves(c, {"new"}, {"asking", "locking"})
      BY <2>1, LockOutcome
    <3> QED
      BY <3>1
  <2>2. CASE getTransactionCount(c)
    <3>1. Moves(c, {"asking"}, {"sending"})
      BY <2>2, CountOutcome
    <3> QED
      BY <3>1
  <2>3. CASE newTx(c)
    <3>1. Moves(c, {"sending"}, {"polling", "new", "failed"})
      BY <2>3, NewOutcome
    <3> QED
      BY <3>1
  <2>4. CASE retryTx(c)
    <3>1. Moves(c, {"retrying"}, {"polling", "retrying", "failed"})
      BY <2>4, RetryOutcome
    <3> QED
      BY <3>1
  <2>5. CASE pollForMining(c)
    <3>1. Moves(c, {"polling"}, {"returned", "retrying", "failed"})
      BY <2>5, PollOutcome
    <3>2. calls'[c].pc = "returned" => HasReceipt(c) /\ Succeeded(c)
      BY <2>5, PollOutcome
    <3> QED
      BY <3>1, <3>2
  <2> QED
    BY <1>2, <2>1, <2>2, <2>3, <2>4, <2>5 DEF CommitStep
<1>3. CASE \E c \in Calls : CommitStep(c)
  <2>1. PICK c \in Calls : CommitStep(c)
    BY <1>3
  <2>2. PICK from, to : /\ Moves(c, from, to) /\ "idle" \notin to
                        /\ "returned" \in to /\ calls'[c].pc = "returned"
                             => HasReceipt(c) /\ Succeeded(c)
    BY <1>2, <2>1
  <2>3. c \in AllCalls
    BY CallFacts
  <2> QED
    BY <1>1, <2>2, <2>3
<1>4. CASE resumeNonce
  <2>1. PICK c \in Calls : Moves(c, {"locking"}, {"asking", "locking"})
    BY <1>4, ResumeOutcome
  <2>2. c \in AllCalls
    BY CallFacts
  <2> QED
    BY <1>1, <2>1, <2>2
<1>5. ASSUME NEW h \in HaltCalls, DirectStep(h)
      PROVE  /\ \A d \in AllCalls : calls[d].pc # "idle" => calls'[d].pc # "idle"
             /\ \A d \in Calls : calls'[d].pc = "returned" =>
                   calls[d].pc = "returned" \/ (HasReceipt(d) /\ Succeeded(d))
  <2>1. h \in AllCalls /\ h \notin Calls
    BY CallFacts
  <2>2. PICK from, to : Moves(h, from, to) /\ "idle" \notin to
    <3>1. \/ Moves(h, {"direct"}, {"directSending"}) \/ Moves(h, {"directSending"}, {"waiting"})
          \/ Moves(h, {"directSending"}, {"failed"}) \/ Moves(h, {"waiting"}, {"returned"})
      BY <1>5, DirectOutcome
    <3> QED
      BY <3>1
  <2> QED
    BY <1>1, <2>1, <2>2
<1>6. CASE OperatorStep
  <2>1. \/ calls' = calls
        \/ \E c \in AllCalls : /\ calls'[c].pc \in {"new", "direct"}
                               /\ \A d \in AllCalls \ {c} : calls'[d] = calls[d]
    <3>1. /\ CallOf(Halting) \in AllCalls /\ \A t \in Tokens : CallOf(t) \in AllCalls
      BY CallFacts, CallOfFacts DEF SubmissionTypeOK
    <3>2. resolves \/ nextRun => calls' = calls
      BY DEF resolves, nextRun
    <3> QED
      BY <1>6, <3>1, <3>2, OperatorOutcome
  <2> QED
    BY <2>1, CallFacts
<1>7. CASE Mine \/ UNCHANGED submissionVars
  <2>1. calls' = calls
    BY <1>7, MineOutcome DEF submissionVars
  <2> QED
    BY <2>1
<1> QED
  BY <1>3, <1>4, <1>5, <1>6, <1>7 DEF SubmissionNext

\* All commits of a round are started or on the chain, ...
LEMMA VisitedStep ==
    SubmissionTypeOK /\ PlacesInv /\ MutexInv /\ VisitedInv /\ [SubmissionNext]_submissionVars
        => VisitedInv'
<1> SUFFICES ASSUME SubmissionTypeOK, PlacesInv, MutexInv, VisitedInv,
                    [SubmissionNext]_submissionVars
             PROVE  VisitedInv'
  OBVIOUS
<1>1. /\ OnChain \subseteq OnChain'
      /\ \A c \in AllCalls : calls[c].pc # "idle" => calls'[c].pc # "idle"
      /\ run \in Runs /\ visited \subseteq Tokens
  BY MinedGrows, CallsGoOn DEF SubmissionTypeOK
<1>2. ASSUME UNCHANGED run, NEW t \in visited PROVE CommitStarted(t)' \/ t \in OnChain'
  BY <1>1, <1>2 DEF VisitedInv, CommitStarted, CallOf
<1>3. CASE UNCHANGED <<run, visited>>
  BY <1>2, <1>3 DEF VisitedInv
<1>4. CASE OperatorStep
  <2>1. ASSUME NEW t \in Tokens \ visited, UNCHANGED run, visited' = visited \cup {t},
               \/ t \in OnChain /\ UNCHANGED calls
               \/ calls'[CallOf(t)].pc = "new"
        PROVE  VisitedInv'
    <3>1. CallOf(t)' = CallOf(t) /\ CallOf(t) \in AllCalls
      BY <1>1, <2>1, CallFacts, CallOfFacts DEF CallOf
    <3>2. CommitStarted(t)' \/ t \in OnChain'
      BY <1>1, <2>1, <3>1 DEF CommitStarted
    <3> QED
      BY <1>2, <2>1, <3>2 DEF VisitedInv
  <2>2. resolves => UNCHANGED <<run, visited>>
    BY DEF resolves
  <2>3. nextRun => UNCHANGED <<run, visited>> \/ visited' = {}
    BY DEF nextRun
  <2>4. visited' = {} => VisitedInv'
    BY DEF VisitedInv
  <2> QED
    BY <1>3, <1>4, <2>1, <2>2, <2>3, <2>4, OperatorOutcome
<1>5. ASSUME NEW c \in Calls, CommitStep(c) PROVE UNCHANGED <<run, visited>>
  BY <1>5 DEF CommitStep, lockNonce, getTransactionCount, newTx, retryTx, pollForMining, runVars
<1>6. ASSUME NEW h \in HaltCalls, DirectStep(h) PROVE UNCHANGED <<run, visited>>
  BY <1>6 DEF DirectStep, askNonce, sendDirectly, waitForMining, runVars
<1>7. Mine \/ resumeNonce \/ UNCHANGED submissionVars => UNCHANGED <<run, visited>>
  BY DEF Mine, resumeNonce, submissionVars, runVars
<1> QED
  BY <1>3, <1>4, <1>5, <1>6, <1>7 DEF SubmissionNext

\* ... so that what is reported is there.
LEMMA ReportsStep ==
    SubmissionTypeOK /\ PlacesInv /\ MutexInv /\ VisitedInv /\ ReportsAreTrue
        /\ [SubmissionNext]_submissionVars => ReportsAreTrue'
<1> SUFFICES ASSUME SubmissionTypeOK, PlacesInv, MutexInv, VisitedInv, ReportsAreTrue,
                    [SubmissionNext]_submissionVars
             PROVE  ReportsAreTrue'
  OBVIOUS
<1>1. /\ \A i \in DOMAIN mined : i \in DOMAIN mined' /\ mined'[i] = mined[i]
      /\ OnChain \subseteq OnChain'
      /\ run \in Runs /\ visited \subseteq Tokens
      /\ mined \in Seq([call : AllCalls, price : Nat, status : BOOLEAN])
      /\ calls \in [AllCalls -> CallRecord]
  BY MinedGrows DEF SubmissionTypeOK
<1>2. ReturnsForItsOwn'
  <2>1. ASSUME NEW c \in Calls, calls'[c].pc = "returned"
        PROVE  \E i \in DOMAIN mined' : mined'[i].call = c /\ mined'[i].status
    <3>1. CASE calls[c].pc = "returned"
      <4>1. PICK i \in DOMAIN mined : mined[i].call = c /\ mined[i].status
        BY <3>1 DEF ReportsAreTrue, ReturnsForItsOwn
      <4> QED
        BY <1>1, <4>1
    <3>2. CASE HasReceipt(c) /\ Succeeded(c)
      <4> DEFINE i == calls[c].nonce + 1
      <4>1. calls[c].nonce \in Nat
        BY <1>1, CallFacts DEF CallRecord
      <4>2. i \in DOMAIN mined
        BY <1>1, <3>2, <4>1 DEF HasReceipt
      <4>3. mined[i].call = c /\ mined[i].status
        BY <3>2 DEF HasReceipt, Succeeded
      <4> HIDE DEF i
      <4> QED
        BY <1>1, <4>2, <4>3
    <3> QED
      BY <2>1, <3>1, <3>2, CallsGoOn
  <2> QED
    BY <2>1 DEF ReturnsForItsOwn
<1>3. resolves => Tokens \subseteq OnChain
  <2> SUFFICES ASSUME resolves, NEW t \in Tokens, t \notin OnChain PROVE FALSE
    OBVIOUS
  <2>1. CommitStarted(t) /\ calls[CallOf(t)].pc = "returned" /\ CallOf(t) \in Calls
        /\ CallOf(t).token = t
    BY <1>1, CallOfFacts DEF VisitedInv, resolves
  <2>2. PICK i \in DOMAIN mined : mined[i].call = CallOf(t) /\ mined[i].status
    BY <2>1 DEF ReportsAreTrue, ReturnsForItsOwn
  <2> QED
    BY <2>1, <2>2 DEF OnChain
<1>4. runState' = "resolved" => runState = "resolved" \/ resolves
  <2>1. ASSUME NEW c \in Calls, CommitStep(c) PROVE UNCHANGED runState
    BY <2>1 DEF CommitStep, lockNonce, getTransactionCount, newTx, retryTx, pollForMining, runVars
  <2>2. ASSUME NEW h \in HaltCalls, DirectStep(h) PROVE UNCHANGED runState
    BY <2>2 DEF DirectStep, askNonce, sendDirectly, waitForMining, runVars
  <2>3. Mine \/ resumeNonce \/ UNCHANGED submissionVars => UNCHANGED runState
    BY DEF Mine, resumeNonce, submissionVars, runVars
  <2>4. OperatorStep => resolves \/ runState' = runState \/ runState' # "resolved"
    BY DEF OperatorStep, commit, rejects, nextRun
  <2> QED
    BY <2>1, <2>2, <2>3, <2>4 DEF SubmissionNext
<1>5. DoneIsCommitted'
  BY <1>1, <1>3, <1>4 DEF DoneIsCommitted, ReportsAreTrue
<1> QED
  BY <1>2, <1>5 DEF ReportsAreTrue

-----------------------------------------------------------------------------
(* The nonces. *)

\* The transactions of a call, pending and mined, are told by their nonces.
NonceOf(c, nonce) == calls[c].pc \in LatePlaces /\ nonce = calls[c].nonce

LEMMA OwnTransactions ==
    ASSUME NEW c PROVE
    /\ \A tx \in pool : tx.call = c => tx \in TransactionsOf(c)
    /\ \A i \in DOMAIN mined : mined[i].call = c => Tx(c, i - 1, mined[i].price) \in TransactionsOf(c)
    /\ \A tx \in TransactionsOf(c) :
          \/ tx \in pool /\ tx.call = c
          \/ \E i \in DOMAIN mined : mined[i].call = c /\ tx = Tx(c, i - 1, mined[i].price)
BY DEF TransactionsOf

LEMMA NonceFacts ==
    ASSUME NonceInv, faults.lost = 0, NEW c \in Calls
    PROVE  /\ \A tx \in pool : tx.call = c => NonceOf(c, tx.nonce)
           /\ \A i \in DOMAIN mined : mined[i].call = c => NonceOf(c, i - 1)
<1>1. \A tx \in TransactionsOf(c) : NonceOf(c, tx.nonce)
  BY DEF NonceInv, NonceOf
<1>2. \A i \in DOMAIN mined : Tx(c, i - 1, mined[i].price).nonce = i - 1
  BY DEF Tx
<1> QED
  BY <1>1, <1>2, OwnTransactions

LEMMA NonceGoal ==
    ASSUME faults'.lost = 0 => \A c \in Calls :
              /\ \A tx \in pool' : tx.call = c => NonceOf(c, tx.nonce)'
              /\ \A i \in DOMAIN mined' : mined'[i].call = c => NonceOf(c, i - 1)'
    PROVE  NonceInv'
BY DEF NonceInv, NonceOf, TransactionsOf, Tx

\* What receiving a transaction adds and drops.
LEMMA ReceivedOnly ==
    ASSUME NEW c \in AllCalls, NEW nonce, NEW price, Receive(Tx(c, nonce, price))
    PROVE  /\ \A tx \in pool' : tx \in pool \/ (tx.call = c /\ tx.nonce = nonce)
           /\ Tx(c, nonce, price) \in pool'
           /\ Tx(c, nonce, price).call = c /\ Tx(c, nonce, price).nonce = nonce
           /\ Tx(c, nonce, price).price = price
           /\ \A tx \in pool' : tx.nonce = nonce => tx = Tx(c, nonce, price)
           /\ \A tx \in pool : tx.nonce # nonce => tx \in pool'
BY DEF Receive, Tx

\* A move of one call, that sends nothing or a transaction of its last nonce.
LEMMA NonceMove ==
    ASSUME SubmissionTypeOK, NonceInv, NEW c \in AllCalls, NEW from, NEW to, Moves(c, from, to),
           faults.lost = 0, UNCHANGED mined,
           \/ UNCHANGED pool /\ calls'[c].nonce = calls[c].nonce
           \/ UNCHANGED pool /\ from \cap LatePlaces = {}
           \/ \E price : Receive(Tx(c, calls'[c].nonce, price)) /\ to \subseteq LatePlaces
                            /\ calls'[c].nonce = calls[c].nonce
           \/ c \notin Calls /\ UNCHANGED pool
           \/ c \notin Calls /\ \E nonce, price : Receive(Tx(c, nonce, price)),
           from \subseteq LatePlaces => to \subseteq LatePlaces,
           from \subseteq LatePlaces \/ from \cap LatePlaces = {}
    PROVE  NonceInv'
<1>1. calls[c].pc \in from /\ calls'[c].pc \in to /\ \A d \in AllCalls \ {c} : calls'[d] = calls[d]
  BY DEF Moves
<1>2. ASSUME NEW d \in Calls, d # c
      PROVE  /\ \A tx \in pool' : tx.call = d => NonceOf(d, tx.nonce)'
             /\ \A i \in DOMAIN mined' : mined'[i].call = d => NonceOf(d, i - 1)'
  <2>1. \A nonce : NonceOf(d, nonce) => NonceOf(d, nonce)'
    BY <1>1, <1>2, CallFacts DEF NonceOf
  <2>2. \A tx \in pool' : tx.call = d => tx \in pool
    BY <1>2, ReceivedOnly
  <2> QED
    BY <1>2, <2>1, <2>2, NonceFacts
<1>3. ASSUME c \in Calls
      PROVE  /\ \A tx \in pool' : tx.call = c => NonceOf(c, tx.nonce)'
             /\ \A i \in DOMAIN mined' : mined'[i].call = c => NonceOf(c, i - 1)'
  <2>1. CASE from \cap LatePlaces = {} /\ UNCHANGED pool
    <3>1. \A nonce : ~NonceOf(c, nonce)
      BY <1>1, <2>1 DEF NonceOf
    <3> QED
      BY <1>3, <2>1, <3>1, NonceFacts
  <2>2. CASE from \subseteq LatePlaces /\ UNCHANGED pool /\ calls'[c].nonce = calls[c].nonce
    <3>1. \A nonce : NonceOf(c, nonce) => NonceOf(c, nonce)'
      BY <1>1, <2>2 DEF NonceOf
    <3> QED
      BY <1>3, <2>2, <3>1, NonceFacts
  <2>3. CASE \E price : Receive(Tx(c, calls'[c].nonce, price)) /\ to \subseteq LatePlaces
                           /\ calls'[c].nonce = calls[c].nonce
    <3>1. \A nonce : NonceOf(c, nonce) => NonceOf(c, nonce)'
      BY <1>1, <2>3 DEF NonceOf
    <3>2. NonceOf(c, calls[c].nonce)'
      BY <1>1, <2>3 DEF NonceOf
    <3>3. \A tx \in pool' : tx \in pool \/ tx.nonce = calls[c].nonce
      BY <2>3, ReceivedOnly
    <3> QED
      BY <1>3, <3>1, <3>2, <3>3, NonceFacts, <2>3 DEF NonceOf
  <2> QED
    BY <1>3, <2>1, <2>2, <2>3
<1> QED
  BY <1>2, <1>3, NonceGoal

LEMMA NonceAtStart == SubmissionInit => NonceInv
BY DEF SubmissionInit, NonceInv, TransactionsOf

\* Faults are only ever added.
LEMMA FaultsGrow ==
    ASSUME SubmissionTypeOK, PlacesInv, MutexInv, [SubmissionNext]_submissionVars
    PROVE  \A kind \in AllFaults : faults[kind] \in Nat /\ faults[kind] <= faults'[kind]
<1>1. \A kind \in AllFaults : faults[kind] \in Nat
  BY DEF SubmissionTypeOK
<1>2. UNCHANGED faults => \A kind \in AllFaults : faults[kind] <= faults'[kind]
  BY <1>1
<1>3. ASSUME NEW c \in Calls, CommitStep(c)
      PROVE  \A kind \in AllFaults : faults[kind] <= faults'[kind]
  <2>1. lockNonce(c) \/ getTransactionCount(c) => UNCHANGED faults
    BY DEF lockNonce, getTransactionCount
  <2> QED
    BY <1>2, <1>3, <2>1, NewOutcome, RetryOutcome, PollOutcome DEF CommitStep
<1>4. ASSUME NEW h \in HaltCalls, DirectStep(h) PROVE UNCHANGED faults
  BY <1>4, DirectOutcome
<1>5. Mine \/ resumeNonce \/ UNCHANGED submissionVars => UNCHANGED faults
  BY DEF Mine, resumeNonce, submissionVars
<1>6. OperatorStep => UNCHANGED faults
  BY OperatorOutcome
<1> QED
  BY <1>1, <1>2, <1>3, <1>4, <1>5, <1>6 DEF SubmissionNext

\* A lost answer is one more.
LEMMA FaultCounts ==
    ASSUME SubmissionTypeOK, NEW kind \in AllFaults, Fault(kind)
    PROVE  faults'[kind] = faults[kind] + 1 /\ faults'[kind] # 0
<1>1. faults \in [AllFaults -> Nat]
  BY DEF SubmissionTypeOK
<1> QED
  BY <1>1 DEF Fault

LEMMA NonceStep ==
    SubmissionTypeOK /\ PlacesInv /\ MutexInv /\ NonceInv /\ [SubmissionNext]_submissionVars
        => NonceInv'
<1> SUFFICES ASSUME SubmissionTypeOK, PlacesInv, MutexInv, NonceInv,
                    [SubmissionNext]_submissionVars, faults'.lost = 0
             PROVE  NonceInv'
  BY DEF NonceInv
<1>1. "lost" \in AllFaults /\ faults.lost = 0
  <2>1. "lost" \in AllFaults
    BY DEF AllFaults
  <2> QED
    BY <2>1, FaultsGrow
<1>2. ~Fault("lost")
  BY <1>1, FaultCounts
<1>3. CASE Mine
  <2>1. PICK tx \in pool :
              /\ tx.call \in AllCalls /\ tx.nonce = Len(mined) /\ pool' = pool \ {tx}
              /\ mined' \in Seq([call : AllCalls, price : Nat, status : BOOLEAN])
              /\ Len(mined') = Len(mined) + 1 /\ mined'[Len(mined) + 1].call = tx.call
              /\ \A i \in 1 .. Len(mined) : mined'[i] = mined[i]
              /\ UNCHANGED calls
    BY <1>3, MineOutcome
  <2>2. \A c, nonce : NonceOf(c, nonce)' <=> NonceOf(c, nonce)
    BY <2>1 DEF NonceOf
  <2>3. ASSUME NEW c \in Calls, NEW i \in DOMAIN mined', mined'[i].call = c
        PROVE  NonceOf(c, i - 1)'
    <3>1. DOMAIN mined' = 1 .. Len(mined) + 1 /\ DOMAIN mined = 1 .. Len(mined) /\ Len(mined) \in Nat
      BY <2>1 DEF SubmissionTypeOK
    <3>2. CASE i \in DOMAIN mined
      BY <1>1, <2>1, <2>2, <2>3, <3>1, <3>2, NonceFacts
    <3>3. CASE i \notin DOMAIN mined
      <4>1. i = Len(mined) + 1 /\ i - 1 = Len(mined)
        BY <3>1, <3>3
      <4>2. NonceOf(c, tx.nonce)
        BY <1>1, <2>1, <2>3, <4>1, NonceFacts
      <4> QED
        BY <2>1, <2>2, <4>1, <4>2
    <3> QED
      BY <3>2, <3>3
  <2>4. ASSUME NEW c \in Calls, NEW ty \in pool', ty.call = c PROVE NonceOf(c, ty.nonce)'
    BY <1>1, <2>1, <2>2, <2>4, NonceFacts
  <2> QED
    BY <2>3, <2>4, NonceGoal
<1>4. ASSUME NEW c \in Calls, CommitStep(c) PROVE NonceInv'
  <2>1. c \in AllCalls
    BY CallFacts
  <2>2. CASE lockNonce(c)
    <3>1. Moves(c, {"new"}, {"asking", "locking"}) /\ UNCHANGED <<pool, mined>>
          /\ {"new"} \cap LatePlaces = {} /\ ~({"new"} \subseteq LatePlaces)
      BY <2>2, LockOutcome DEF nodeVars, LatePlaces
    <3> QED
      BY <1>1, <2>1, <3>1, NonceMove
  <2>3. CASE getTransactionCount(c)
    <3>1. Moves(c, {"asking"}, {"sending"}) /\ UNCHANGED <<pool, mined>>
          /\ {"asking"} \cap LatePlaces = {} /\ ~({"asking"} \subseteq LatePlaces)
      BY <2>3, CountOutcome DEF nodeVars, LatePlaces
    <3> QED
      BY <1>1, <2>1, <3>1, NonceMove
  <2>4. CASE newTx(c)
    <3>1. /\ Moves(c, {"sending"}, {"polling", "new", "failed"}) /\ UNCHANGED mined
          /\ calls'[c].nonce = calls[c].nonce
          /\ {"sending"} \cap LatePlaces = {} /\ ~({"sending"} \subseteq LatePlaces)
      BY <2>4, NewOutcome DEF LatePlaces
    <3>2. CASE UNCHANGED pool
      BY <1>1, <2>1, <3>1, <3>2, NonceMove
    <3>3. CASE ~UNCHANGED pool
      <4>1. calls'[c].pc = "polling" /\ Receive(Tx(c, calls[c].nonce, BasePrice))
        BY <1>2, <2>4, <3>3, NewOutcome
      <4>2. Moves(c, {"sending"}, {"polling"}) /\ {"polling"} \subseteq LatePlaces
            /\ \E price : Receive(Tx(c, calls'[c].nonce, price))
        BY <3>1, <4>1 DEF Moves, LatePlaces
      <4> QED
        BY <1>1, <2>1, <3>1, <4>2, NonceMove
    <3> QED
      BY <3>2, <3>3
  <2>5. CASE retryTx(c)
    <3>1. /\ Moves(c, {"retrying"}, {"polling", "retrying", "failed"}) /\ UNCHANGED mined
          /\ calls'[c].nonce = calls[c].nonce
          /\ {"retrying"} \subseteq LatePlaces /\ {"polling", "retrying", "failed"} \subseteq LatePlaces
      BY <2>5, RetryOutcome DEF LatePlaces
    <3>2. UNCHANGED pool \/ \E price : Receive(Tx(c, calls'[c].nonce, price))
      BY <2>5, <3>1, RetryOutcome
    <3> QED
      BY <1>1, <2>1, <3>1, <3>2, NonceMove
  <2>6. CASE pollForMining(c)
    <3>1. /\ Moves(c, {"polling"}, {"returned", "retrying", "failed"}) /\ UNCHANGED <<pool, mined>>
          /\ calls'[c].nonce = calls[c].nonce
          /\ {"polling"} \subseteq LatePlaces /\ {"returned", "retrying", "failed"} \subseteq LatePlaces
      BY <2>6, PollOutcome DEF LatePlaces, Steady, nodeVars
    <3> QED
      BY <1>1, <2>1, <3>1, NonceMove
  <2> QED
    BY <1>4, <2>2, <2>3, <2>4, <2>5, <2>6 DEF CommitStep
<1>5. CASE resumeNonce
  <2>1. PICK c \in Calls : /\ Moves(c, {"locking"}, {"asking", "locking"})
                           /\ UNCHANGED nodeVars
    BY <1>5, ResumeOutcome
  <2>2. c \in AllCalls /\ UNCHANGED <<pool, mined>>
        /\ {"locking"} \cap LatePlaces = {} /\ ~({"locking"} \subseteq LatePlaces)
    BY <2>1, CallFacts DEF nodeVars, LatePlaces
  <2> QED
    BY <1>1, <2>1, <2>2, NonceMove
<1>6. CASE OperatorStep
  <2>1. /\ UNCHANGED <<pool, mined>> /\ run \in Runs
    BY <1>6, OperatorOutcome DEF nodeVars, SubmissionTypeOK
  <2>2. \A c \in Calls : calls'[c] = calls[c] \/ calls[c].pc = "idle"
    <3>1. resolves \/ nextRun => calls' = calls
      BY DEF resolves, nextRun
    <3>2. CallOf(Halting) \notin Calls /\ \A t \in Tokens \ visited : calls[CallOf(t)].pc = "idle"
      BY <2>1, CallFacts, CallOfFacts DEF PlacesInv
    <3> QED
      BY <1>6, <3>1, <3>2, CallFacts, OperatorOutcome
  <2>3. \A c \in Calls : \A nonce : NonceOf(c, nonce) => NonceOf(c, nonce)'
    BY <2>2 DEF NonceOf, LatePlaces
  <2> QED
    BY <1>1, <2>1, <2>3, NonceFacts, NonceGoal
<1>7. ASSUME NEW h \in HaltCalls, DirectStep(h) PROVE NonceInv'
  <2>1. h \in AllCalls /\ h \notin Calls /\ UNCHANGED mined
    BY <1>7, CallFacts, DirectOutcome
  <2>2. /\ \A d \in Calls : calls'[d] = calls[d]
        /\ UNCHANGED pool \/ \E nonce, price : Receive(Tx(h, nonce, price))
    BY <1>7, <2>1, CallFacts, DirectOutcome DEF Moves
  <2>3. \A c \in Calls : \A nonce : NonceOf(c, nonce) => NonceOf(c, nonce)'
    BY <2>2 DEF NonceOf
  <2>4. \A tx \in pool' : tx \in pool \/ tx.call = h
    BY <2>1, <2>2, ReceivedOnly
  <2> QED
    BY <1>1, <2>1, <2>3, <2>4, NonceFacts, NonceGoal
<1>8. CASE UNCHANGED submissionVars
  BY <1>8 DEF submissionVars, nodeVars, NonceInv, TransactionsOf
<1> QED
  BY <1>3, <1>4, <1>5, <1>6, <1>7, <1>8 DEF SubmissionNext

-----------------------------------------------------------------------------
(* While the node answers in time. *)

LEMMA PendingFacts ==
    SubmissionTypeOK =>
        /\ IsFiniteSet(pool) /\ Cardinality(pool) \in Nat /\ Len(mined) \in Nat
        /\ PendingCount = Len(mined) + Cardinality(pool)
        /\ DOMAIN mined = 1 .. Len(mined)
        /\ \A tx \in pool : tx.call \in AllCalls /\ tx.nonce \in Nat /\ tx.price \in Nat
        /\ \A i \in DOMAIN mined : mined[i].call \in AllCalls /\ mined[i].status \in BOOLEAN
        /\ \A c \in AllCalls : calls[c].nonce \in Nat /\ calls[c].price \in Nat
        /\ run \in Runs /\ run \in Nat \ {0} /\ visited \subseteq Tokens
<1> SUFFICES ASSUME SubmissionTypeOK
             PROVE  /\ IsFiniteSet(pool) /\ Cardinality(pool) \in Nat /\ Len(mined) \in Nat
                    /\ PendingCount = Len(mined) + Cardinality(pool)
                    /\ DOMAIN mined = 1 .. Len(mined)
                    /\ \A tx \in pool : tx.call \in AllCalls /\ tx.nonce \in Nat /\ tx.price \in Nat
                    /\ \A i \in DOMAIN mined :
                          mined[i].call \in AllCalls /\ mined[i].status \in BOOLEAN
                    /\ \A c \in AllCalls : calls[c].nonce \in Nat /\ calls[c].price \in Nat
                    /\ run \in Runs /\ run \in Nat \ {0} /\ visited \subseteq Tokens
  OBVIOUS
<1>1. IsFiniteSet(pool) /\ Cardinality(pool) \in Nat
  BY FS_CardinalityType DEF SubmissionTypeOK
<1>2. mined \in Seq([call : AllCalls, price : Nat, status : BOOLEAN])
  BY DEF SubmissionTypeOK
<1>3. /\ DOMAIN mined = 1 .. Len(mined) /\ Len(mined) \in Nat
      /\ \A i \in DOMAIN mined : mined[i].call \in AllCalls /\ mined[i].status \in BOOLEAN
  <2>1. DOMAIN mined = 1 .. Len(mined) /\ Len(mined) \in Nat
    BY <1>2
  <2> DEFINE Mined == [call : AllCalls, price : Nat, status : BOOLEAN]
  <2>2. mined \in Seq(Mined)
    BY <1>2
  <2> HIDE DEF Mined
  <2>3. \A i \in DOMAIN mined : mined[i] \in Mined
    BY <2>1, <2>2
  <2> QED
    BY <2>1, <2>3 DEF Mined
<1>4. \A tx \in pool : tx.call \in AllCalls /\ tx.nonce \in Nat /\ tx.price \in Nat
  BY DEF SubmissionTypeOK
<1>5. \A c \in AllCalls : calls[c].nonce \in Nat /\ calls[c].price \in Nat
  BY DEF SubmissionTypeOK, CallRecord
<1>6. run \in Runs /\ run \in Nat \ {0} /\ visited \subseteq Tokens
  BY SubmissionAssumption DEF SubmissionTypeOK, Runs
<1> QED
  BY <1>1, <1>3, <1>4, <1>5, <1>6 DEF PendingCount

\* Before all have been sent, none is repeated and none is waited for.
LEMMA EarlyAlone ==
    ASSUME SubmissionInv, CalmInv, NEW c \in Calls, calls[c].pc \in EarlyPlaces
    PROVE  /\ run = 1 /\ runState = "looping" /\ c.run = 1
           /\ \A h \in HaltCalls : calls[h].pc = "idle"
           /\ \A d \in Calls : calls[d].pc \notin {"retrying", "failed"}
<1>1. run = 1 /\ runState = "looping" /\ c.run = 1
  BY DEF CalmInv, FirstRunInv, EarlyPlaces
<1>2. \A d \in Calls : calls[d].pc \notin {"retrying", "failed"}
  BY DEF CalmInv, FirstRunInv
<1>3. ASSUME NEW h \in HaltCalls PROVE calls[h].pc = "idle"
  <2>1. calls[h].pc # "idle" => h = CallOf(Halting)
    BY <1>1, CallOfFacts DEF CalmInv, DirectInv, SubmissionInv, SubmissionTypeOK
  <2> QED
    BY <1>1, <2>1 DEF SubmissionInv, PlacesInv
<1> QED
  BY <1>1, <1>2, <1>3

\* A call on its way to its first submission.
LEMMA EarlyMove ==
    ASSUME SubmissionInv, CalmInv, NEW c \in Calls, NEW from, NEW to, Moves(c, from, to),
           from \subseteq EarlyPlaces, to \subseteq EarlyPlaces, calls'[c].sub = calls[c].sub,
           UNCHANGED <<nodeVars, runVars>>,
           calls'[c].pc = "sending" => calls'[c].nonce = PendingCount
    PROVE  CalmInv'
<1>1. /\ calls[c].pc \in EarlyPlaces /\ calls'[c].pc \in EarlyPlaces
      /\ \A d \in AllCalls \ {c} : calls'[d] = calls[d]
      /\ c \in AllCalls
      /\ pool' = pool /\ mined' = mined /\ run' = run /\ runState' = runState /\ visited' = visited
  BY CallFacts DEF Moves, nodeVars, runVars
<1>2. /\ run = 1 /\ runState = "looping" /\ c.run = 1 /\ calls[c].sub = 0
      /\ \A h \in HaltCalls : calls'[h].pc = "idle"
      /\ \A d \in Calls : calls'[d].pc \notin {"retrying", "failed"}
  <2>1. \A h \in HaltCalls : calls'[h] = calls[h]
    BY <1>1, CallFacts
  <2>2. \A d \in Calls : calls'[d].pc \in EarlyPlaces \/ calls'[d] = calls[d]
    BY <1>1, CallFacts
  <2>3. calls[c].sub = 0
    BY <1>1 DEF CalmInv, FirstRunInv
  <2> QED
    BY <1>1, <2>1, <2>2, <2>3, EarlyAlone DEF EarlyPlaces
<1>3. PendingCount' = PendingCount /\ OnChain' = OnChain
      /\ \A d : TransactionsOf(d)' = TransactionsOf(d)
  BY <1>1 DEF PendingCount, OnChain, TransactionsOf
<1>4. PoolInv'
  <2>1. \A d \in Calls : calls'[d].pc = "sending" => calls'[d].nonce = PendingCount
    BY <1>1, CallFacts DEF CalmInv, PoolInv
  <2>2. \A d \in Calls : calls'[d].pc \in LatePlaces => TransactionsOf(d) # {}
    BY <1>1, CallFacts DEF CalmInv, PoolInv, EarlyPlaces, LatePlaces
  <2> QED
    BY <1>1, <1>3, <2>1, <2>2 DEF CalmInv, PoolInv
<1>5. FirstRunInv'
  <2>1. \A d \in Calls : /\ calls'[d].pc \in {"idle"} \cup EarlyPlaces => calls'[d].sub = 0
                         /\ calls'[d].pc # "idle" => d.run = 1
    BY <1>1, <1>2, CallFacts DEF CalmInv, FirstRunInv
  <2> QED
    BY <1>1, <1>2, <1>3, <2>1 DEF CalmInv, FirstRunInv
<1>6. DirectInv'
  BY <1>2 DEF DirectInv
<1> QED
  BY <1>4, <1>5, <1>6 DEF CalmInv

\* The node mines: what was pending is mined, and no commit is reverted.
LEMMA CalmMine == ASSUME SubmissionInv, CalmInv, Undisturbed, Mine PROVE CalmInv'
<1>1. PICK tx \in pool :
            /\ tx.call \in AllCalls /\ tx.nonce = Len(mined)
            /\ pool' = pool \ {tx}
            /\ mined' \in Seq([call : AllCalls, price : Nat, status : BOOLEAN])
            /\ Len(mined') = Len(mined) + 1
            /\ mined'[Len(mined) + 1].call = tx.call
            /\ mined'[Len(mined) + 1].price = tx.price
            /\ mined'[Len(mined) + 1].status = (tx.call.token \notin OnChain \ {Halting})
            /\ \A i \in 1 .. Len(mined) : mined'[i] = mined[i]
            /\ UNCHANGED <<floor, runVars, mutexVars, calls, faults>>
  BY MineOutcome DEF SubmissionInv
<1>2. /\ IsFiniteSet(pool) /\ Cardinality(pool) \in Nat /\ Len(mined) \in Nat
      /\ PendingCount = Len(mined) + Cardinality(pool)
      /\ DOMAIN mined = 1 .. Len(mined) /\ DOMAIN mined' = 1 .. Len(mined) + 1
      /\ \A ty \in pool : ty.nonce \in Nat
      /\ run' = run /\ runState' = runState /\ visited' = visited /\ calls' = calls
  BY <1>1, PendingFacts DEF SubmissionInv, runVars
<1>3. Cardinality(pool') = Cardinality(pool) - 1
  BY <1>1, <1>2, FS_RemoveElement
<1>4. PendingCount' = PendingCount
  <2>1. PendingCount' = Len(mined') + Cardinality(pool')
    BY DEF PendingCount
  <2> QED
    BY <1>1, <1>2, <1>3, <2>1
<1>5. \A c \in Calls : TransactionsOf(c) # {} => TransactionsOf(c)' # {}
  <2>1. ASSUME NEW c \in Calls, NEW ty \in TransactionsOf(c) PROVE TransactionsOf(c)' # {}
    <3>1. CASE ty \in pool /\ ty.call = c /\ ty # tx
      <4>1. ty \in pool'
        BY <1>1, <3>1
      <4> QED
        BY <3>1, <4>1 DEF TransactionsOf
    <3>2. CASE ty = tx /\ ty.call = c
      <4>1. Len(mined) + 1 \in DOMAIN mined' /\ mined'[Len(mined) + 1].call = c
        BY <1>1, <1>2, <3>2
      <4> QED
        BY <4>1 DEF TransactionsOf
    <3>3. CASE \E i \in DOMAIN mined : mined[i].call = c
      <4>1. PICK i \in DOMAIN mined : mined[i].call = c
        BY <3>3
      <4>2. i \in DOMAIN mined' /\ mined'[i].call = c
        BY <1>1, <1>2, <4>1
      <4> QED
        BY <4>2 DEF TransactionsOf
    <3> QED
      BY <2>1, <3>1, <3>2, <3>3, OwnTransactions
  <2> QED
    BY <2>1
<1>6. PoolInv'
  <2>1. \A ty \in pool' : Len(mined') <= ty.nonce /\ ty.nonce < PendingCount
    <3>1. \A ty \in pool' : ty \in pool /\ ty # tx
      BY <1>1
    <3>2. \A ty \in pool' : Len(mined) <= ty.nonce /\ ty.nonce < PendingCount /\ ty.nonce # tx.nonce
      BY <3>1 DEF CalmInv, PoolInv
    <3> QED
      BY <1>1, <1>2, <3>1, <3>2
  <2> QED
    BY <1>1, <1>2, <1>4, <1>5, <2>1 DEF CalmInv, PoolInv
<1>7. tx.call \in Calls => tx.call.token \notin OnChain
  <2> SUFFICES ASSUME tx.call \in Calls, tx.call.token \in OnChain PROVE FALSE
    OBVIOUS
  <2>1. PICK i \in DOMAIN mined : mined[i].status /\ mined[i].call.token = tx.call.token
    BY DEF OnChain
  <2>2. mined[i].call \in Calls
    BY <1>1, <2>1, CallFacts, PendingFacts DEF SubmissionInv
  <2>3. faults.lost = 0
    BY DEF Undisturbed, AllFaults
  <2>4. NonceOf(tx.call, tx.nonce) /\ NonceOf(mined[i].call, i - 1)
    BY <2>2, <2>3, NonceFacts DEF SubmissionInv
  <2>5. tx.call.run = 1 /\ mined[i].call.run = 1
    BY <2>2, <2>4 DEF NonceOf, LatePlaces, CalmInv, FirstRunInv
  <2>6. mined[i].call = tx.call
    BY <2>1, <2>2, <2>5, CallFacts
  <2> QED
    BY <1>1, <1>2, <2>1, <2>4, <2>6 DEF NonceOf
<1>8. FirstRunInv'
  <2>1. OnChain \subseteq OnChain'
    BY <1>1, <1>2 DEF OnChain
  <2>2. ASSUME NEW i \in DOMAIN mined', mined'[i].call \in Calls PROVE mined'[i].status
    <3>1. CASE i \in DOMAIN mined
      BY <1>1, <1>2, <2>2, <3>1 DEF CalmInv, FirstRunInv
    <3>2. CASE i \notin DOMAIN mined
      <4>1. i = Len(mined) + 1
        BY <1>2, <3>2
      <4> QED
        BY <1>1, <1>7, <2>2, <4>1
    <3> QED
      BY <3>1, <3>2
  <2> QED
    BY <1>2, <2>1, <2>2 DEF CalmInv, FirstRunInv
<1>9. DirectInv'
  <2>1. \A h \in HaltCalls : calls[h].nonce \in Nat
    BY CallFacts, PendingFacts DEF SubmissionInv
  <2>2. \A ty \in pool' : ty \in pool
    BY <1>1
  <2> QED
    BY <1>1, <1>2, <1>4, <2>1, <2>2 DEF CalmInv, DirectInv
<1> QED
  BY <1>6, <1>8, <1>9 DEF CalmInv

\* The next nonce is accepted, and then pending with the others.
LEMMA NextNonce ==
    ASSUME SubmissionTypeOK, PoolInv, NEW c \in AllCalls, NEW price \in Nat
    PROVE  /\ Accepts(PendingCount, price)
           /\ Receive(Tx(c, PendingCount, price)) /\ UNCHANGED mined =>
                 /\ pool' = pool \cup {Tx(c, PendingCount, price)}
                 /\ PendingCount' = PendingCount + 1
                 /\ \A tx \in pool' : Len(mined') <= tx.nonce /\ tx.nonce < PendingCount'
                 /\ \A tx, other \in pool' : tx.nonce = other.nonce => tx = other
<1>1. /\ IsFiniteSet(pool) /\ Cardinality(pool) \in Nat /\ Len(mined) \in Nat
      /\ PendingCount = Len(mined) + Cardinality(pool)
      /\ \A tx \in pool : tx.nonce \in Nat
  BY PendingFacts
<1>2. \A tx \in pool : Len(mined) <= tx.nonce /\ tx.nonce < PendingCount
  BY DEF PoolInv
<1>3. \A tx \in pool : tx.nonce # PendingCount
  BY <1>1, <1>2
<1>4. Accepts(PendingCount, price)
  BY <1>1, <1>3 DEF Accepts
<1>5. ASSUME Receive(Tx(c, PendingCount, price)), UNCHANGED mined
      PROVE  /\ pool' = pool \cup {Tx(c, PendingCount, price)}
             /\ PendingCount' = PendingCount + 1
             /\ \A tx \in pool' : Len(mined') <= tx.nonce /\ tx.nonce < PendingCount'
             /\ \A tx, other \in pool' : tx.nonce = other.nonce => tx = other
  <2> DEFINE new == Tx(c, PendingCount, price)
  <2>1. new.nonce = PendingCount
    BY DEF Tx
  <2>2. pool' = pool \cup {new}
    BY <1>3, <1>5, <2>1 DEF Receive
  <2>3. new \notin pool
    BY <1>3, <2>1
  <2> HIDE DEF new
  <2>4. Cardinality(pool') = Cardinality(pool) + 1
    BY <1>1, <2>2, <2>3, FS_AddElement
  <2>5. PendingCount' = Len(mined') + Cardinality(pool')
    BY DEF PendingCount
  <2>6. PendingCount' = PendingCount + 1
    BY <1>1, <1>5, <2>4, <2>5
  <2>7. \A tx \in pool' : Len(mined') <= tx.nonce /\ tx.nonce < PendingCount'
    BY <1>1, <1>2, <1>5, <2>1, <2>2, <2>6
  <2>8. \A tx, other \in pool' : tx.nonce = other.nonce => tx = other
    BY <1>3, <2>1, <2>2 DEF PoolInv
  <2>9. pool' = pool \cup {Tx(c, PendingCount, price)}
    BY <2>2 DEF new
  <2> QED
    BY <2>6, <2>7, <2>8, <2>9
<1> QED
  BY <1>4, <1>5

LEMMA NothingGoesWrong ==
    ASSUME SubmissionTypeOK, Undisturbed, Undisturbed', NEW kind \in AllFaults PROVE ~Fault(kind)
BY FaultCounts DEF Undisturbed

\* The first submission is accepted.
LEMMA CalmNew ==
    ASSUME SubmissionInv, MutexInv, CalmInv, Undisturbed, Undisturbed', NEW c \in Calls, newTx(c)
    PROVE  CalmInv'
<1>1. SubmissionTypeOK /\ PoolInv /\ c \in AllCalls /\ c \notin HaltCalls /\ BasePrice \in Nat
  BY CallFacts, SubmissionAssumption DEF SubmissionInv, CalmInv
<1>2. /\ calls[c].pc = "sending" /\ calls'[c].nonce = calls[c].nonce
      /\ \A d \in AllCalls \ {c} : calls'[d] = calls[d]
      /\ UNCHANGED <<mined, runVars>>
  BY <1>1, NewOutcome DEF Moves
<1>3. calls[c].nonce = PendingCount /\ Accepts(PendingCount, BasePrice)
  BY <1>1, <1>2, NextNonce DEF PoolInv
<1>4. {"refuse", "lost"} \subseteq AllFaults
  BY DEF AllFaults
<1>5. /\ calls'[c].pc = "polling" /\ Receive(Tx(c, PendingCount, BasePrice))
      /\ calls'[c].sub = 0
  BY <1>1, <1>3, <1>4, NewOutcome, NothingGoesWrong
<1>6. /\ pool' = pool \cup {Tx(c, PendingCount, BasePrice)}
      /\ \A tx \in pool' : Len(mined') <= tx.nonce /\ tx.nonce < PendingCount'
      /\ \A tx, other \in pool' : tx.nonce = other.nonce => tx = other
  BY <1>1, <1>2, <1>5, NextNonce
<1>7. /\ run' = run /\ runState' = runState /\ visited' = visited /\ mined' = mined
      /\ run = 1 /\ c.run = 1 /\ runState = "looping"
      /\ \A h \in HaltCalls : calls'[h].pc = "idle"
      /\ \A d \in Calls : calls'[d].pc \notin {"retrying", "failed"}
  <2>1. /\ run = 1 /\ c.run = 1 /\ runState = "looping"
        /\ \A h \in HaltCalls : calls[h].pc = "idle"
        /\ \A d \in Calls : calls[d].pc \notin {"retrying", "failed"}
    BY <1>2, EarlyAlone DEF EarlyPlaces
  <2> QED
    BY <1>1, <1>2, <1>5, <2>1, CallFacts DEF runVars
<1>8. PoolInv'
  <2>1. \A d \in Calls : calls'[d].pc # "sending"
    <3>1. ASSUME NEW d \in Calls, calls'[d].pc = "sending" PROVE FALSE
      <4>1. d # c /\ calls[d].pc = "sending"
        BY <1>2, <1>5, <3>1, CallFacts
      <4>2. state[c] = "in" /\ state[d] = "in"
        BY <1>2, <4>1 DEF SubmissionInv, PlacesInv
      <4> QED
        BY <4>1, <4>2, SubmissionAssumption DEF MutexInv, MutualExclusion
    <3> QED
      BY <3>1
  <2>2. ASSUME NEW d \in Calls, calls'[d].pc \in LatePlaces PROVE TransactionsOf(d)' # {}
    <3>1. CASE d = c
      <4>1. Tx(c, PendingCount, BasePrice) \in pool' /\ Tx(c, PendingCount, BasePrice).call = c
        BY <1>6 DEF Tx
      <4> QED
        BY <3>1, <4>1 DEF TransactionsOf
    <3>2. CASE d # c
      <4>1. TransactionsOf(d) # {}
        BY <1>1, <1>2, <2>2, <3>2, CallFacts DEF PoolInv
      <4>2. TransactionsOf(d) \subseteq TransactionsOf(d)'
        BY <1>6, <1>7 DEF TransactionsOf
      <4> QED
        BY <4>1, <4>2
    <3> QED
      BY <3>1, <3>2
  <2> QED
    BY <1>6, <2>1, <2>2 DEF PoolInv
<1>9. FirstRunInv'
  <2>1. \A d \in Calls : /\ calls'[d].pc \in {"idle"} \cup EarlyPlaces => calls'[d].sub = 0
                         /\ calls'[d].pc # "idle" => d.run = 1
    BY <1>2, <1>5, <1>7, CallFacts DEF CalmInv, FirstRunInv
  <2>2. OnChain' = OnChain
    BY <1>7 DEF OnChain
  <2> QED
    BY <1>7, <2>1, <2>2 DEF CalmInv, FirstRunInv
<1>10. DirectInv'
  BY <1>7 DEF DirectInv
<1> QED
  BY <1>8, <1>9, <1>10 DEF CalmInv

\* A repetition takes the place of the transaction that is still pending.
LEMMA CalmRetry ==
    ASSUME SubmissionInv, CalmInv, Undisturbed, Undisturbed', NEW c \in Calls, retryTx(c)
    PROVE  CalmInv'
<1> DEFINE n == calls[c].nonce
           new == Tx(c, n, RetryPrice(calls[c].price))
<1>1. /\ SubmissionTypeOK /\ PoolInv /\ FirstRunInv /\ DirectInv /\ NonceInv
      /\ c \in AllCalls /\ c \notin HaltCalls
      /\ faults.lost = 0
  BY CallFacts DEF SubmissionInv, CalmInv, Undisturbed, AllFaults
<1>2. /\ calls[c].pc = "retrying" /\ calls'[c].nonce = n
      /\ calls'[c].pc \in {"polling", "retrying", "failed"}
      /\ \A d \in AllCalls \ {c} : calls'[d] = calls[d]
      /\ mined' = mined /\ run' = run /\ runState' = runState /\ visited' = visited
  BY <1>1, RetryOutcome DEF Moves, runVars
<1>3. {"refuse", "lost"} \subseteq AllFaults
  BY DEF AllFaults
<1>4. /\ IsFiniteSet(pool) /\ Cardinality(pool) \in Nat /\ Len(mined) \in Nat
      /\ PendingCount = Len(mined) + Cardinality(pool) /\ n \in Nat
      /\ DOMAIN mined = 1 .. Len(mined)
      /\ \A h \in HaltCalls : calls'[h] = calls[h]
  BY <1>1, <1>2, PendingFacts, CallFacts
<1>5. /\ new.call = c /\ new.nonce = n
  BY DEF Tx
<1>6. \/ UNCHANGED pool
      \/ /\ new \in pool' /\ PendingCount' = PendingCount
         /\ \A tx \in pool' : tx = new \/ (tx \in pool /\ tx.nonce # n)
         /\ \A tx \in pool : tx \in pool' \/ tx.call = c
         /\ \E old \in pool : old.call = c /\ old.nonce = n
  <2>1. UNCHANGED pool \/ (Accepts(n, RetryPrice(calls[c].price)) /\ Receive(new))
    BY <1>1, <1>3, RetryOutcome, NothingGoesWrong
  <2>2. ASSUME Accepts(n, RetryPrice(calls[c].price)), Receive(new)
        PROVE  /\ new \in pool' /\ PendingCount' = PendingCount
               /\ \A tx \in pool' : tx = new \/ (tx \in pool /\ tx.nonce # n)
               /\ \A tx \in pool : tx \in pool' \/ tx.call = c
               /\ \E old \in pool : old.call = c /\ old.nonce = n
    <3>1. PICK old \in pool : old.call = c /\ old.nonce = n
      <4>1. PICK tx \in TransactionsOf(c) : TRUE
        BY <1>1, <1>2 DEF PoolInv, LatePlaces
      <4>2. ~\E i \in DOMAIN mined : mined[i].call = c
        <5>1. ASSUME NEW i \in DOMAIN mined, mined[i].call = c PROVE FALSE
          <6>1. n = i - 1
            BY <1>1, <5>1, NonceFacts DEF NonceOf
          <6>2. n >= Len(mined)
            BY <2>2 DEF Accepts
          <6> QED
            BY <1>4, <6>1, <6>2
        <5> QED
          BY <5>1
      <4>3. tx \in pool /\ tx.call = c
        BY <4>1, <4>2, OwnTransactions
      <4>4. tx.nonce = n
        BY <1>1, <4>3, NonceFacts DEF NonceOf
      <4> QED
        BY <4>3, <4>4
    <3>2. pool' = (pool \ {old}) \cup {new}
      <4>1. {other \in pool : other.nonce # n} = pool \ {old}
        BY <1>1, <3>1 DEF PoolInv
      <4> QED
        BY <1>5, <2>2, <4>1 DEF Receive
    <3>3. \A tx \in pool \ {old} : tx.nonce # n
      BY <1>1, <3>1 DEF PoolInv
    <3> HIDE DEF new
    <3>4. Cardinality(pool \ {old}) = Cardinality(pool) - 1 /\ IsFiniteSet(pool \ {old})
      BY <1>4, <3>1, FS_RemoveElement
    <3>5. new \notin pool \ {old}
      BY <1>5, <3>3
    <3>6. Cardinality(pool') = Cardinality(pool \ {old}) + 1
      BY <3>2, <3>4, <3>5, FS_AddElement
    <3>7. PendingCount' = Len(mined') + Cardinality(pool')
      BY DEF PendingCount
    <3>8. PendingCount' = PendingCount
      BY <1>2, <1>4, <3>4, <3>6, <3>7
    <3> QED
      BY <3>1, <3>2, <3>3, <3>8
  <2> QED
    BY <2>1, <2>2
<1> HIDE DEF new, n
<1>7. PendingCount' = PendingCount
  BY <1>2, <1>6 DEF PendingCount
<1>8. \A d \in Calls : TransactionsOf(d) # {} => TransactionsOf(d)' # {}
  <2>1. CASE UNCHANGED pool
    BY <1>2, <2>1 DEF TransactionsOf
  <2>2. CASE ~UNCHANGED pool
    <3>1. TransactionsOf(c)' # {}
      BY <1>5, <1>6, <2>2 DEF TransactionsOf
    <3>2. ASSUME NEW d \in Calls, d # c PROVE TransactionsOf(d) \subseteq TransactionsOf(d)'
      BY <1>2, <1>6, <2>2, <3>2 DEF TransactionsOf
    <3> QED
      BY <3>1, <3>2
  <2> QED
    BY <2>1, <2>2
<1>9. PoolInv'
  <2>1. \A tx \in pool' : Len(mined') <= tx.nonce /\ tx.nonce < PendingCount'
    BY <1>1, <1>2, <1>5, <1>6, <1>7 DEF PoolInv
  <2>2. \A tx, other \in pool' : tx.nonce = other.nonce => tx = other
    BY <1>1, <1>5, <1>6 DEF PoolInv
  <2>3. \A d \in Calls : calls'[d].pc = "sending" => calls'[d].nonce = PendingCount'
    BY <1>1, <1>2, <1>7, CallFacts DEF PoolInv
  <2>4. \A d \in Calls : calls'[d].pc \in LatePlaces => TransactionsOf(d)' # {}
    BY <1>1, <1>2, <1>8, CallFacts DEF PoolInv, LatePlaces
  <2> QED
    BY <2>1, <2>2, <2>3, <2>4 DEF PoolInv
<1>10. FirstRunInv'
  <2>1. \A d \in Calls : calls'[d].pc \in {"idle"} \cup EarlyPlaces => calls'[d] = calls[d]
    BY <1>2, CallFacts DEF EarlyPlaces
  <2>2. \A d \in Calls : calls[d].pc \notin EarlyPlaces /\ (visited = Tokens \/ run > 1)
    BY <1>1, <1>2 DEF FirstRunInv
  <2>3. \A d \in Calls : calls'[d].pc \notin EarlyPlaces
    BY <2>1, <2>2
  <2>4. \A d \in Calls : calls'[d].pc # "idle" => d.run = 1
    BY <1>1, <1>2, CallFacts DEF FirstRunInv
  <2>5. OnChain' = OnChain
    BY <1>2 DEF OnChain
  <2> QED
    BY <1>1, <1>2, <2>1, <2>2, <2>3, <2>4, <2>5 DEF FirstRunInv
<1>11. DirectInv'
  <2>1. \A h \in HaltCalls : calls'[h].pc \in {"waiting", "returned"} =>
           \A tx \in pool' : tx.call \in Calls => tx.nonce < calls'[h].nonce
    BY <1>1, <1>4, <1>5, <1>6 DEF DirectInv
  <2> QED
    BY <1>1, <1>2, <1>4, <1>7, <2>1 DEF DirectInv
<1> QED
  BY <1>9, <1>10, <1>11 DEF CalmInv

\* A call polls in vain only after the others have been sent.
LEMMA CalmPoll ==
    ASSUME SubmissionInv, CalmInv, Undisturbed, Undisturbed', NEW c \in Calls, pollForMining(c)
    PROVE  CalmInv'
<1>1. /\ SubmissionTypeOK /\ PoolInv /\ FirstRunInv /\ DirectInv
      /\ c \in AllCalls /\ c \notin HaltCalls /\ "slow" \in AllFaults
  BY CallFacts DEF SubmissionInv, CalmInv, AllFaults
<1>2. /\ calls[c].pc = "polling" /\ calls'[c].pc \in {"returned", "retrying", "failed"}
      /\ calls'[c].nonce = calls[c].nonce
      /\ \A d \in AllCalls \ {c} : calls'[d] = calls[d]
      /\ pool' = pool /\ mined' = mined
      /\ run' = run /\ runState' = runState /\ visited' = visited
  BY <1>1, PollOutcome DEF Moves, Steady, nodeVars, runVars
<1>3. HasReceipt(c) => Succeeded(c)
  <2> SUFFICES ASSUME HasReceipt(c) PROVE Succeeded(c)
    OBVIOUS
  <2>1. calls[c].nonce + 1 \in DOMAIN mined
    BY <1>1, PendingFacts DEF HasReceipt
  <2> QED
    BY <1>1, <2>1 DEF HasReceipt, Succeeded, FirstRunInv
<1>4. calls'[c].pc # "returned" => OthersAnswered
  BY <1>1, <1>3, PollOutcome, NothingGoesWrong DEF TimePasses
<1>5. PendingCount' = PendingCount /\ OnChain' = OnChain
      /\ \A d : TransactionsOf(d)' = TransactionsOf(d)
  BY <1>2 DEF PendingCount, OnChain, TransactionsOf
<1>6. PoolInv'
  <2>1. \A d \in Calls : calls'[d].pc = "sending" => calls'[d].nonce = PendingCount
    BY <1>1, <1>2, CallFacts DEF PoolInv
  <2>2. \A d \in Calls : calls'[d].pc \in LatePlaces => TransactionsOf(d) # {}
    BY <1>1, <1>2, CallFacts DEF PoolInv, LatePlaces
  <2> QED
    BY <1>1, <1>2, <1>5, <2>1, <2>2 DEF PoolInv
<1>7. FirstRunInv'
  <2>1. \A d \in Calls : calls'[d].pc \in {"idle"} \cup EarlyPlaces => calls'[d] = calls[d]
    BY <1>2, CallFacts DEF EarlyPlaces
  <2>2. \A d \in Calls : calls'[d].pc # "idle" => d.run = 1
    BY <1>1, <1>2, CallFacts DEF FirstRunInv
  <2>3. ASSUME NEW d \in Calls, calls'[d].pc \in {"retrying", "failed"}
        PROVE  /\ visited' = Tokens \/ run' > 1
               /\ \A e \in Calls : calls'[e].pc \notin EarlyPlaces
    <3>1. CASE d = c
      <4>1. visited = Tokens /\ \A e \in Calls : calls[e].pc \notin EarlyPlaces
        BY <1>4, <2>3, <3>1 DEF OthersAnswered, EarlyPlaces
      <4> QED
        BY <1>2, <2>1, <4>1
    <3>2. CASE d # c
      <4>1. calls[d].pc \in {"retrying", "failed"}
        BY <1>2, <2>3, <3>2, CallFacts
      <4>2. /\ visited = Tokens \/ run > 1
            /\ \A e \in Calls : calls[e].pc \notin EarlyPlaces
        BY <1>1, <4>1 DEF FirstRunInv
      <4> QED
        BY <1>2, <2>1, <4>2
    <3> QED
      BY <3>1, <3>2
  <2> QED
    BY <1>1, <1>2, <1>5, <2>1, <2>2, <2>3 DEF FirstRunInv
<1>8. DirectInv'
  <2>1. \A h \in HaltCalls : calls'[h] = calls[h]
    BY <1>1, <1>2, CallFacts
  <2> QED
    BY <1>1, <1>2, <1>5, <2>1 DEF DirectInv
<1> QED
  BY <1>6, <1>7, <1>8 DEF CalmInv

\* The call of updateHaltedState is sent behind the commits.
LEMMA CalmDirect ==
    ASSUME SubmissionInv, CalmInv, NEW h \in HaltCalls, DirectStep(h)
    PROVE  CalmInv'
<1>1. /\ SubmissionTypeOK /\ PoolInv /\ FirstRunInv /\ DirectInv
      /\ h \in AllCalls /\ h \notin Calls /\ BasePrice \in Nat
  BY CallFacts, SubmissionAssumption DEF SubmissionInv, CalmInv
<1>2. /\ mined' = mined /\ run' = run /\ runState' = runState /\ visited' = visited
      /\ \A d \in AllCalls \ {h} : calls'[d] = calls[d]
      /\ calls[h].pc # "idle"
  BY <1>1, DirectOutcome DEF Moves, runVars
<1>3. /\ h.run = 1 /\ \A d \in Calls : calls'[d] = calls[d]
      /\ \A d \in Calls : calls[d].pc \notin EarlyPlaces
      /\ \A g \in HaltCalls \ {h} : calls'[g] = calls[g] /\ calls[g].pc = "idle"
  <2>1. h.run = 1
    BY <1>1, <1>2 DEF DirectInv
  <2>2. \A g \in HaltCalls \ {h} : g.run # 1
    BY <2>1 DEF HaltCalls
  <2>3. \A g \in HaltCalls \ {h} : calls'[g] = calls[g] /\ calls[g].pc = "idle"
    BY <1>1, <1>2, <2>2, CallFacts DEF DirectInv
  <2>4. \A d \in Calls : calls[d].pc \notin EarlyPlaces
    BY <1>2, EarlyAlone
  <2> QED
    BY <1>1, <1>2, <2>1, <2>3, <2>4, CallFacts
<1>4. OnChain' = OnChain
  BY <1>2 DEF OnChain
<1>5. FirstRunInv'
  BY <1>1, <1>2, <1>3, <1>4 DEF FirstRunInv
<1>6. ASSUME UNCHANGED pool
      PROVE  PoolInv' /\ PendingCount' = PendingCount
  <2>1. PendingCount' = PendingCount /\ \A d : TransactionsOf(d)' = TransactionsOf(d)
    BY <1>2, <1>6 DEF PendingCount, TransactionsOf
  <2> QED
    BY <1>1, <1>2, <1>3, <1>6, <2>1 DEF PoolInv
<1>7. ASSUME Receive(Tx(h, PendingCount, BasePrice))
      PROVE  PoolInv' /\ \A tx \in pool' : tx.call \in Calls => tx \in pool
  <2>1. /\ pool' = pool \cup {Tx(h, PendingCount, BasePrice)}
        /\ \A tx \in pool' : Len(mined') <= tx.nonce /\ tx.nonce < PendingCount'
        /\ \A tx, other \in pool' : tx.nonce = other.nonce => tx = other
    BY <1>1, <1>2, <1>7, NextNonce
  <2>2. \A d : TransactionsOf(d) \subseteq TransactionsOf(d)'
    BY <1>2, <2>1 DEF TransactionsOf
  <2>3. \A d \in Calls : calls'[d].pc # "sending"
    BY <1>3 DEF EarlyPlaces
  <2>4. \A d \in Calls : calls'[d].pc \in LatePlaces => TransactionsOf(d)' # {}
    BY <1>1, <1>3, <2>2 DEF PoolInv
  <2>5. PoolInv'
    BY <2>1, <2>3, <2>4 DEF PoolInv
  <2>6. Tx(h, PendingCount, BasePrice).call = h
    BY DEF Tx
  <2> QED
    BY <1>1, <2>1, <2>5, <2>6
<1>8. ASSUME PoolInv',
             /\ calls'[h].pc \in {"directSending", "waiting", "returned"}
             /\ calls'[h].pc = "directSending" => calls'[h].nonce = PendingCount'
             /\ calls'[h].pc = "returned" => calls'[h].nonce < Len(mined')
             /\ calls'[h].pc \in {"waiting", "returned"} =>
                   \A tx \in pool' : tx.call \in Calls => tx.nonce < calls'[h].nonce
      PROVE  CalmInv'
  <2>1. DirectInv'
    <3>1. ASSUME NEW g \in HaltCalls \ {h} PROVE calls'[g].pc = "idle"
      BY <1>3, <3>1
    <3> QED
      BY <1>3, <1>8, <3>1 DEF DirectInv
  <2> QED
    BY <1>5, <1>8, <2>1 DEF CalmInv
<1>9. CASE Moves(h, {"direct"}, {"directSending"}) /\ calls'[h].nonce = PendingCount /\ UNCHANGED pool
  BY <1>6, <1>8, <1>9 DEF Moves
<1>10. CASE calls[h].pc = "directSending"
  <2>1. calls[h].nonce = PendingCount /\ Accepts(PendingCount, BasePrice)
    BY <1>1, <1>10, NextNonce DEF DirectInv
  <2>2. /\ calls'[h].pc = "waiting" /\ calls'[h].nonce = PendingCount
        /\ Receive(Tx(h, PendingCount, BasePrice))
    BY <1>1, <1>10, <2>1, DirectOutcome DEF Moves, Steady
  <2>3. \A tx \in pool' : tx.call \in Calls => tx.nonce < PendingCount
    BY <1>1, <1>7, <2>2 DEF PoolInv
  <2> QED
    BY <1>7, <1>8, <2>2, <2>3
<1>11. CASE Moves(h, {"waiting"}, {"returned"}) /\ Steady(h) /\ HasReceipt(h) /\ UNCHANGED pool
  <2>1. calls'[h].pc = "returned" /\ calls[h].pc = "waiting" /\ calls'[h].nonce = calls[h].nonce
    BY <1>11 DEF Moves, Steady
  <2>2. calls'[h].nonce < Len(mined')
    BY <1>2, <1>11, <2>1 DEF HasReceipt
  <2>3. \A tx \in pool' : tx.call \in Calls => tx.nonce < calls'[h].nonce
    BY <1>1, <1>11, <2>1 DEF DirectInv
  <2> QED
    BY <1>6, <1>8, <1>11, <2>1, <2>2, <2>3
<1> QED
  BY <1>1, <1>9, <1>10, <1>11, DirectOutcome DEF Moves

\* When the first run has failed and updateHaltedState is mined, so is every commit.
LEMMA AllMined ==
    ASSUME SubmissionInv, CalmInv, runState = "halting", calls[CallOf(Halting)].pc = "returned"
    PROVE  Tokens \subseteq OnChain
<1> DEFINE h == CallOf(Halting)
<1>1. /\ SubmissionTypeOK /\ PoolInv /\ FirstRunInv /\ DirectInv /\ run \in Runs
      /\ h \in HaltCalls /\ run = 1
  BY CallOfFacts DEF SubmissionInv, CalmInv, SubmissionTypeOK, FirstRunInv
<1>2. ASSUME NEW tx \in pool PROVE tx.call \notin Calls
  <2>1. calls[h].nonce < Len(mined) /\ Len(mined) <= tx.nonce
    BY <1>1 DEF DirectInv, PoolInv
  <2>2. tx.call \in Calls => tx.nonce < calls[h].nonce
    BY <1>1 DEF DirectInv
  <2>3. tx.nonce \in Nat /\ Len(mined) \in Nat /\ calls[h].nonce \in Nat
    BY <1>1, PendingFacts, CallFacts
  <2> QED
    BY <2>1, <2>2, <2>3
<1> HIDE DEF h
<1>3. ASSUME NEW t \in Tokens, t \notin OnChain PROVE FALSE
  <2>1. visited = Tokens
    BY DEF SubmissionInv, PlacesInv
  <2>2. CallOf(t) \in Calls /\ CallOf(t).token = t /\ calls[CallOf(t)].pc # "idle"
    BY <1>1, <1>3, <2>1, CallOfFacts DEF SubmissionInv, VisitedInv, CommitStarted
  <2>3. calls[CallOf(t)].pc \in LatePlaces
    <3>1. calls[CallOf(t)].pc \in CommitPlaces
      BY <2>2 DEF SubmissionInv, PlacesInv
    <3>2. calls[CallOf(t)].pc \notin EarlyPlaces
      BY <1>1, <2>2 DEF FirstRunInv
    <3> QED
      BY <2>2, <3>1, <3>2 DEF CommitPlaces
  <2>4. PICK tx \in TransactionsOf(CallOf(t)) : TRUE
    BY <1>1, <2>2, <2>3 DEF PoolInv
  <2>5. PICK i \in DOMAIN mined : mined[i].call = CallOf(t)
    BY <1>2, <2>2, <2>4, OwnTransactions
  <2>6. mined[i].status
    BY <1>1, <2>2, <2>5 DEF FirstRunInv
  <2> QED
    BY <1>3, <2>2, <2>5, <2>6 DEF OnChain
<1> QED
  BY <1>3

\* The loop starts commits in the first run only.
LEMMA CalmOperator ==
    ASSUME SubmissionInv, CalmInv, OperatorStep PROVE CalmInv'
<1>1. /\ SubmissionTypeOK /\ PoolInv /\ FirstRunInv /\ DirectInv /\ PlacesInv
      /\ run \in Runs /\ run \in Nat \ {0} /\ visited \subseteq Tokens
      /\ \A t \in Tokens : /\ CallOf(t) \in Calls /\ CallOf(t) \in AllCalls
                           /\ CallOf(t).run = run /\ CallOf(t) \notin HaltCalls
      /\ CallOf(Halting) \in HaltCalls /\ CallOf(Halting) \in AllCalls
      /\ CallOf(Halting).run = run /\ CallOf(Halting) \notin Calls
  BY CallFacts, CallOfFacts, PendingFacts DEF SubmissionInv, CalmInv
<1>2. /\ pool' = pool /\ mined' = mined /\ PendingCount' = PendingCount /\ OnChain' = OnChain
      /\ \A d : TransactionsOf(d)' = TransactionsOf(d)
  BY <1>1, OperatorOutcome DEF nodeVars, PendingCount, OnChain, TransactionsOf
<1>3. ASSUME NEW t \in Tokens \ visited, runState = "looping", visited' = visited \cup {t},
             UNCHANGED <<run, runState>>,
             \/ t \in OnChain /\ UNCHANGED calls
             \/ /\ t \notin OnChain /\ calls'[CallOf(t)].pc = "new"
                /\ calls'[CallOf(t)].sub = calls[CallOf(t)].sub
                /\ \A d \in AllCalls \ {CallOf(t)} : calls'[d] = calls[d]
      PROVE  CalmInv'
  <2>1. \A d \in Calls : calls[d].pc \in {"retrying", "failed"} => run > 1
    BY <1>1, <1>3 DEF FirstRunInv
  <2>2. CASE UNCHANGED calls
    <3>1. PoolInv' /\ DirectInv'
      BY <1>1, <1>2, <2>2 DEF PoolInv, DirectInv
    <3>2. FirstRunInv'
      BY <1>1, <1>2, <1>3, <2>1, <2>2 DEF FirstRunInv
    <3> QED
      BY <3>1, <3>2 DEF CalmInv
  <2>3. CASE ~UNCHANGED calls
    <3> DEFINE c == CallOf(t)
    <3>1. /\ c \in Calls /\ calls'[c].pc = "new" /\ calls'[c].sub = calls[c].sub
          /\ \A d \in AllCalls \ {c} : calls'[d] = calls[d]
          /\ c.run = run /\ run = 1 /\ calls[c].pc = "idle" /\ c \notin HaltCalls
      BY <1>1, <1>3, <2>3 DEF FirstRunInv, PlacesInv
    <3> HIDE DEF c
    <3>2. \A d \in Calls : d # c => calls'[d] = calls[d]
      BY <3>1, CallFacts
    <3>3. \A h \in HaltCalls : calls'[h] = calls[h]
      BY <3>1, CallFacts
    <3>4. PoolInv'
      <4>1. \A d \in Calls : calls'[d].pc = "sending" => calls'[d].nonce = PendingCount
        BY <1>1, <3>1, <3>2 DEF PoolInv
      <4>2. \A d \in Calls : calls'[d].pc \in LatePlaces => TransactionsOf(d) # {}
        BY <1>1, <3>1, <3>2 DEF PoolInv, LatePlaces
      <4> QED
        BY <1>1, <1>2, <4>1, <4>2 DEF PoolInv
    <3>5. FirstRunInv'
      <4>1. \A d \in Calls : /\ calls'[d].pc \in {"idle"} \cup EarlyPlaces => calls'[d].sub = 0
                             /\ calls'[d].pc # "idle" => d.run = 1
                             /\ calls'[d].pc \notin {"retrying", "failed"}
        BY <1>1, <2>1, <3>1, <3>2 DEF FirstRunInv
      <4> QED
        BY <1>1, <1>2, <1>3, <3>1, <4>1 DEF FirstRunInv
    <3>6. DirectInv'
      BY <1>1, <1>2, <3>3 DEF DirectInv
    <3> QED
      BY <3>4, <3>5, <3>6 DEF CalmInv
  <2> QED
    BY <1>3, <2>2, <2>3
<1>4. CASE resolves
  <2>1. /\ run' = run /\ visited' = visited /\ calls' = calls /\ runState' = "resolved"
        /\ runState = "looping" /\ visited = Tokens
        /\ \A t \in Tokens : CommitStarted(t) => calls[CallOf(t)].pc = "returned"
    BY <1>4 DEF resolves
  <2>2. \A c \in Calls : calls[c].pc \notin EarlyPlaces
    <3>1. ASSUME NEW c \in Calls, calls[c].pc \in EarlyPlaces PROVE FALSE
      <4>1. c.run = run /\ c.token \in Tokens
        BY <3>1, EarlyAlone, CallFacts
      <4>2. c = CallOf(c.token)
        BY <1>1, <4>1, CallOfFacts
      <4>3. CommitStarted(c.token)
        BY <1>1, <3>1, <4>1, <4>2 DEF CommitStarted, EarlyPlaces
      <4> QED
        BY <2>1, <3>1, <4>1, <4>2, <4>3 DEF EarlyPlaces
    <3> QED
      BY <3>1
  <2>3. PoolInv' /\ DirectInv'
    BY <1>1, <1>2, <2>1 DEF PoolInv, DirectInv
  <2>4. FirstRunInv'
    BY <1>1, <1>2, <2>1, <2>2 DEF FirstRunInv
  <2> QED
    BY <2>3, <2>4 DEF CalmInv
<1>5. ASSUME runState = "looping", visited = Tokens, runState' = "halting",
             \E t \in Tokens : CommitStarted(t) /\ calls[CallOf(t)].pc = "failed",
             calls'[CallOf(Halting)].pc = "direct",
             \A d \in AllCalls \ {CallOf(Halting)} : calls'[d] = calls[d],
             UNCHANGED <<run, visited>>
      PROVE  CalmInv'
  <2> DEFINE h == CallOf(Halting)
  <2>1. run = 1 /\ \A d \in Calls : calls[d].pc \notin EarlyPlaces
    <3>1. PICK t \in Tokens : calls[CallOf(t)].pc = "failed"
      BY <1>5
    <3> QED
      BY <1>1, <3>1 DEF FirstRunInv
  <2>2. /\ h.run = 1 /\ h \in HaltCalls /\ calls'[h].pc = "direct"
        /\ \A g \in HaltCalls : g # h => calls'[g] = calls[g]
        /\ \A d \in Calls : calls'[d] = calls[d]
    BY <1>1, <1>5, <2>1, CallFacts
  <2> HIDE DEF h
  <2>3. PoolInv'
    BY <1>1, <1>2, <2>2 DEF PoolInv
  <2>4. FirstRunInv'
    BY <1>1, <1>2, <1>5, <2>1, <2>2 DEF FirstRunInv
  <2>5. DirectInv'
    <3>1. ASSUME NEW g \in HaltCalls, g # h
          PROVE  /\ calls'[g].pc # "idle" => g.run = 1
                 /\ calls'[g].pc # "failed"
                 /\ calls'[g].pc = "directSending" => calls'[g].nonce = PendingCount'
                 /\ calls'[g].pc = "returned" => calls'[g].nonce < Len(mined')
                 /\ calls'[g].pc \in {"waiting", "returned"} =>
                       \A tx \in pool' : tx.call \in Calls => tx.nonce < calls'[g].nonce
      BY <1>1, <1>2, <2>2, <3>1 DEF DirectInv
    <3> QED
      BY <2>2, <3>1 DEF DirectInv
  <2> QED
    BY <2>3, <2>4, <2>5 DEF CalmInv
<1>6. CASE nextRun
  <2>1. /\ runState = "halting" /\ calls' = calls
        /\ calls[CallOf(Halting)].pc = "returned"
    BY <1>1, <1>6 DEF nextRun, DirectInv
  <2>2. Tokens \subseteq OnChain /\ \A c \in Calls : calls[c].pc \notin EarlyPlaces
    BY <1>1, <2>1, AllMined, EarlyAlone
  <2>3. /\ run' = run \/ run' = run + 1
        /\ runState' # "halting"
        /\ run' > 1 \/ visited' = visited
    BY <1>1, <1>6 DEF nextRun
  <2>4. PoolInv' /\ DirectInv'
    BY <1>1, <1>2, <2>1 DEF PoolInv, DirectInv
  <2>5. FirstRunInv'
    BY <1>1, <1>2, <2>1, <2>2, <2>3 DEF FirstRunInv
  <2> QED
    BY <2>4, <2>5 DEF CalmInv
<1> QED
  BY <1>1, <1>3, <1>4, <1>5, <1>6, OperatorOutcome

LEMMA CalmStep ==
    SubmissionInv /\ MutexInv /\ Undisturbed' /\ [SubmissionNext]_submissionVars => CalmInv'
<1> SUFFICES ASSUME SubmissionInv, MutexInv, Undisturbed', [SubmissionNext]_submissionVars
             PROVE  CalmInv'
  OBVIOUS
<1>1. SubmissionTypeOK /\ PlacesInv
  BY DEF SubmissionInv
<1>2. \A kind \in AllFaults : faults[kind] \in Nat /\ faults[kind] <= faults'[kind]
  BY <1>1, FaultsGrow
<1>3. Undisturbed /\ CalmInv
  BY <1>2 DEF Undisturbed, SubmissionInv
<1>4. CASE resumeNonce
  <2>1. PICK c \in Calls : /\ Moves(c, {"locking"}, {"asking", "locking"}) /\ Steady(c)
                           /\ UNCHANGED <<nodeVars, runVars>>
    BY <1>1, <1>4, ResumeOutcome
  <2>2. /\ {"locking"} \subseteq EarlyPlaces /\ {"asking", "locking"} \subseteq EarlyPlaces
        /\ calls'[c].pc # "sending" /\ calls'[c].sub = calls[c].sub
    BY <2>1 DEF EarlyPlaces, Moves, Steady
  <2> QED
    BY <1>3, <2>1, <2>2, EarlyMove
<1>5. ASSUME NEW c \in Calls, CommitStep(c) PROVE CalmInv'
  <2>1. CASE lockNonce(c)
    <3>1. /\ Moves(c, {"new"}, {"asking", "locking"}) /\ Steady(c)
          /\ UNCHANGED <<nodeVars, runVars>>
      BY <1>1, <2>1, LockOutcome
    <3>2. /\ {"new"} \subseteq EarlyPlaces /\ {"asking", "locking"} \subseteq EarlyPlaces
          /\ calls'[c].pc # "sending" /\ calls'[c].sub = calls[c].sub
      BY <3>1 DEF EarlyPlaces, Moves, Steady
    <3> QED
      BY <1>3, <3>1, <3>2, EarlyMove
  <2>2. CASE getTransactionCount(c)
    <3>1. /\ Moves(c, {"asking"}, {"sending"}) /\ UNCHANGED <<nodeVars, runVars>>
          /\ calls'[c].nonce = PendingCount /\ calls'[c].sub = calls[c].sub
      BY <1>1, <2>2, CountOutcome
    <3>2. {"asking"} \subseteq EarlyPlaces /\ {"sending"} \subseteq EarlyPlaces
      BY DEF EarlyPlaces
    <3> QED
      BY <1>3, <3>1, <3>2, EarlyMove
  <2> QED
    BY <1>3, <1>5, <2>1, <2>2, CalmNew, CalmRetry, CalmPoll DEF CommitStep
<1>6. CASE UNCHANGED submissionVars
  <2>1. /\ pool' = pool /\ mined' = mined /\ run' = run /\ runState' = runState
        /\ visited' = visited /\ calls' = calls
    BY <1>6 DEF submissionVars, nodeVars, runVars
  <2>2. /\ PendingCount' = PendingCount /\ OnChain' = OnChain
        /\ \A d : TransactionsOf(d)' = TransactionsOf(d)
    BY <2>1 DEF PendingCount, OnChain, TransactionsOf
  <2>3. PoolInv' /\ FirstRunInv' /\ DirectInv'
    BY <1>3, <2>1, <2>2 DEF CalmInv, PoolInv, FirstRunInv, DirectInv
  <2> QED
    BY <2>3 DEF CalmInv
<1> QED
  BY <1>3, <1>4, <1>5, <1>6, CalmMine, CalmOperator, CalmDirect DEF SubmissionNext

LEMMA SubmissionAtStart == SubmissionInit => SubmissionInv
<1> SUFFICES ASSUME SubmissionInit PROVE SubmissionInv
  OBVIOUS
<1>1. /\ pool = {} /\ mined = <<>> /\ run = 1 /\ runState = "looping" /\ visited = {}
      /\ \A c \in AllCalls : calls[c].pc = "idle" /\ calls[c].sub = 0
  BY DEF SubmissionInit
<1>2. Calls \subseteq AllCalls /\ HaltCalls \subseteq AllCalls
  BY CallFacts
<1>3. ReportsAreTrue
  BY <1>1, <1>2 DEF ReportsAreTrue, ReturnsForItsOwn, DoneIsCommitted
<1>4. VisitedInv
  BY <1>1 DEF VisitedInv
<1>5. CalmInv
  <2>1. PoolInv
    BY <1>1, <1>2 DEF PoolInv, LatePlaces
  <2>2. FirstRunInv
    BY <1>1, <1>2 DEF FirstRunInv, EarlyPlaces
  <2>3. DirectInv
    BY <1>1, <1>2 DEF DirectInv
  <2> QED
    BY <2>1, <2>2, <2>3 DEF CalmInv
<1> QED
  BY <1>3, <1>4, <1>5, TypesAtStart, PlacesAtStart, NonceAtStart DEF SubmissionInv

LEMMA SubmissionStep ==
    SubmissionInv /\ MutexInv /\ [SubmissionNext]_submissionVars => SubmissionInv'
<1> SUFFICES ASSUME SubmissionInv, MutexInv, [SubmissionNext]_submissionVars
             PROVE  SubmissionInv'
  OBVIOUS
<1>1. SubmissionTypeOK /\ PlacesInv /\ ReportsAreTrue /\ VisitedInv /\ NonceInv
  BY DEF SubmissionInv
<1>2. SubmissionTypeOK'
  BY <1>1, TypesStep
<1>3. PlacesInv'
  BY <1>1, PlacesStep
<1>4. ReportsAreTrue' /\ VisitedInv'
  BY <1>1, ReportsStep, VisitedStep
<1>5. NonceInv'
  BY <1>1, NonceStep
<1>6. Undisturbed' => CalmInv'
  BY CalmStep
<1> QED
  BY <1>2, <1>3, <1>4, <1>5, <1>6 DEF SubmissionInv

LEMMA SubmissionInvariant == SubmissionSpec => []SubmissionInv
BY SubmissionAtStart, SubmissionStep, LockInv, PTL DEF SubmissionSpec

\* Every state has its type, for any number of tokens, runs, repetitions and faults.
THEOREM SubmissionIsTyped == SubmissionSpec => []SubmissionTypeOK
<1>1. SubmissionInv => SubmissionTypeOK
  BY DEF SubmissionInv
<1> QED
  BY <1>1, SubmissionInvariant, PTL

\* A call returns for a transaction of its own that has been executed, and a round
\* that the operator takes for committed has all its roots on the chain, whatever
\* is refused, lost or slow.
THEOREM ReportsAreAlwaysTrue == SubmissionSpec => []ReportsAreTrue
<1>1. SubmissionInv => ReportsAreTrue
  BY DEF SubmissionInv
<1> QED
  BY <1>1, SubmissionInvariant, PTL

\* However often a call is repeated, at most one of its transactions can be mined,
\* unless an answer is lost; and no first submission is refused while the node
\* answers in time, however many calls interleave.
THEOREM NoncesAreAlwaysOwn == SubmissionSpec => []NoncesAreOwn
<1>1. SubmissionInv => NoncesAreOwn
  <2> SUFFICES ASSUME SubmissionInv PROVE NoncesAreOwn
    OBVIOUS
  <2>1. ASSUME faults.lost = 0, NEW c \in Calls
        PROVE  Cardinality({tx.nonce : tx \in TransactionsOf(c)}) <= 1
    <3> DEFINE nonces == {tx.nonce : tx \in TransactionsOf(c)}
    <3>1. nonces \subseteq {calls[c].nonce}
      BY <2>1 DEF SubmissionInv, NonceInv
    <3> HIDE DEF nonces
    <3>2. IsFiniteSet({calls[c].nonce}) /\ Cardinality({calls[c].nonce}) = 1
      BY FS_Singleton
    <3>3. Cardinality(nonces) <= 1
      BY <3>1, <3>2, FS_Subset
    <3> QED
      BY <3>3 DEF nonces
  <2>2. FirstSubmissionAccepted
    BY DEF FirstSubmissionAccepted, SubmissionInv, CalmInv, FirstRunInv, EarlyPlaces
  <2> QED
    BY <2>1, <2>2 DEF NoncesAreOwn, OneNonceOfACall
<1> QED
  BY <1>1, SubmissionInvariant, PTL
=============================================================================
