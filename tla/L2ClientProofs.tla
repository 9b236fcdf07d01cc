----------------------------- MODULE L2ClientProofs -----------------------------
(***************************************************************************)
(* Proofs about the client: its ledger is never ahead of the contract and  *)
(* of the server; and as long as nothing goes wrong it is not behind       *)
(* either, disputes all that is wrong, and holds the proofs it needs.      *)
(***************************************************************************)
EXTENDS L2ClientInvariant, Sums, TLAPS

\* A flow goes on, and the others stay where they are.
LEMMA OneFlow ==
    ASSUME flow = [f \in Flows |-> flow[f]], NEW f \in Flows, NEW new, Become(f, new)
    PROVE  /\ flow' = [g \in Flows |-> flow'[g]]
           /\ flow'[f] = new
           /\ \A g \in Flows \ {f} : flow'[g] = flow[g]
<1>1. DOMAIN flow = Flows
  OBVIOUS
<1>2. flow' = [g \in Flows |-> IF g = f THEN new ELSE flow[g]]
  BY <1>1 DEF Become
<1> QED
  BY <1>2

LEMMA UserIsAFlow == User \in Flows
BY DEF Flows

\* The names of the places are not names of orders.
LEMMA PlaceIsNoOrder == ASSUME NEW pc \in Places PROVE pc \notin Orders
BY ClientAssumption

\* A flow that fetches no fills and goes on to a place of the code.
LEMMA PlainFlow ==
    ASSUME NEW pc \in Places, pc # "insertFills", NEW arg, NEW got,
           NEW then \in {"idle", "confirm", "synced"}, NEW orders
    PROVE  FlowOK([pc |-> pc, arg |-> arg, got |-> got, then |-> then], orders)
<1>1. pc \notin Orders /\ then \notin Orders
  BY PlaceIsNoOrder DEF Places
<1> QED
  BY <1>1 DEF FlowOK

LEMMA FlowGoesOn ==
    ASSUME NEW x, NEW orders, FlowOK(x, orders), NEW pc \in Places, pc # "insertFills",
           NEW arg, NEW got
    PROVE  FlowOK([pc |-> pc, arg |-> arg, got |-> got, then |-> x.then], orders)
<1>1. pc \notin Orders
  BY PlaceIsNoOrder
<1> DEFINE t == x.then
<1>2. t \in {"idle", "confirm", "synced"} \cup Orders
      /\ \A o \in Orders : t = o => orders[o].status = "canceled"
  BY DEF FlowOK
<1> HIDE DEF t
<1>3. FlowOK([pc |-> pc, arg |-> arg, got |-> got, then |-> t], orders)
  BY <1>1, <1>2 DEF FlowOK
<1> QED
  BY <1>3 DEF t

(* What the updates of a flow leave of it. *)

LEMMA UpdatedPlace ==
    ASSUME NEW x, NEW orders, FlowOK(x, orders), NEW pc
    PROVE  [x EXCEPT !.pc = pc] = [pc |-> pc, arg |-> x.arg, got |-> x.got, then |-> x.then]
<1> DEFINE y == [x EXCEPT !.pc = pc]
<1>1. x = [pc |-> x.pc, arg |-> x.arg, got |-> x.got, then |-> x.then]
  BY DEF FlowOK
<1>2. DOMAIN x = {"pc", "arg", "got", "then"}
  BY <1>1
<1>3. DOMAIN y = {"pc", "arg", "got", "then"} /\ y = [k \in DOMAIN y |-> y[k]]
  BY <1>2
<1>4. y.pc = pc /\ y.arg = x.arg /\ y.got = x.got /\ y.then = x.then
  BY <1>2
<1> HIDE DEF y
<1>5. y = [pc |-> pc, arg |-> x.arg, got |-> x.got, then |-> x.then]
  BY <1>3, <1>4
<1> QED
  BY <1>5 DEF y

LEMMA UpdatedResult ==
    ASSUME NEW x, NEW orders, FlowOK(x, orders), NEW pc, NEW got
    PROVE  [x EXCEPT !.pc = pc, !.got = got] = [pc |-> pc, arg |-> x.arg, got |-> got, then |-> x.then]
<1> DEFINE y == [x EXCEPT !.pc = pc, !.got = got]
<1>1. x = [pc |-> x.pc, arg |-> x.arg, got |-> x.got, then |-> x.then]
  BY DEF FlowOK
<1>2. DOMAIN x = {"pc", "arg", "got", "then"}
  BY <1>1
<1>3. DOMAIN y = {"pc", "arg", "got", "then"} /\ y = [k \in DOMAIN y |-> y[k]]
  BY <1>2
<1>4. y.pc = pc /\ y.arg = x.arg /\ y.got = got /\ y.then = x.then
  BY <1>2
<1> HIDE DEF y
<1>5. y = [pc |-> pc, arg |-> x.arg, got |-> got, then |-> x.then]
  BY <1>3, <1>4
<1> QED
  BY <1>5 DEF y

LEMMA UpdatedCall ==
    ASSUME NEW x, NEW orders, FlowOK(x, orders), NEW pc, NEW arg
    PROVE  [x EXCEPT !.pc = pc, !.arg = arg] = [pc |-> pc, arg |-> arg, got |-> x.got, then |-> x.then]
<1> DEFINE y == [x EXCEPT !.pc = pc, !.arg = arg]
<1>1. x = [pc |-> x.pc, arg |-> x.arg, got |-> x.got, then |-> x.then]
  BY DEF FlowOK
<1>2. DOMAIN x = {"pc", "arg", "got", "then"}
  BY <1>1
<1>3. DOMAIN y = {"pc", "arg", "got", "then"} /\ y = [k \in DOMAIN y |-> y[k]]
  BY <1>2
<1>4. y.pc = pc /\ y.arg = arg /\ y.got = x.got /\ y.then = x.then
  BY <1>2
<1> HIDE DEF y
<1>5. y = [pc |-> pc, arg |-> arg, got |-> x.got, then |-> x.then]
  BY <1>3, <1>4
<1> QED
  BY <1>5 DEF y

LEMMA UpdatedArgument ==
    ASSUME NEW x, NEW orders, FlowOK(x, orders), NEW arg
    PROVE  [x EXCEPT !.arg = arg] = [pc |-> x.pc, arg |-> arg, got |-> x.got, then |-> x.then]
<1> DEFINE y == [x EXCEPT !.arg = arg]
<1>1. x = [pc |-> x.pc, arg |-> x.arg, got |-> x.got, then |-> x.then]
  BY DEF FlowOK
<1>2. DOMAIN x = {"pc", "arg", "got", "then"}
  BY <1>1
<1>3. DOMAIN y = {"pc", "arg", "got", "then"} /\ y = [k \in DOMAIN y |-> y[k]]
  BY <1>2
<1>4. y.pc = x.pc /\ y.arg = arg /\ y.got = x.got /\ y.then = x.then
  BY <1>2
<1> HIDE DEF y
<1>5. y = [pc |-> x.pc, arg |-> arg, got |-> x.got, then |-> x.then]
  BY <1>3, <1>4
<1> QED
  BY <1>5 DEF y

LEMMA FlowEnds == ASSUME NEW orders PROVE FlowOK(Idle, orders) /\ UserOK(Idle, orders)
<1>1. FlowOK([pc |-> "idle", arg |-> Never, got |-> {}, then |-> "idle"], orders)
  BY PlainFlow DEF Places
<1> QED
  BY <1>1 DEF Idle, UserOK

-----------------------------------------------------------------------------
(* The steps of a flow that change neither table nor balance. *)

\* Nothing was credited or ordered, and the flow is where it may be.
LEMMA QuietStep ==
    ASSUME LedgerInv, NEW f \in Flows, NEW new, Become(f, new),
           UNCHANGED <<known, placed, credited, deposited>>,
           FlowOK(new, placed),
           f = User => UserOK(new, placed) /\ new.pc # "credit"
    PROVE  LedgerInv'
<1>1. /\ flow' = [g \in Flows |-> flow'[g]] /\ flow'[f] = new
      /\ \A g \in Flows \ {f} : flow'[g] = flow[g]
  BY OneFlow DEF LedgerInv
<1>2. \A g \in Flows : FlowOK(flow'[g], placed)
  BY <1>1 DEF LedgerInv
<1>3. UserOK(flow'[User], placed)
  BY <1>1, UserIsAFlow DEF LedgerInv
<1>4. CreditsOK'
  <2>1. \A r \in Rounds : credited[r] \in Nat /\ deposited[r] \in Nat
    BY DEF LedgerInv
  <2>2. flow'[User].pc = "credit" => flow'[User] = flow[User]
    BY <1>1, UserIsAFlow
  <2> QED
    BY <2>1, <2>2 DEF LedgerInv, CreditsOK, At
<1>5. placed' = placed /\ known' = known
  OBVIOUS
<1> QED
  BY <1>1, <1>2, <1>3, <1>4, <1>5 DEF LedgerInv, IsOrderTable

\* The places that the ledger says nothing of.
PlainPlaces == Places \ {"insertFills", "sendOrder", "insertOrder", "credit"}

LEMMA PlainPlaceOK ==
    ASSUME NEW pc \in PlainPlaces
    PROVE  /\ pc \in Places /\ pc # "insertFills" /\ pc # "credit"
           /\ \A x, orders : x.pc = pc => UserOK(x, orders)
BY DEF PlainPlaces, UserOK

\* The flow goes on at another place, with another argument or result.
GoesOn(f, pc) ==
    \E arg, got : Become(f, [pc |-> pc, arg |-> arg, got |-> got, then |-> flow[f].then])

LEMMA GoesOnIs ==
    ASSUME LedgerInv, NEW f \in Flows, NEW pc, NEW n,
           \/ Go(f, pc) \/ GoWith(f, pc, n)
           \/ Become(f, [flow[f] EXCEPT !.pc = pc, !.arg = n])
           \/ pc = flow[f].pc /\ Become(f, [flow[f] EXCEPT !.arg = n])
    PROVE  GoesOn(f, pc)
<1> DEFINE x == flow[f]
<1>1. FlowOK(x, placed)
  BY DEF LedgerInv
<1>2. CASE Go(f, pc)
  <2>1. Become(f, [x EXCEPT !.pc = pc])
    BY <1>2 DEF Go
  <2> HIDE DEF x
  <2>2. Become(f, [pc |-> pc, arg |-> x.arg, got |-> x.got, then |-> x.then])
    BY <1>1, <2>1, UpdatedPlace
  <2> QED
    BY <2>2 DEF GoesOn, x
<1>3. CASE GoWith(f, pc, n)
  <2>1. Become(f, [x EXCEPT !.pc = pc, !.got = n])
    BY <1>3 DEF GoWith
  <2> HIDE DEF x
  <2>2. Become(f, [pc |-> pc, arg |-> x.arg, got |-> n, then |-> x.then])
    BY <1>1, <2>1, UpdatedResult
  <2> QED
    BY <2>2 DEF GoesOn, x
<1>4. CASE Become(f, [x EXCEPT !.pc = pc, !.arg = n])
  <2> HIDE DEF x
  <2>1. Become(f, [pc |-> pc, arg |-> n, got |-> x.got, then |-> x.then])
    BY <1>1, <1>4, UpdatedCall
  <2> QED
    BY <2>1 DEF GoesOn, x
<1>5. CASE pc = x.pc /\ Become(f, [x EXCEPT !.arg = n])
  <2> HIDE DEF x
  <2>1. Become(f, [pc |-> pc, arg |-> n, got |-> x.got, then |-> x.then])
    BY <1>1, <1>5, UpdatedArgument
  <2> QED
    BY <2>1 DEF GoesOn, x
<1> QED
  BY <1>2, <1>3, <1>4, <1>5

LEMMA QuietGo ==
    ASSUME LedgerInv, NEW f \in Flows, UNCHANGED <<known, placed, credited, deposited>>,
           NEW pc \in PlainPlaces, GoesOn(f, pc)
    PROVE  LedgerInv'
<1>1. PICK arg, got :
         Become(f, [pc |-> pc, arg |-> arg, got |-> got, then |-> flow[f].then])
  BY DEF GoesOn
<1> DEFINE new == [pc |-> pc, arg |-> arg, got |-> got, then |-> flow[f].then]
<1>2. FlowOK(flow[f], placed)
  BY DEF LedgerInv
<1>3. FlowOK(new, placed)
  BY <1>2, PlainPlaceOK, FlowGoesOn
<1>4. new.pc = pc /\ Become(f, new)
  BY <1>1
<1> HIDE DEF new
<1> QED
  BY <1>3, <1>4, PlainPlaceOK, QuietStep

LEMMA QuietEnd ==
    ASSUME LedgerInv, NEW f \in Flows, End(f),
           UNCHANGED <<known, placed, credited, deposited>>
    PROVE  LedgerInv'
<1>1. Become(f, Idle) /\ Idle.pc # "credit"
  BY DEF End, Idle
<1> QED
  BY <1>1, FlowEnds, QuietStep

LEMMA QuietStart ==
    ASSUME LedgerInv, NEW f \in Flows, UNCHANGED <<known, placed, credited, deposited>>,
           NEW pc \in PlainPlaces, NEW arg, NEW got, NEW then \in {"idle", "confirm", "synced"},
           Become(f, [pc |-> pc, arg |-> arg, got |-> got, then |-> then])
    PROVE  LedgerInv'
<1> DEFINE new == [pc |-> pc, arg |-> arg, got |-> got, then |-> then]
<1>1. FlowOK(new, placed) /\ new.pc = pc
  BY PlainPlaceOK, PlainFlow
<1>2. Become(f, new)
  OBVIOUS
<1> HIDE DEF new
<1> QED
  BY <1>1, <1>2, PlainPlaceOK, QuietStep

LEMMA NoFlow ==
    ASSUME LedgerInv, UNCHANGED <<known, placed, credited, deposited, flow>>
    PROVE  LedgerInv'
BY DEF LedgerInv, IsOrderTable, CreditsOK, At

-----------------------------------------------------------------------------
(* The steps that change a table. *)

\* An order that is filled or cancelled stays so.
Advances(before, after) ==
    \A o \in Orders : before[o].status \in {"filled", "canceled"} => after[o] = before[o]

LEMMA FlowAdvances ==
    ASSUME NEW x, NEW before, NEW after, FlowOK(x, before), Advances(before, after)
    PROVE  FlowOK(x, after)
<1>1. \A r : FillsOf(before, r) \subseteq FillsOf(after, r)
  BY DEF Advances, FillsOf
<1> QED
  BY <1>1 DEF FlowOK, Advances

LEMMA TableStep ==
    ASSUME LedgerInv, NEW f \in Flows, NEW new, Become(f, new),
           UNCHANGED <<credited, deposited>>,
           IsOrderTable(known'), IsOrderTable(placed'), Advances(placed, placed'),
           FlowOK(new, placed'),
           f = User => UserOK(new, placed') /\ new.pc # "credit",
           f # User => UserOK(flow[User], placed'),
           \A o \in Orders : OrderOK(known'[o], placed'[o])
    PROVE  LedgerInv'
<1>1. /\ flow' = [g \in Flows |-> flow'[g]] /\ flow'[f] = new
      /\ \A g \in Flows \ {f} : flow'[g] = flow[g]
  BY OneFlow DEF LedgerInv
<1>2. \A g \in Flows : FlowOK(flow'[g], placed')
  BY <1>1, FlowAdvances DEF LedgerInv
<1>3. UserOK(flow'[User], placed')
  BY <1>1, UserIsAFlow
<1>4. CreditsOK'
  <2>1. \A r \in Rounds : credited[r] \in Nat /\ deposited[r] \in Nat
    BY DEF LedgerInv
  <2>2. flow'[User].pc = "credit" => flow'[User] = flow[User]
    BY <1>1, UserIsAFlow
  <2> QED
    BY <2>1, <2>2 DEF LedgerInv, CreditsOK, At
<1>5. credited' \in [Rounds -> Nat] /\ deposited' \in [Rounds -> Nat]
  BY DEF LedgerInv
<1> QED
  BY <1>1, <1>2, <1>3, <1>4, <1>5 DEF LedgerInv

LEMMA StaysAdvanced == Advances(placed, placed)
BY DEF Advances

\* The fills that the server has given belong to orders that it has filled.
LEMMA ReceivedOK ==
    ASSUME LedgerInv, NEW r, NEW got \in SUBSET FillsOf(placed, r),
           known' = onReceiveFills(got, r)
    PROVE  IsOrderTable(known') /\ \A o \in Orders : OrderOK(known'[o], placed[o])
<1>1. /\ \A o \in Orders : known[o] = [status |-> known[o].status, round |-> known[o].round]
      /\ \A o \in Orders : placed[o] = [status |-> placed[o].status, round |-> placed[o].round]
  BY DEF LedgerInv, IsOrderTable
<1>2. ASSUME NEW o \in Orders
      PROVE  /\ known'[o] = [status |-> known'[o].status, round |-> known'[o].round]
             /\ OrderOK(known'[o], placed[o])
  <2>1. CASE o \in got /\ known[o].status = "open" /\ known[o].round = r
    <3> DEFINE k == known[o]
               new == [k EXCEPT !.status = "filled"]
    <3>1. known'[o] = new
      BY <2>1 DEF onReceiveFills
    <3>2. k = [status |-> k.status, round |-> k.round] /\ k.round = r
      BY <1>1, <2>1
    <3> HIDE DEF k
    <3>3. DOMAIN new = {"status", "round"} /\ new = [n \in DOMAIN new |-> new[n]]
      BY <3>2
    <3>4. new.status = "filled" /\ new.round = r
      BY <3>2
    <3> HIDE DEF new
    <3>5. new = [status |-> "filled", round |-> r]
      BY <3>3, <3>4
    <3>6. placed[o].status = "filled" /\ placed[o].round = r
      BY <2>1 DEF FillsOf
    <3>7. placed[o] = [status |-> "filled", round |-> r]
      BY <1>1, <3>6
    <3>8. known'[o] = [status |-> "filled", round |-> r]
      BY <3>1, <3>5
    <3> HIDE DEF new
    <3> QED
      BY <3>7, <3>8 DEF OrderOK
  <2>2. CASE ~(o \in got /\ known[o].status = "open" /\ known[o].round = r)
    <3>1. known'[o] = known[o]
      BY <2>2 DEF onReceiveFills
    <3> QED
      BY <1>1, <3>1 DEF LedgerInv
  <2> QED
    BY <2>1, <2>2
<1>3. known' = [o \in Orders |-> known'[o]]
  BY DEF onReceiveFills
<1> QED
  BY <1>2, <1>3 DEF IsOrderTable

\* A flow that has been fetching, or disputing, goes on where it was to.
LEMMA GoesToThen ==
    ASSUME LedgerInv, NEW f \in Flows, Go(f, flow[f].then)
    PROVE  \E new : Become(f, new) /\ FlowOK(new, placed) /\ UserOK(new, placed)
                    /\ new.pc # "credit"
<1> DEFINE x == flow[f]
           then == x.then
           new == [pc |-> then, arg |-> x.arg, got |-> x.got, then |-> then]
<1>1. FlowOK(x, placed)
  BY DEF LedgerInv
<1>2. Become(f, [x EXCEPT !.pc = then])
  BY DEF Go
<1>3. /\ then \in {"idle", "confirm", "synced"} \cup Orders
      /\ \A o \in Orders : then = o => placed[o].status = "canceled"
  BY <1>1 DEF FlowOK
<1> HIDE DEF then, x
<1>4. Become(f, new)
  <2>1. [x EXCEPT !.pc = then] = [pc |-> then, arg |-> x.arg, got |-> x.got, then |-> x.then]
    BY <1>1, UpdatedPlace
  <2> QED
    BY <1>2, <2>1 DEF then
<1>5. /\ then \notin {"insertFills", "sendOrder", "insertOrder", "credit"}
      /\ then \in Places \cup Orders
  <2>1. \A pc \in {"insertFills", "sendOrder", "insertOrder", "credit"} : pc \notin Orders
    BY PlaceIsNoOrder DEF Places
  <2> QED
    BY <1>3, <2>1 DEF Places
<1>6. FlowOK(new, placed) /\ UserOK(new, placed) /\ new.pc # "credit"
  BY <1>3, <1>5 DEF FlowOK, UserOK
<1> HIDE DEF new
<1> QED
  BY <1>4, <1>6

LEMMA QuietThen ==
    ASSUME LedgerInv, NEW f \in Flows, Go(f, flow[f].then),
           UNCHANGED <<known, placed, credited, deposited>>
    PROVE  LedgerInv'
BY GoesToThen, QuietStep

LEMMA InsertFillsOK ==
    ASSUME LedgerInv, NEW f \in Flows, insertFills(f) PROVE LedgerInv'
<1> DEFINE x == flow[f]
<1>1. /\ x.pc = "insertFills" /\ known' = onReceiveFills(x.got, x.arg)
      /\ End(f) \/ Go(f, x.then)
      /\ UNCHANGED <<placed, credited, deposited>>
  BY DEF insertFills, At, chainVars, serverVars
<1>2. FlowOK(x, placed)
  BY DEF LedgerInv
<1>3. x.got \in SUBSET FillsOf(placed, x.arg)
  BY <1>1, <1>2 DEF FlowOK
<1>4. IsOrderTable(known') /\ \A o \in Orders : OrderOK(known'[o], placed'[o])
  BY <1>1, <1>3, ReceivedOK
<1>5. IsOrderTable(placed') /\ Advances(placed, placed') /\ UserOK(flow[User], placed')
  BY <1>1, StaysAdvanced DEF LedgerInv
<1>6. \E new : Become(f, new) /\ FlowOK(new, placed) /\ UserOK(new, placed)
               /\ new.pc # "credit"
  <2>1. CASE End(f)
    BY <2>1, FlowEnds DEF End, Idle
  <2>2. CASE Go(f, x.then)
    BY <2>2, GoesToThen
  <2> QED
    BY <1>1, <2>1, <2>2
<1> HIDE DEF x
<1> QED
  BY <1>1, <1>4, <1>5, <1>6, TableStep

\* One round of the fills that were missed.
LEMMA SyncFetchOK == ASSUME LedgerInv, syncFetch PROVE LedgerInv'
<1> DEFINE x == flow[User]
<1>1. CASE Refuse(User, "idle")
  <2>1. End(User) /\ UNCHANGED <<known, placed, credited, deposited>>
    BY <1>1 DEF Refuse, chainVars, serverVars, databaseVars
  <2> QED
    BY <2>1, UserIsAFlow, QuietEnd
<1>2. CASE ~Refuse(User, "idle")
  <2>1. PICK given \in SUBSET Orders :
           FillsGiven(x.arg, given) /\ known' = onReceiveFills(given, x.arg)
    BY <1>2 DEF syncFetch
  <2>2. /\ Become(User, [x EXCEPT !.pc = "syncFills", !.arg = x.arg + 1])
        /\ UNCHANGED <<placed, credited, deposited>>
    BY <1>2 DEF syncFetch, chainVars, serverVars
  <2>3. given \in SUBSET FillsOf(placed, x.arg)
    BY <2>1 DEF FillsGiven
  <2>4. IsOrderTable(known') /\ \A o \in Orders : OrderOK(known'[o], placed'[o])
    BY <2>1, <2>2, <2>3, ReceivedOK
  <2>5. IsOrderTable(placed') /\ Advances(placed, placed')
    BY <2>2, StaysAdvanced DEF LedgerInv
  <2>6. GoesOn(User, "syncFills")
    BY <2>2, UserIsAFlow, GoesOnIs
  <2>7. \E new : Become(User, new) /\ FlowOK(new, placed) /\ new.pc = "syncFills"
    <3>1. PICK arg, got :
             Become(User, [pc |-> "syncFills", arg |-> arg, got |-> got, then |-> x.then])
      BY <2>6 DEF GoesOn
    <3> DEFINE new == [pc |-> "syncFills", arg |-> arg, got |-> got, then |-> x.then]
    <3>2. FlowOK(x, placed)
      BY UserIsAFlow DEF LedgerInv
    <3>3. FlowOK(new, placed)
      BY <3>2, FlowGoesOn DEF Places
    <3>4. new.pc = "syncFills" /\ Become(User, new)
      BY <3>1
    <3> HIDE DEF new
    <3> QED
      BY <3>3, <3>4
  <2>8. PICK new : Become(User, new) /\ FlowOK(new, placed) /\ new.pc = "syncFills"
    BY <2>7
  <2>9. UserOK(new, placed') /\ new.pc # "credit"
    BY <2>8 DEF UserOK
  <2> QED
    BY <2>2, <2>4, <2>5, <2>8, <2>9, UserIsAFlow, TableStep
<1> QED
  BY <1>1, <1>2

SetsStatus(next, table, o, status) == next = [table EXCEPT ![o].status = status]

\* What a row of a table of orders becomes when its status changes.
LEMMA RowUpdated ==
    ASSUME NEW table, IsOrderTable(table), NEW o \in Orders, NEW status, NEW next,
           SetsStatus(next, table, o, status)
    PROVE  /\ IsOrderTable(next)
           /\ next[o] = [status |-> status, round |-> table[o].round]
           /\ \A p \in Orders \ {o} : next[p] = table[p]
<1> DEFINE x == table[o]
           new == [x EXCEPT !.status = status]
<1>1. /\ table = [p \in Orders |-> table[p]]
      /\ \A p \in Orders : table[p] = [status |-> table[p].status, round |-> table[p].round]
  BY DEF IsOrderTable
<1>2. x = [status |-> x.status, round |-> x.round]
  BY <1>1
<1>3. new = [status |-> status, round |-> x.round]
  <2> HIDE DEF x
  <2>1. DOMAIN new = {"status", "round"} /\ new = [n \in DOMAIN new |-> new[n]]
    BY <1>2
  <2>2. new.status = status /\ new.round = x.round
    BY <1>2
  <2> HIDE DEF new
  <2> QED
    BY <2>1, <2>2
<1>4. next = [table EXCEPT ![o] = new]
  BY DEF SetsStatus
<1> HIDE DEF new
<1>5. /\ next = [p \in Orders |-> next[p]] /\ next[o] = new
      /\ \A p \in Orders \ {o} : next[p] = table[p]
  BY <1>1, <1>4
<1>6. ASSUME NEW p \in Orders
      PROVE  next[p] = [status |-> next[p].status, round |-> next[p].round]
  <2>1. CASE p = o
    BY <1>3, <1>5, <2>1
  <2>2. CASE p # o
    BY <1>1, <1>5, <2>2
  <2> QED
    BY <2>1, <2>2
<1> QED
  BY <1>3, <1>5, <1>6 DEF IsOrderTable

LEMMA TablesOf ==
    ASSUME LedgerInv
    PROVE  /\ \A o \in Orders : known[o] = [status |-> known[o].status, round |-> known[o].round]
           /\ \A o \in Orders : placed[o] = [status |-> placed[o].status, round |-> placed[o].round]
           /\ \A o \in Orders : OrderOK(known[o], placed[o])
           /\ IsOrderTable(known) /\ IsOrderTable(placed)
BY DEF LedgerInv, IsOrderTable

\* The server fills an order that is open, or cancels it.
LEMMA ServerCloses ==
    ASSUME LedgerInv, NEW o \in Orders, placed[o].status = "open",
           NEW status \in {"filled", "canceled"},
           SetsStatus(placed', placed, o, status), known' = known
    PROVE  /\ IsOrderTable(known') /\ IsOrderTable(placed') /\ Advances(placed, placed')
           /\ \A p \in Orders : OrderOK(known'[p], placed'[p])
           /\ UserOK(flow[User], placed')
           /\ placed'[o].status = status
<1>1. /\ IsOrderTable(placed')
      /\ placed'[o] = [status |-> status, round |-> placed[o].round]
      /\ \A p \in Orders \ {o} : placed'[p] = placed[p]
  <2>1. IsOrderTable(placed)
    BY DEF LedgerInv
  <2> QED
    BY <2>1, RowUpdated
<1>2. Advances(placed, placed')
  BY <1>1 DEF Advances
<1>3. ASSUME NEW p \in Orders PROVE OrderOK(known'[p], placed'[p])
  <2>1. OrderOK(known[p], placed[p])
    BY DEF LedgerInv
  <2>2. CASE p = o
    <3>1. known[p].status \notin {"filled", "canceled"}
      BY <2>1, <2>2 DEF OrderOK
    <3> QED
      BY <1>1, <2>1, <2>2, <3>1 DEF OrderOK
  <2>3. CASE p # o
    BY <1>1, <2>1, <2>3
  <2> QED
    BY <2>2, <2>3
<1>4. UserOK(flow[User], placed')
  <2>1. \A p \in Orders : /\ placed[p].status = "none" => placed'[p].status = "none"
                          /\ placed[p].status # "none" => placed'[p].status # "none"
                          /\ placed'[p].round = placed[p].round
    BY <1>1
  <2>2. UserOK(flow[User], placed)
    BY DEF LedgerInv
  <2> QED
    BY <2>1, <2>2 DEF UserOK
<1>5. IsOrderTable(known')
  BY DEF LedgerInv
<1> QED
  BY <1>1, <1>2, <1>3, <1>4, <1>5

LEMMA FillOK == ASSUME LedgerInv, NEW o \in Orders, fill(o) PROVE LedgerInv'
<1>1. /\ placed[o].status = "open" /\ SetsStatus(placed', placed, o, "filled")
      /\ known' = known /\ UNCHANGED <<credited, deposited, flow>>
  BY DEF fill, chainVars, databaseVars, SetsStatus
<1>2. /\ IsOrderTable(known') /\ IsOrderTable(placed') /\ Advances(placed, placed')
      /\ \A p \in Orders : OrderOK(known'[p], placed'[p])
      /\ UserOK(flow[User], placed')
  BY <1>1, ServerCloses
<1>3. \A f \in Flows : FlowOK(flow[f], placed')
  BY <1>2, FlowAdvances DEF LedgerInv
<1>4. CreditsOK'
  BY <1>1 DEF LedgerInv, CreditsOK, At
<1> QED
  BY <1>1, <1>2, <1>3, <1>4 DEF LedgerInv

\* The order is cancelled at the server, and then the fills are fetched.
LEMMA CancelOrderOK == ASSUME LedgerInv, NEW o \in Orders, cancelOrder(o) PROVE LedgerInv'
<1>0. At(User, "idle") /\ known' = known /\ UNCHANGED <<credited, deposited>>
  BY DEF cancelOrder, chainVars, databaseVars
<1>1. CASE UNCHANGED <<placed, flow>>
  BY <1>0, <1>1, NoFlow
<1>2. CASE ~UNCHANGED <<placed, flow>>
  <2>1. /\ placed[o].status = "open" /\ SetsStatus(placed', placed, o, "canceled")
        /\ Fetch(User, round, o) \/ End(User)
    BY <1>2 DEF cancelOrder, SetsStatus
  <2>2. /\ IsOrderTable(known') /\ IsOrderTable(placed') /\ Advances(placed, placed')
        /\ \A p \in Orders : OrderOK(known'[p], placed'[p])
        /\ placed'[o].status = "canceled"
    BY <1>0, <2>1, ServerCloses
  <2>3. CASE End(User)
    <3>1. Become(User, Idle) /\ Idle.pc # "credit"
      BY <2>3 DEF End, Idle
    <3> QED
      BY <1>0, <2>2, <3>1, FlowEnds, UserIsAFlow, TableStep
  <2>4. CASE Fetch(User, round, o)
    <3> DEFINE new == [pc |-> "fetch", arg |-> round, got |-> {}, then |-> o]
    <3>1. Become(User, new)
      BY <2>4 DEF Fetch
    <3>2. FlowOK(new, placed') /\ UserOK(new, placed') /\ new.pc # "credit"
      <4>1. "fetch" \notin Orders /\ "fetch" \in Places
        BY PlaceIsNoOrder DEF Places
      <4> QED
        BY <2>2, <4>1 DEF FlowOK, UserOK
    <3> HIDE DEF new
    <3> QED
      BY <1>0, <2>2, <3>1, <3>2, UserIsAFlow, TableStep
  <2> QED
    BY <2>1, <2>3, <2>4
<1> QED
  BY <1>1, <1>2

\* The order is cancelled here, if it is not known to be filled.
LEMMA CancelApprovalOK == ASSUME LedgerInv, NEW o \in Orders, cancelApproval(o) PROVE LedgerInv'
<1>1. /\ flow[User].pc = o /\ End(User) /\ UNCHANGED <<placed, credited, deposited>>
      /\ \/ known' = known
         \/ known[o].status = "open" /\ known' = [known EXCEPT ![o].status = "canceled"]
  BY DEF cancelApproval, At, chainVars, serverVars
<1>2. CASE known' = known
  BY <1>1, <1>2, UserIsAFlow, QuietEnd
<1>3. CASE known[o].status = "open" /\ known' = [known EXCEPT ![o].status = "canceled"]
  <2>1. /\ IsOrderTable(known')
        /\ known'[o] = [status |-> "canceled", round |-> known[o].round]
        /\ \A p \in Orders \ {o} : known'[p] = known[p]
    <3>1. IsOrderTable(known) /\ SetsStatus(known', known, o, "canceled")
      BY <1>3, TablesOf DEF SetsStatus
    <3> QED
      BY <3>1, RowUpdated
  <2>2. placed[o].status = "canceled"
    <3>1. FlowOK(flow[User], placed)
      BY UserIsAFlow DEF LedgerInv
    <3> QED
      BY <1>1, <3>1 DEF FlowOK
  <2>3. ASSUME NEW p \in Orders PROVE OrderOK(known'[p], placed'[p])
    <3>1. OrderOK(known[p], placed[p])
      BY TablesOf
    <3>2. CASE p = o
      <4>1. placed[o].round = known[o].round
        BY <1>3, <3>1, <3>2 DEF OrderOK
      <4>2. placed[o] = [status |-> "canceled", round |-> known[o].round]
        BY <2>2, <4>1, TablesOf
      <4>3. placed'[o] = known'[o] /\ known'[o].round = known[o].round /\ placed'[o].status = "canceled"
        BY <1>1, <2>1, <2>2, <4>2
      <4> QED
        BY <3>2, <4>3 DEF OrderOK
    <3>3. CASE p # o
      BY <1>1, <2>1, <3>1, <3>3
    <3> QED
      BY <3>2, <3>3
  <2>4. Become(User, Idle) /\ Idle.pc # "credit"
    BY <1>1 DEF End, Idle
  <2>5. IsOrderTable(placed') /\ Advances(placed, placed')
    BY <1>1, TablesOf, StaysAdvanced
  <2> QED
    BY <1>1, <2>1, <2>3, <2>4, <2>5, FlowEnds, UserIsAFlow, TableStep
<1> QED
  BY <1>1, <1>2, <1>3

\* The calls of the user that begin.
LEMMA IdleCall ==
    ASSUME NEW pc, NEW arg
    PROVE  [Idle EXCEPT !.pc = pc, !.arg = arg] =
              [pc |-> pc, arg |-> arg, got |-> {}, then |-> "idle"]
<1>1. [Idle EXCEPT !.pc = pc, !.arg = arg] =
         [pc |-> pc, arg |-> arg, got |-> Idle.got, then |-> Idle.then]
  BY FlowEnds, UpdatedCall
<1> QED
  BY <1>1 DEF Idle

LEMMA IdleCallWith ==
    ASSUME NEW pc, NEW arg, NEW got
    PROVE  [Idle EXCEPT !.pc = pc, !.arg = arg, !.got = got] =
              [pc |-> pc, arg |-> arg, got |-> got, then |-> "idle"]
<1> DEFINE y == [Idle EXCEPT !.pc = pc, !.arg = arg, !.got = got]
<1>1. DOMAIN y = {"pc", "arg", "got", "then"} /\ y = [k \in DOMAIN y |-> y[k]]
  BY DEF Idle
<1>2. y.pc = pc /\ y.arg = arg /\ y.got = got /\ y.then = "idle"
  BY DEF Idle
<1> HIDE DEF y
<1>3. y = [pc |-> pc, arg |-> arg, got |-> got, then |-> "idle"]
  BY <1>1, <1>2
<1> QED
  BY <1>3 DEF y

\* The order is new here, so also at the server.
LEMMA CreateOrderOK == ASSUME LedgerInv, NEW o \in Orders, createOrder(o) PROVE LedgerInv'
<1> DEFINE new == [pc |-> "sendOrder", arg |-> round, got |-> {o}, then |-> "idle"]
<1>1. /\ placed[o].status = "none"
      /\ Become(User, [Idle EXCEPT !.pc = "sendOrder", !.arg = round, !.got = {o}])
      /\ UNCHANGED <<known, placed, credited, deposited>>
  BY DEF createOrder, onlyFlow, onlyMemory, chainVars, serverVars, databaseVars
<1>2. Become(User, new)
  BY <1>1, IdleCallWith
<1>3. FlowOK(new, placed)
  BY PlainFlow DEF Places
<1>4. UserOK(new, placed) /\ new.pc # "credit"
  BY <1>1 DEF UserOK
<1> HIDE DEF new
<1> QED
  BY <1>1, <1>2, <1>3, <1>4, UserIsAFlow, QuietStep

\* The server takes the order, in the round the client believes it is in; the answer
\* may be lost.
LEMMA SendOrderOK == ASSUME LedgerInv, sendOrder PROVE LedgerInv'
<1> DEFINE x == flow[User]
           new == [pc |-> "insertOrder", arg |-> x.arg, got |-> x.got, then |-> x.then]
<1>1. CASE End(User) /\ UNCHANGED <<known, placed, credited, deposited>>
  BY <1>1, UserIsAFlow, QuietEnd
<1>2. CASE /\ x.pc = "sendOrder"
           /\ placed' = [o \in Orders |-> IF o \in x.got
                                          THEN [status |-> "open", round |-> x.arg]
                                          ELSE placed[o]]
           /\ Answered("insertOrder")
           /\ UNCHANGED <<known, credited, deposited>>
  <2>1. \A o \in Orders : o \in x.got => placed[o].status = "none"
    BY <1>2 DEF LedgerInv, UserOK
  <2>2. /\ placed' = [o \in Orders |-> placed'[o]]
        /\ \A o \in Orders : o \in x.got => placed'[o] = [status |-> "open", round |-> x.arg]
        /\ \A o \in Orders : o \notin x.got => placed'[o] = placed[o]
    BY <1>2
  <2>3. IsOrderTable(placed')
    BY <2>2, TablesOf DEF IsOrderTable
  <2>4. Advances(placed, placed')
    BY <2>1, <2>2 DEF Advances
  <2>5. IsOrderTable(known') /\ \A o \in Orders : OrderOK(known'[o], placed'[o])
    <3>1. \A o \in Orders : OrderOK(known[o], placed[o])
      BY TablesOf
    <3> QED
      BY <1>2, <2>1, <2>2, <3>1, TablesOf DEF OrderOK
  <2>6. FlowOK(x, placed)
    BY UserIsAFlow DEF LedgerInv
  <2>7. CASE End(User)
    <3>1. Become(User, Idle) /\ Idle.pc # "credit"
      BY <2>7 DEF End, Idle
    <3> QED
      BY <1>2, <2>3, <2>4, <2>5, <3>1, FlowEnds, UserIsAFlow, TableStep
  <2>8. CASE Go(User, "insertOrder")
    <3>1. Become(User, new)
      <4>1. Become(User, [x EXCEPT !.pc = "insertOrder"])
        BY <2>8 DEF Go
      <4> HIDE DEF x
      <4> QED
        BY <2>6, <4>1, UpdatedPlace
    <3>2. FlowOK(new, placed')
      <4>1. FlowOK(x, placed')
        BY <2>4, <2>6, FlowAdvances
      <4> HIDE DEF x
      <4> QED
        BY <4>1, FlowGoesOn DEF Places
    <3>3. UserOK(new, placed') /\ new.pc # "credit"
      BY <2>2 DEF UserOK
    <3> HIDE DEF new, x
    <3> QED
      BY <1>2, <2>3, <2>4, <2>5, <3>1, <3>2, <3>3, UserIsAFlow, TableStep
  <2> QED
    BY <1>2, <2>7, <2>8 DEF Answered
<1> QED
  BY <1>1, <1>2 DEF sendOrder, At, Refuse, chainVars, serverVars, databaseVars

LEMMA InsertOrderOK == ASSUME LedgerInv, insertOrder PROVE LedgerInv'
<1> DEFINE x == flow[User]
<1>1. /\ x.pc = "insertOrder" /\ End(User) /\ UNCHANGED <<placed, credited, deposited>>
      /\ known' = [o \in Orders |-> IF o \in x.got /\ validateOrder(x.arg)
                                    THEN [status |-> "open", round |-> x.arg] ELSE known[o]]
  BY DEF insertOrder, At, chainVars, serverVars
<1>2. \A o \in Orders : o \in x.got => placed[o].status # "none" /\ placed[o].round = x.arg
  BY <1>1 DEF LedgerInv, UserOK
<1>3. /\ known' = [o \in Orders |-> known'[o]]
      /\ \A o \in Orders :
            \/ known'[o] = known[o]
            \/ (o \in x.got /\ known'[o] = [status |-> "open", round |-> x.arg])
  BY <1>1
<1>4. IsOrderTable(known')
  BY <1>3, TablesOf DEF IsOrderTable
<1>5. ASSUME NEW o \in Orders PROVE OrderOK(known'[o], placed'[o])
  BY <1>1, <1>2, <1>3, TablesOf DEF OrderOK
<1>6. Become(User, Idle) /\ Idle.pc # "credit"
  BY <1>1 DEF End, Idle
<1>7. IsOrderTable(placed') /\ Advances(placed, placed')
  BY <1>1, TablesOf, StaysAdvanced
<1> HIDE DEF x
<1> QED
  BY <1>1, <1>4, <1>5, <1>6, <1>7, FlowEnds, UserIsAFlow, TableStep

\* The fills are in the flow, before they are in the database.
LEMMA FetchFillsOK == ASSUME LedgerInv, NEW f \in Flows, fetchFills(f) PROVE LedgerInv'
<1> DEFINE x == flow[f]
<1>1. CASE Refuse(f, "idle")
  <2>1. End(f) /\ UNCHANGED <<known, placed, credited, deposited>>
    BY <1>1 DEF Refuse, chainVars, serverVars, databaseVars
  <2> QED
    BY <2>1, QuietEnd
<1>2. CASE ~Refuse(f, "idle")
  <2>1. PICK given \in SUBSET Orders : FillsGiven(x.arg, given) /\ GoWith(f, "insertFills", given)
    BY <1>2 DEF fetchFills
  <2>2. UNCHANGED <<known, placed, credited, deposited>>
    BY <1>2 DEF fetchFills, chainVars, serverVars, databaseVars
  <2> DEFINE new == [pc |-> "insertFills", arg |-> x.arg, got |-> given, then |-> x.then]
  <2>3. FlowOK(x, placed)
    BY DEF LedgerInv
  <2>4. Become(f, new)
    <3>1. Become(f, [x EXCEPT !.pc = "insertFills", !.got = given])
      BY <2>1 DEF GoWith
    <3> HIDE DEF x
    <3> QED
      BY <2>3, <3>1, UpdatedResult
  <2>5. given \subseteq FillsOf(placed, x.arg)
    BY <2>1 DEF FillsGiven
  <2>6. FlowOK(new, placed) /\ UserOK(new, placed) /\ new.pc # "credit"
    <3>1. "insertFills" \notin Orders /\ "insertFills" \in Places
      BY PlaceIsNoOrder DEF Places
    <3> DEFINE a == x.arg
               t == x.then
    <3>2. /\ t \in {"idle", "confirm", "synced"} \cup Orders
          /\ \A o \in Orders : t = o => placed[o].status = "canceled"
      BY <2>3 DEF FlowOK
    <3> HIDE DEF a, t
    <3>3. FlowOK([pc |-> "insertFills", arg |-> a, got |-> given, then |-> t], placed)
      BY <2>5, <3>1, <3>2 DEF FlowOK, a
    <3> QED
      BY <3>3 DEF UserOK, a, t
  <2> HIDE DEF new
  <2> QED
    BY <2>2, <2>4, <2>6, QuietStep
<1> QED
  BY <1>1, <1>2

-----------------------------------------------------------------------------
(* Deposits. *)

LEMMA Counted ==
    ASSUME NEW f \in [Rounds -> Nat], NEW r, NEW g, g = [f EXCEPT ![r] = @ + 1]
    PROVE  /\ g \in [Rounds -> Nat]
           /\ \A q \in Rounds : g[q] = IF q = r THEN f[q] + 1 ELSE f[q]
<1>1. ASSUME NEW q \in Rounds PROVE g[q] = IF q = r THEN f[q] + 1 ELSE f[q]
  OBVIOUS
<1>2. \A q \in Rounds : g[q] \in Nat
  BY <1>1
<1>3. g = [q \in Rounds |-> g[q]]
  OBVIOUS
<1> QED
  BY <1>1, <1>2, <1>3

LEMMA DepositsTokenOK == ASSUME LedgerInv, depositsToken PROVE LedgerInv'
<1> DEFINE now == getCurrentRound
           new == [pc |-> "credit", arg |-> now, got |-> {}, then |-> "idle"]
<1>1. /\ flow[User].pc = "idle" /\ deposited' = [deposited EXCEPT ![now] = @ + 1]
      /\ Become(User, [Idle EXCEPT !.pc = "credit", !.arg = now])
      /\ UNCHANGED <<known, placed, credited>>
  BY DEF depositsToken, At, serverVars, databaseVars
<1>2. FlowOK(new, placed) /\ UserOK(new, placed)
  BY PlainFlow DEF UserOK, Places
<1>3. Become(User, new)
  BY <1>1, IdleCall
<1>4. new.pc = "credit" /\ new.arg = now
  OBVIOUS
<1> HIDE DEF new, now
<1>5. /\ flow' = [g \in Flows |-> flow'[g]] /\ flow'[User] = new
      /\ \A g \in Flows \ {User} : flow'[g] = flow[g]
  BY <1>3, UserIsAFlow, OneFlow DEF LedgerInv
<1>6. \A g \in Flows : FlowOK(flow'[g], placed)
  BY <1>2, <1>5 DEF LedgerInv
<1>7. deposited' \in [Rounds -> Nat] /\ credited' \in [Rounds -> Nat]
  BY <1>1, Counted DEF LedgerInv
<1>8. ASSUME NEW r \in Rounds
      PROVE  credited[r] + (IF r = now THEN 1 ELSE 0) <= deposited'[r]
  <2>1. credited[r] \in Nat /\ deposited[r] \in Nat /\ credited[r] <= deposited[r]
    BY <1>1 DEF LedgerInv, CreditsOK, At
  <2>2. deposited'[r] = IF r = now THEN deposited[r] + 1 ELSE deposited[r]
    BY <1>1 DEF LedgerInv
  <2> QED
    BY <2>1, <2>2
<1>9. CreditsOK'
  BY <1>1, <1>4, <1>5, <1>8 DEF CreditsOK, At
<1> QED
  BY <1>1, <1>2, <1>5, <1>6, <1>7, <1>9 DEF LedgerInv, IsOrderTable

LEMMA CreditDepositOK == ASSUME LedgerInv, creditDeposit PROVE LedgerInv'
<1> DEFINE now == flow[User].arg
<1>1. /\ flow[User].pc = "credit" /\ credited' = [credited EXCEPT ![now] = @ + 1]
      /\ Become(User, Idle) /\ UNCHANGED <<known, placed, deposited>>
  BY DEF creditDeposit, At, End, chainVars, serverVars
<1> HIDE DEF now
<1>2. FlowOK(Idle, placed) /\ UserOK(Idle, placed) /\ Idle.pc # "credit"
  BY FlowEnds DEF Idle
<1>3. /\ flow' = [g \in Flows |-> flow'[g]] /\ flow'[User] = Idle
      /\ \A g \in Flows \ {User} : flow'[g] = flow[g]
  BY <1>1, UserIsAFlow, OneFlow DEF LedgerInv
<1>4. \A g \in Flows : FlowOK(flow'[g], placed)
  BY <1>2, <1>3 DEF LedgerInv
<1>5. deposited' \in [Rounds -> Nat] /\ credited' \in [Rounds -> Nat]
  BY <1>1, Counted DEF LedgerInv
<1>6. ASSUME NEW r \in Rounds PROVE credited'[r] <= deposited[r]
  <2>1. /\ credited[r] \in Nat /\ deposited[r] \in Nat
        /\ credited[r] + (IF now = r THEN 1 ELSE 0) <= deposited[r]
    BY <1>1 DEF LedgerInv, CreditsOK, At, now
  <2>2. credited'[r] = IF now = r THEN credited[r] + 1 ELSE credited[r]
    BY <1>1 DEF LedgerInv
  <2> QED
    BY <2>1, <2>2
<1>7. CreditsOK'
  <2>1. \A r \in Rounds : credited'[r] \in Nat
    BY <1>5
  <2> QED
    BY <1>1, <1>2, <1>3, <1>6, <2>1 DEF CreditsOK, At
<1> QED
  BY <1>1, <1>2, <1>3, <1>4, <1>5, <1>7 DEF LedgerInv, IsOrderTable

\* A new process: what was under way is gone.
LEMMA CrashOK == ASSUME LedgerInv, crash PROVE LedgerInv'
<1>1. flow' = [f \in Flows |-> Idle] /\ UNCHANGED <<known, placed, credited, deposited>>
  BY DEF crash, chainVars, serverVars, databaseVars
<1>2. \A f \in Flows : flow'[f] = Idle
  BY <1>1
<1>3. flow' = [f \in Flows |-> flow'[f]]
  BY <1>1
<1>4. CreditsOK'
  <2>1. \A r \in Rounds : credited[r] \in Nat /\ deposited[r] \in Nat
    BY DEF LedgerInv
  <2>2. flow'[User].pc # "credit"
    BY <1>2, UserIsAFlow DEF Idle
  <2> QED
    BY <1>1, <2>1, <2>2 DEF LedgerInv, CreditsOK, At
<1> QED
  BY <1>1, <1>2, <1>3, <1>4, FlowEnds, UserIsAFlow DEF LedgerInv, IsOrderTable

-----------------------------------------------------------------------------
(* All the steps. *)

TablesStay == UNCHANGED <<known, placed, credited, deposited>>

\* The steps of a flow that leave the tables and the deposits alone end the flow,
\* take it to a place that the ledger says nothing of, or back to where it was.
LEMMA QuietFlow ==
    ASSUME LedgerInv, NEW f \in Flows, TablesStay,
           \/ End(f)
           \/ Go(f, flow[f].then)
           \/ \E pc \in PlainPlaces : GoesOn(f, pc)
           \/ \E pc \in PlainPlaces, then \in {"idle", "confirm", "synced"} : \E arg, got :
                 Become(f, [pc |-> pc, arg |-> arg, got |-> got, then |-> then])
    PROVE  LedgerInv'
<1>1. CASE End(f)
  BY <1>1, QuietEnd DEF TablesStay
<1>2. CASE Go(f, flow[f].then)
  BY <1>2, QuietThen DEF TablesStay
<1>3. ASSUME NEW pc \in PlainPlaces, GoesOn(f, pc) PROVE LedgerInv'
  BY <1>3, QuietGo DEF TablesStay
<1>4. ASSUME NEW pc \in PlainPlaces, NEW then \in {"idle", "confirm", "synced"},
             NEW arg, NEW got,
             Become(f, [pc |-> pc, arg |-> arg, got |-> got, then |-> then])
      PROVE  LedgerInv'
  BY <1>4, QuietStart DEF TablesStay
<1> QED
  BY <1>1, <1>2, <1>3, <1>4

LEMMA PlacesOfFlows ==
    {"askRound", "setRound", "askQuarter", "goToQuarter", "fetch", "fetchProofs",
     "checkProofs", "openDispute", "dispute", "confirm", "confirmed", "initiate",
     "withdraw", "recoverFunds", "syncTime", "admit", "validateAuthorization", "connect",
     "syncFills", "syncFetch", "syncProofs", "synced"} \subseteq PlainPlaces
BY DEF PlainPlaces, Places

LEMMA FlowStepOK == ASSUME LedgerInv, NEW f \in Flows, FlowStep(f) PROVE LedgerInv'
<1>1. CASE askRound(f) \/ setRound(f) \/ askQuarter(f)
  <2>1. TablesStay
    BY <1>1 DEF askRound, setRound, askQuarter, onlyFlow, onlyMemory, chainVars, serverVars,
                databaseVars, TablesStay
  <2>2. \E pc \in {"setRound", "askQuarter", "goToQuarter"} : \E n : Go(f, pc) \/ GoWith(f, pc, n)
    BY <1>1 DEF askRound, setRound, askQuarter
  <2>3. \E pc \in {"setRound", "askQuarter", "goToQuarter"} : GoesOn(f, pc)
    BY <2>2, GoesOnIs
  <2> QED
    BY <2>1, <2>3, PlacesOfFlows, QuietFlow
<1>2. CASE goToQuarter(f)
  <2>1. TablesStay
    BY <1>2 DEF goToQuarter, onlyMemory, chainVars, serverVars, databaseVars, TablesStay
  <2>2. \/ End(f)
        \/ Become(f, [pc |-> "fetch", arg |-> round - 1, got |-> {}, then |-> "idle"])
        \/ Become(f, [pc |-> "fetchProofs", arg |-> round, got |-> {}, then |-> "confirm"])
    BY <1>2 DEF goToQuarter, Fetch
  <2>3. "fetch" \in PlainPlaces /\ "fetchProofs" \in PlainPlaces
    BY PlacesOfFlows
  <2>4. \/ End(f)
        \/ \E pc \in PlainPlaces, then \in {"idle", "confirm", "synced"} : \E arg, got :
              Become(f, [pc |-> pc, arg |-> arg, got |-> got, then |-> then])
    BY <2>2, <2>3
  <2> QED
    BY <2>1, <2>4, QuietFlow
<1>3. CASE fetchProofs(f) \/ openBalanceDispute(f)
  <2>1. TablesStay
    BY <1>3 DEF fetchProofs, openBalanceDispute, Refuse, onlyFlow, onlyMemory, chainVars,
                serverVars, databaseVars, TablesStay
  <2>2. \E pc \in {"checkProofs", "openDispute", "dispute"} : \E n : Go(f, pc) \/ GoWith(f, pc, n)
    BY <1>3 DEF fetchProofs, openBalanceDispute, Refuse
  <2>3. \E pc \in {"checkProofs", "openDispute", "dispute"} : GoesOn(f, pc)
    BY <2>2, GoesOnIs
  <2> QED
    BY <2>1, <2>3, PlacesOfFlows, QuietFlow
<1>4. CASE checkProofs(f) \/ openDispute(f)
  <2>1. TablesStay
    BY <1>4 DEF checkProofs, openDispute, chainVars, serverVars, databaseVars, TablesStay
  <2>2. Go(f, flow[f].then) \/ Go(f, "openDispute")
    BY <1>4 DEF checkProofs, openDispute
  <2>3. Go(f, flow[f].then) \/ GoesOn(f, "openDispute")
    BY <2>2, GoesOnIs
  <2> QED
    BY <2>1, <2>3, PlacesOfFlows, QuietFlow
<1>5. CASE confirmWithdrawal(f) \/ confirmWithdrawalAsync(f) \/ recoverFunds(f)
  <2>1. TablesStay
    BY <1>5 DEF confirmWithdrawal, confirmWithdrawalAsync, recoverFunds, chainVars,
                serverVars, databaseVars, TablesStay
  <2>2. End(f) \/ Go(f, "confirmed")
    BY <1>5 DEF confirmWithdrawal, confirmWithdrawalAsync, recoverFunds
  <2>3. End(f) \/ GoesOn(f, "confirmed")
    BY <2>2, GoesOnIs
  <2> QED
    BY <2>1, <2>3, PlacesOfFlows, QuietFlow
<1> QED
  BY <1>1, <1>2, <1>3, <1>4, <1>5, FetchFillsOK, InsertFillsOK DEF FlowStep

LEMMA EnvironmentOK == ASSUME LedgerInv, Environment PROVE LedgerInv'
<1>1. ASSUME NEW h \in Handlers, NEW quarters \in {0, 1}, Halt(h) \/ NewBlock(h, quarters)
      PROVE  LedgerInv'
  <2>1. TablesStay
    BY <1>1 DEF Halt, NewBlock, serverVars, databaseVars, TablesStay
  <2>2. UNCHANGED flow \/ \E pc \in {"askRound", "recoverFunds"} : Go(h, pc)
    BY <1>1 DEF Halt, NewBlock, Notify
  <2>3. h \in Flows
    BY DEF Flows
  <2>4. UNCHANGED flow \/ \E pc \in {"askRound", "recoverFunds"} : GoesOn(h, pc)
    BY <2>2, <2>3, GoesOnIs
  <2>5. CASE UNCHANGED flow
    BY <2>1, <2>5, NoFlow DEF TablesStay
  <2>6. CASE \E pc \in {"askRound", "recoverFunds"} : GoesOn(h, pc)
    BY <2>1, <2>3, <2>6, PlacesOfFlows, QuietFlow
  <2> QED
    BY <2>4, <2>5, <2>6
<1>2. CASE enterRound
  <2>1. UNCHANGED <<known, placed, credited, deposited, flow>>
    BY <1>2 DEF enterRound, chainVars, databaseVars
  <2> QED
    BY <2>1, NoFlow
<1> QED
  BY <1>1, <1>2, FillOK DEF Environment

LEMMA UserStepOK == ASSUME LedgerInv, UserStep PROVE LedgerInv'
<1> USE UserIsAFlow
<1>1. CASE join \/ syncTime \/ admit \/ validateAuthorization \/ synced
  <2>1. TablesStay
    BY <1>1 DEF join, syncTime, admit, validateAuthorization, synced, Refuse, onlyMemory,
                chainVars, serverVars, databaseVars, TablesStay
  <2> DEFINE next == {"syncTime", "connect", "admit", "validateAuthorization"}
  <2>2. End(User) \/ \E pc \in next : Go(User, pc)
    BY <1>1 DEF join, syncTime, admit, validateAuthorization, synced, Refuse, Answered
  <2>3. End(User) \/ \E pc \in next : GoesOn(User, pc)
    BY <2>2, GoesOnIs
  <2> QED
    BY <2>1, <2>3, PlacesOfFlows, QuietFlow
<1>2. CASE connect
  <2>1. TablesStay
    BY <1>2 DEF connect, onlyMemory, chainVars, serverVars, databaseVars, TablesStay
  <2>2. Become(User, [pc |-> "syncFills", arg |-> account.lastFillRound + 1, got |-> account,
                      then |-> "idle"])
    BY <1>2, IdleCallWith DEF connect
  <2>3. "syncFills" \in PlainPlaces
    BY PlacesOfFlows
  <2> QED
    BY <2>1, <2>2, <2>3, QuietFlow
<1>3. CASE syncFills
  <2>1. TablesStay
    BY <1>3 DEF syncFills, onlyFlow, onlyMemory, chainVars, serverVars, databaseVars, TablesStay
  <2>2. \/ Go(User, "syncFetch")
        \/ \E n : Become(User, [flow[User] EXCEPT !.pc = "syncProofs", !.arg = n])
    BY <1>3 DEF syncFills
  <2>3. GoesOn(User, "syncFetch") \/ GoesOn(User, "syncProofs")
    BY <2>2, GoesOnIs
  <2> QED
    BY <2>1, <2>3, PlacesOfFlows, QuietFlow
<1>4. CASE syncProofs
  <2>1. TablesStay
    BY <1>4 DEF syncProofs, Refuse, onlyFlow, onlyMemory, chainVars, serverVars, databaseVars,
                TablesStay
  <2>2. \/ End(User) \/ Go(User, "synced")
        \/ Become(User, [pc |-> "fetchProofs", arg |-> round, got |-> {}, then |-> "synced"])
        \/ /\ flow[User].pc = "syncProofs"
           /\ \E n : Become(User, [flow[User] EXCEPT !.arg = n])
    BY <1>4 DEF syncProofs, Refuse, At
  <2>3. \/ End(User) \/ GoesOn(User, "synced")
        \/ Become(User, [pc |-> "fetchProofs", arg |-> round, got |-> {}, then |-> "synced"])
        \/ GoesOn(User, "syncProofs")
    BY <2>2, GoesOnIs
  <2>4. "fetchProofs" \in PlainPlaces /\ "synced" \in PlainPlaces /\ "syncProofs" \in PlainPlaces
    BY PlacesOfFlows
  <2>5. \/ End(User) \/ \E pc \in PlainPlaces : GoesOn(User, pc)
        \/ \E pc \in PlainPlaces, then \in {"idle", "confirm", "synced"} : \E arg, got :
              Become(User, [pc |-> pc, arg |-> arg, got |-> got, then |-> then])
    BY <2>3, <2>4
  <2> QED
    BY <2>1, <2>5, QuietFlow
<1>5. CASE userConfirms
  <2>1. TablesStay
    BY <1>5 DEF userConfirms, onlyFlow, onlyMemory, chainVars, serverVars, databaseVars, TablesStay
  <2>2. GoesOn(User, "confirm")
    BY <1>5, GoesOnIs DEF userConfirms
  <2> QED
    BY <2>1, <2>2, PlacesOfFlows, QuietFlow
<1>6. CASE withdraw
  <2>1. TablesStay
    BY <1>6 DEF withdraw, onlyFlow, onlyMemory, chainVars, serverVars, databaseVars, TablesStay
  <2>2. Become(User, [pc |-> "initiate", arg |-> round, got |-> {}, then |-> "idle"])
    BY <1>6, IdleCall DEF withdraw
  <2>3. "initiate" \in PlainPlaces
    BY PlacesOfFlows
  <2> QED
    BY <2>1, <2>2, <2>3, QuietFlow
<1>7. CASE initiateWithdrawal \/ bookWithdrawal
  <2>1. TablesStay
    BY <1>7 DEF initiateWithdrawal, bookWithdrawal, chainVars, serverVars, databaseVars, TablesStay
  <2>2. End(User) \/ Go(User, "withdraw")
    BY <1>7 DEF initiateWithdrawal, bookWithdrawal
  <2>3. End(User) \/ GoesOn(User, "withdraw")
    BY <2>2, GoesOnIs
  <2> QED
    BY <2>1, <2>3, PlacesOfFlows, QuietFlow
<1>8. CASE \E o \in Orders : createOrder(o) \/ cancelOrder(o) \/ cancelApproval(o)
  BY <1>8, CreateOrderOK, CancelOrderOK, CancelApprovalOK
<1> QED
  BY <1>1, <1>2, <1>3, <1>4, <1>5, <1>6, <1>7, <1>8, SyncFetchOK, DepositsTokenOK,
     CreditDepositOK, SendOrderOK, InsertOrderOK DEF UserStep

LEMMA LedgerStep == ASSUME LedgerInv, [ClientNext]_clientVars PROVE LedgerInv'
<1>1. CASE leave \/ UNCHANGED clientVars
  <2>1. UNCHANGED <<known, placed, credited, deposited, flow>>
    BY <1>1 DEF leave, clientVars, chainVars, serverVars, databaseVars
  <2> QED
    BY <2>1, NoFlow
<1> QED
  BY <1>1, EnvironmentOK, UserStepOK, FlowStepOK, CrashOK DEF ClientNext

LEMMA ClientInitOK == ASSUME ClientInit PROVE LedgerInv
<1>1. /\ flow = [f \in Flows |-> Idle]
      /\ known = [o \in Orders |-> NoOrder] /\ placed = [o \in Orders |-> NoOrder]
      /\ credited = [r \in Rounds |-> 0] /\ deposited = [r \in Rounds |-> 0]
  BY DEF ClientInit
<1>2. /\ flow = [f \in Flows |-> flow[f]] /\ \A f \in Flows : flow[f] = Idle
      /\ flow[User] = Idle
  BY <1>1, UserIsAFlow
<1>3. IsOrderTable(known) /\ IsOrderTable(placed)
  BY <1>1 DEF IsOrderTable, NoOrder
<1>4. \A o \in Orders : OrderOK(known[o], placed[o])
  BY <1>1 DEF OrderOK, NoOrder
<1>5. CreditsOK
  BY <1>1, <1>2 DEF CreditsOK, At, Idle
<1> QED
  BY <1>1, <1>2, <1>3, <1>4, <1>5, FlowEnds DEF LedgerInv

\* The inductive invariant: where each flow of the client is, with what it has fetched
\* or sent, and what the ledger, the contract and the server hold by then.
THEOREM LedgerIsInOrder == ClientSpec => []LedgerInv
<1>1. ClientInit => LedgerInv
  BY ClientInitOK
<1>2. LedgerInv /\ [ClientNext]_clientVars => LedgerInv'
  BY LedgerStep
<1> QED
  BY <1>1, <1>2, PTL DEF ClientSpec

\* Whatever is slow, lost, refused or crashes, and in whatever order the flows of the
\* client go on: its ledger has no deposit, order, fill or cancellation that the
\* contract or the server has not (L2Client.ts, insertOrder to onReceiveFills).
THEOREM LedgerIsNeverAhead == ClientSpec => []LedgerNeverAhead
<1>1. LedgerInv => LedgerNeverAhead
  <2> SUFFICES ASSUME LedgerInv PROVE LedgerNeverAhead
    OBVIOUS
  <2>1. ASSUME NEW r \in Rounds PROVE credited[r] <= deposited[r]
    <3>1. /\ credited[r] \in Nat /\ deposited[r] \in Nat
          /\ credited[r] + (IF At(User, "credit") /\ flow[User].arg = r THEN 1 ELSE 0)
                <= deposited[r]
      BY DEF LedgerInv, CreditsOK
    <3> QED
      BY <3>1
  <2>2. \A o \in Orders : OrderOK(known[o], placed[o])
    BY DEF LedgerInv
  <2> QED
    BY <2>1, <2>2 DEF LedgerNeverAhead, OrderOK
<1> QED
  BY <1>1, LedgerIsInOrder, PTL

(***************************************************************************)
(* The client to which nothing has happened: Calm is inductive.            *)
(***************************************************************************)

(* Balances. *)

Net(in, out, orders) ==
    [q \in Rounds |-> in[q] - out[q] - Cardinality(FillsOf(orders, q))]

Earlier(r) == {q \in Rounds : q < r}

LEMMA BalanceIs ==
    ASSUME NEW in, NEW out, NEW orders, NEW r
    PROVE  Balance(in, out, orders, r) = SumFunctionOnSet(Net(in, out, orders), Earlier(r))
BY DEF Balance, Net, Earlier, MapThenSumSet, SumFunctionOnSet, FoldFunctionOnSet, MapThenFoldSet

LEMMA EarlierFinite == ASSUME NEW r PROVE IsFiniteSet(Earlier(r)) /\ Earlier(r) \subseteq Rounds
<1>1. IsFiniteSet(Rounds)
  BY ClientAssumption, FS_Interval DEF Rounds
<1> QED
  BY <1>1, FS_Subset DEF Earlier

OrdersIn(orders, r, states) ==
    {o \in Orders : orders[o].status \in states /\ orders[o].round = r}

LEMMA OrdersCounted ==
    ASSUME NEW orders, NEW r, NEW states
    PROVE  /\ IsFiniteSet(OrdersIn(orders, r, states))
           /\ Cardinality(OrdersIn(orders, r, states)) \in Nat
BY ClientAssumption, FS_Subset, FS_CardinalityType DEF OrdersIn

LEMMA FillsCounted ==
    ASSUME NEW orders, NEW r
    PROVE  /\ FillsOf(orders, r) = OrdersIn(orders, r, {"filled"})
           /\ IsFiniteSet(FillsOf(orders, r)) /\ Cardinality(FillsOf(orders, r)) \in Nat
<1>1. FillsOf(orders, r) = OrdersIn(orders, r, {"filled"})
  BY DEF FillsOf, OrdersIn
<1> QED
  BY <1>1, OrdersCounted

LEMMA NetIsInt ==
    ASSUME NEW in \in [Rounds -> Nat], NEW out \in [Rounds -> Nat], NEW orders,
           NEW q \in Rounds
    PROVE  /\ Net(in, out, orders)[q] \in Int
           /\ Net(in, out, orders)[q] = in[q] - out[q] - Cardinality(FillsOf(orders, q))
<1>1. Cardinality(FillsOf(orders, q)) \in Nat /\ in[q] \in Nat /\ out[q] \in Nat
  BY FillsCounted
<1>2. Net(in, out, orders)[q] = in[q] - out[q] - Cardinality(FillsOf(orders, q))
  BY DEF Net
<1> QED
  BY <1>1, <1>2

LEMMA BalanceIsInt ==
    ASSUME NEW in \in [Rounds -> Nat], NEW out \in [Rounds -> Nat], NEW orders, NEW r
    PROVE  Balance(in, out, orders, r) \in Int
<1>1. \A q \in Earlier(r) : Net(in, out, orders)[q] \in Int
  BY NetIsInt, EarlierFinite
<1>2. SumFunctionOnSet(Net(in, out, orders), Earlier(r)) \in Int
  BY <1>1, EarlierFinite, SumInt
<1> QED
  BY <1>2, BalanceIs

\* A balance depends on the rounds before only.
LEMMA BalanceSame ==
    ASSUME NEW in \in [Rounds -> Nat], NEW out \in [Rounds -> Nat], NEW orders,
           NEW in2 \in [Rounds -> Nat], NEW out2 \in [Rounds -> Nat], NEW orders2, NEW r,
           \A q \in Rounds : q < r => /\ in[q] - out[q] = in2[q] - out2[q]
                                      /\ FillsOf(orders, q) = FillsOf(orders2, q)
    PROVE  Balance(in, out, orders, r) = Balance(in2, out2, orders2, r)
<1>1. ASSUME NEW q \in Earlier(r)
      PROVE  /\ Net(in, out, orders)[q] \in Int
             /\ Net(in, out, orders)[q] = Net(in2, out2, orders2)[q]
  <2>1. q \in Rounds /\ q < r
    BY DEF Earlier
  <2>2. in[q] - out[q] = in2[q] - out2[q] /\ FillsOf(orders, q) = FillsOf(orders2, q)
    BY <2>1
  <2> QED
    BY <2>1, <2>2, NetIsInt
<1>2. SumFunctionOnSet(Net(in, out, orders), Earlier(r))
         = SumFunctionOnSet(Net(in2, out2, orders2), Earlier(r))
  BY <1>1, EarlierFinite, SumEqual
<1> QED
  BY <1>2, BalanceIs

\* It is not less with less fills.
LEMMA BalanceAtLeast ==
    ASSUME NEW in \in [Rounds -> Nat], NEW out \in [Rounds -> Nat], NEW orders,
           NEW in2 \in [Rounds -> Nat], NEW out2 \in [Rounds -> Nat], NEW orders2, NEW r,
           \A q \in Rounds : q < r => /\ in[q] - out[q] = in2[q] - out2[q]
                                      /\ FillsOf(orders, q) \subseteq FillsOf(orders2, q)
    PROVE  Balance(in2, out2, orders2, r) <= Balance(in, out, orders, r)
<1>1. ASSUME NEW q \in Earlier(r)
      PROVE  /\ Net(in2, out2, orders2)[q] \in Int /\ Net(in, out, orders)[q] \in Int
             /\ Net(in2, out2, orders2)[q] <= Net(in, out, orders)[q]
  <2>1. q \in Rounds /\ q < r
    BY DEF Earlier
  <2>2. in[q] - out[q] = in2[q] - out2[q] /\ FillsOf(orders, q) \subseteq FillsOf(orders2, q)
    BY <2>1
  <2>3. Cardinality(FillsOf(orders, q)) <= Cardinality(FillsOf(orders2, q))
    BY <2>2, FillsCounted, FS_Subset
  <2>4. /\ Cardinality(FillsOf(orders, q)) \in Nat /\ Cardinality(FillsOf(orders2, q)) \in Nat
        /\ in[q] \in Nat /\ out[q] \in Nat /\ in2[q] \in Nat /\ out2[q] \in Nat
    BY <2>1, FillsCounted
  <2> QED
    BY <2>1, <2>2, <2>3, <2>4, NetIsInt
<1>2. SumFunctionOnSet(Net(in2, out2, orders2), Earlier(r))
         <= SumFunctionOnSet(Net(in, out, orders), Earlier(r))
  BY <1>1, EarlierFinite, SumLeq
<1> QED
  BY <1>2, BalanceIs

\* The balance of the next round.
LEMMA BalanceNext ==
    ASSUME NEW in \in [Rounds -> Nat], NEW out \in [Rounds -> Nat], NEW orders,
           NEW r \in Rounds
    PROVE  Balance(in, out, orders, r + 1)
              = Balance(in, out, orders, r) + in[r] - out[r] - Cardinality(FillsOf(orders, r))
<1> DEFINE S == Earlier(r + 1)
           f == Net(in, out, orders)
<1>1. S \ {r} = Earlier(r) /\ r \in S
  BY DEF Earlier, Rounds
<1>2. IsFiniteSet(S) /\ \A x \in S : f[x] \in Int
  BY EarlierFinite, NetIsInt
<1>3. SumFunctionOnSet(f, S \ {r}) \in Int
  BY <1>2, FS_RemoveElement, SumInt
<1>4. SumFunctionOnSet(f, S) = f[r] + SumFunctionOnSet(f, S \ {r})
  <2> HIDE DEF S, f
  <2> QED
    BY <1>1, <1>2, SumTakeOut
<1>5. /\ f[r] = in[r] - out[r] - Cardinality(FillsOf(orders, r)) /\ in[r] \in Nat
      /\ out[r] \in Nat /\ Cardinality(FillsOf(orders, r)) \in Nat
  BY NetIsInt, FillsCounted
<1>6. /\ Balance(in, out, orders, r + 1) = SumFunctionOnSet(f, S)
      /\ Balance(in, out, orders, r) = SumFunctionOnSet(f, S \ {r})
  BY <1>1, BalanceIs
<1> HIDE DEF S, f
<1> QED
  BY <1>3, <1>4, <1>5, <1>6

\* What a round has brought, less what its orders have sold or hold.
LEMMA FreeIs ==
    ASSUME NEW in \in [Rounds -> Nat], NEW out \in [Rounds -> Nat], NEW orders,
           NEW r \in Rounds
    PROVE  Free(in, out, orders, r)
              = Balance(in, out, orders, r) + in[r] - out[r]
                  - Cardinality(OrdersIn(orders, r, {"open", "filled"}))
<1> DEFINE A == OrdersIn(orders, r, {"open"})
           B == FillsOf(orders, r)
           C == OrdersIn(orders, r, {"open", "filled"})
<1>1. C = A \cup B /\ A \cap B = {}
  BY DEF OrdersIn, FillsOf
<1>2. IsFiniteSet(A) /\ IsFiniteSet(B) /\ Cardinality(A) \in Nat /\ Cardinality(B) \in Nat
  BY OrdersCounted, FillsCounted
<1>3. Cardinality(C) = Cardinality(A) + Cardinality(B)
  <2> HIDE DEF A, B, C
  <2>1. Cardinality(A \cap B) = 0
    BY <1>1, FS_EmptySet
  <2>2. Cardinality(A \cup B) = Cardinality(A) + Cardinality(B) - Cardinality(A \cap B)
    BY <1>2, FS_Union
  <2> QED
    BY <1>1, <1>2, <2>1, <2>2
<1>4. Free(in, out, orders, r) = Balance(in, out, orders, r + 1) - Cardinality(A)
  BY DEF Free, OrdersIn
<1>5. Balance(in, out, orders, r) \in Int /\ in[r] \in Nat /\ out[r] \in Nat
  BY BalanceIsInt
<1>6. Balance(in, out, orders, r + 1)
         = Balance(in, out, orders, r) + in[r] - out[r] - Cardinality(B)
  BY BalanceNext
<1> HIDE DEF A, B, C
<1>7. Free(in, out, orders, r)
         = Balance(in, out, orders, r) + in[r] - out[r] - Cardinality(C)
  BY <1>2, <1>3, <1>4, <1>5, <1>6
<1> QED
  BY <1>7 DEF C

(* The clock. *)

LEMMA ClockFacts ==
    ASSUME ChainOK
    PROVE  /\ time \in Nat /\ Now \in Rounds /\ Now \in Nat /\ Now <= MaxRound
           /\ Part \in 0 .. 3 /\ time = 4 * Now + Part
           /\ getCurrentRound = Now /\ getCurrentQuarter = Part
           /\ isHalted <=> haltedAt # Never
<1>1. time \in Nat /\ time <= 4 * MaxRound + 3 /\ haltedAt \in {Never, time} /\ MaxRound \in Nat
  BY ClientAssumption DEF ChainOK
<1>2. Now \in Nat /\ Part \in 0 .. 3 /\ time = 4 * Now + Part
  BY <1>1 DEF Now, Part
<1>3. Now <= MaxRound
  BY <1>1, <1>2
<1>4. getCurrentRound = Now /\ getCurrentQuarter = Part
  BY <1>1 DEF getCurrentRound, getCurrentQuarter, Now, Part
<1> QED
  BY <1>1, <1>2, <1>3, <1>4 DEF Rounds, isHalted

LEMMA FlowsAre == Handlers \subseteq Flows /\ User \in Flows /\ User \notin Handlers
BY ClientAssumption DEF Flows

\* The step of one flow.
LEMMA FlowTurns ==
    ASSUME LedgerInv, NEW f \in Flows, NEW new, Become(f, new)
    PROVE  flow'[f] = new /\ \A g \in Flows \ {f} : flow'[g] = flow[g]
BY OneFlow DEF LedgerInv

\* Neither time passes nor do the balances at the server change that are opening
\* balances by now.
Same ==
    /\ UNCHANGED <<time, haltedAt, serverRound>>
    /\ \A r \in 0 .. Now : serverOpening(r)' = serverOpening(r)

LEMMA TablesSame ==
    ASSUME UNCHANGED <<time, haltedAt, serverRound, deposited, debited, placed>>
    PROVE  Same
BY DEF Same, serverOpening

LEMMA SameFacts ==
    ASSUME Same
    PROVE  /\ Now' = Now /\ Part' = Part /\ getCurrentRound' = getCurrentRound
           /\ \A r \in 0 .. Now : /\ committedBalance(r)' = committedBalance(r)
                                  /\ CheatedIn(r)' <=> CheatedIn(r)
BY DEF Same, Now, Part, getCurrentRound, committedBalance, CheatedIn

LEMMA ProofsSame ==
    ASSUME ChainOK, ProofsOK, Same, UNCHANGED <<proofs, roundJoined>> PROVE ProofsOK'
<1>1. \A r \in Rounds : r <= Now => r \in 0 .. Now
  BY DEF Rounds
<1> QED
  BY <1>1, SameFacts DEF ProofsOK, Same

LEMMA DisputesSame ==
    ASSUME DisputesOK, Same, UNCHANGED disputes PROVE DisputesOK' /\ (haltDue' <=> haltDue)
<1>1. \A r \in disputes : r \in 0 .. Now
  BY DEF DisputesOK
<1> QED
  BY <1>1, SameFacts DEF DisputesOK, Same, haltDue

LEMMA RecoverSame ==
    ASSUME ChainOK, RecoversAll, recovered = "no" \/ haltedAt # Never, Same, UNCHANGED recovered
    PROVE  RecoversAll' /\ (recovered = "no" \/ haltedAt # Never)'
<1>1. Now \in Nat /\ getCurrentRound = Now
  BY ClockFacts
<1>2. Now >= 2 => Now - 2 \in 0 .. Now
  BY <1>1
<1>3. RecoversAll'
  <2>1. ASSUME NEW k, k = Now - 2, recovered = "onChain", Now >= 2
        PROVE  serverOpening(k)' = 0
    BY <1>1, <1>2, <2>1 DEF RecoversAll, Same
  <2>2. getCurrentRound' = Now
    BY <1>1, SameFacts
  <2> QED
    BY <1>1, <2>1, <2>2 DEF RecoversAll, serverOpening
<1> QED
  BY <1>3 DEF Same

HandlersStay == \A h \in Handlers : flow'[h] = flow[h]

ClientStays == UNCHANGED <<connected, round, quarter, roundJoined, proofs, disputes, recovered>>

LEMMA HandlersSame ==
    ASSUME ChainOK, Same, HandlersStay, UNCHANGED <<connected, round, quarter, roundJoined, proofs>>,
           FillsOf(placed, Now - 1)' = FillsOf(placed, Now - 1),
           \A h \in Handlers : HandlerOK(flow[h])
    PROVE  \A h \in Handlers : HandlerOK(flow[h])'
<1> SUFFICES ASSUME NEW h \in Handlers PROVE HandlerOK(flow[h])'
  OBVIOUS
<1>1. flow'[h] = flow[h] /\ HandlerOK(flow[h])
  BY DEF HandlersStay
<1>2. /\ Now' = Now /\ Part' = Part /\ haltedAt' = haltedAt
      /\ FillsOf(placed, Now - 1)' = FillsOf(placed, Now - 1)
      /\ committedBalance(Now)' = committedBalance(Now) /\ (CheatedIn(Now)' <=> CheatedIn(Now))
  <2>1. Now \in 0 .. Now
    BY ClockFacts
  <2>2. Now' = Now
    BY SameFacts
  <2>3. committedBalance(Now)' = committedBalance(Now) /\ (CheatedIn(Now)' <=> CheatedIn(Now))
    BY <2>1, <2>2 DEF Same, committedBalance, CheatedIn
  <2> QED
    BY <2>3, SameFacts DEF Same
<1> QED
  BY <1>1, <1>2 DEF HandlerOK

LEMMA ClockSame ==
    ASSUME ClockOK, Same, HandlersStay, UNCHANGED <<connected, round, quarter>> PROVE ClockOK'
BY SameFacts DEF ClockOK, HandlersStay

LEMMA PendingSame ==
    ASSUME Same, HandlersStay, UNCHANGED quarter
    PROVE  /\ AuditPending' <=> AuditPending
           /\ Behind' <=> Behind
           /\ (\E h \in Handlers : At(h, "confirm"))' <=> (\E h \in Handlers : At(h, "confirm"))
BY SameFacts DEF AuditPending, Behind, HandlersStay, At

LEMMA AuditSame ==
    ASSUME ChainOK, JoinedOK, Audited, DisputesOK, Same, AuditPending' <=> AuditPending,
           UNCHANGED <<connected, roundJoined, proofs, disputes>>
    PROVE  Audited'
<1> SUFFICES ASSUME connected, NEW r \in roundJoined + 1 .. Now
             PROVE  (\/ r = Now /\ AuditPending
                     \/ proofs[r] # Never
                     \/ CheatedIn(r) /\ (r \in disputes \/ (r = Now /\ haltDue)))'
  BY SameFacts DEF Audited
<1>1. r \in 0 .. Now
  BY ClockFacts DEF JoinedOK
<1> QED
  BY <1>1, SameFacts, DisputesSame DEF Audited

LEMMA ClaimsSame ==
    ASSUME ClaimsOK, Same, AuditPending' <=> AuditPending, UNCHANGED <<request, roundJoined>>,
           (\E h \in Handlers : At(h, "confirm"))' <=> (\E h \in Handlers : At(h, "confirm"))
    PROVE  ClaimsOK'
BY SameFacts DEF ClaimsOK, Same

\* What a step of the user, or of the server, has in common with the others.
LEMMA UserFrame ==
    ASSUME Calm, Same, HandlersStay, ClientStays,
           FillsOf(placed, Now - 1)' = FillsOf(placed, Now - 1)
    PROVE  /\ ClockOK' /\ (\A h \in Handlers : HandlerOK(flow[h])')
           /\ ProofsOK' /\ DisputesOK' /\ Audited' /\ RecoversAll'
           /\ (recovered = "no" \/ haltedAt # Never)'
           /\ request' = request => ClaimsOK'
           /\ Behind' <=> Behind
           /\ AuditPending' <=> AuditPending
           /\ Now' = Now /\ Part' = Part
           /\ haltDue' <=> haltDue
<1>0. /\ ChainOK /\ ClockOK /\ (\A h \in Handlers : HandlerOK(flow[h])) /\ ProofsOK
      /\ DisputesOK /\ Audited /\ RecoversAll /\ JoinedOK /\ ClaimsOK
      /\ (recovered = "no" \/ haltedAt # Never)
  BY DEF Calm
<1>1. ClockOK' /\ \A h \in Handlers : HandlerOK(flow[h])'
  BY <1>0, ClockSame, HandlersSame DEF ClientStays
<1>2. ProofsOK' /\ DisputesOK' /\ (haltDue' <=> haltDue)
  BY <1>0, ProofsSame, DisputesSame DEF ClientStays
<1>3. RecoversAll' /\ (recovered = "no" \/ haltedAt # Never)'
  BY <1>0, RecoverSame DEF ClientStays
<1>4. /\ AuditPending' <=> AuditPending
      /\ Behind' <=> Behind
      /\ (\E h \in Handlers : At(h, "confirm"))' <=> (\E h \in Handlers : At(h, "confirm"))
  BY PendingSame DEF ClientStays
<1>5. Audited' /\ (request' = request => ClaimsOK')
  BY <1>0, <1>4, AuditSame, ClaimsSame DEF ClientStays
<1> QED
  BY <1>1, <1>2, <1>3, <1>4, <1>5, SameFacts

LEMMA UserDone ==
    ASSUME Calm, Same, HandlersStay, ClientStays,
           FillsOf(placed, Now - 1)' = FillsOf(placed, Now - 1),
           connected, DOMAIN account' = DOMAIN account,
           account'.roundJoined = account.roundJoined,
           flow'[User].pc \in {"syncFills", "syncProofs"} =>
               flow[User].pc \in {"syncFills", "syncProofs"} /\ flow'[User].got = flow[User].got,
           flow'[User].pc \notin Joining,
           ChainOK', UserIsOK(flow[User])', AmountsAgree', OrdersAgree', NothingBefore',
           request' = request \/ ClaimsOK'
    PROVE  Calm'
<1>1. JoinOK' /\ JoinedOK'
  BY SameFacts DEF Calm, JoinOK, JoinedOK, ClientStays
<1> QED
  BY <1>1, UserFrame DEF Calm

LEMMA ChainKept ==
    ASSUME ChainOK, booked' \in [Rounds -> Nat],
           UNCHANGED <<time, haltedAt, serverRound, deposited, debited, placed, disputes>>
    PROVE  ChainOK'
BY DEF ChainOK, Now, haltDue, CheatedIn, committedBalance, serverOpening

LEMMA AmountsKept ==
    ASSUME AmountsAgree, UNCHANGED <<time, deposited, debited, credited, booked>>,
           At(User, "credit")' <=> At(User, "credit"),
           At(User, "withdraw")' <=> At(User, "withdraw")
    PROVE  AmountsAgree'
BY DEF AmountsAgree, Now

LEMMA OrdersKept ==
    ASSUME OrdersAgree, UNCHANGED <<time, known, placed>>, Behind' <=> Behind,
           flow[User].pc # "insertOrder",
           \A o \in Orders : Canceling(flow[User], o) => Canceling(flow[User], o)'
    PROVE  OrdersAgree'
BY DEF OrdersAgree, Now, At

LEMMA NothingKept ==
    ASSUME NothingBefore, UNCHANGED <<roundJoined, deposited, debited, placed>>
    PROVE  NothingBefore'
BY DEF NothingBefore

\* The steps of the user that change the flow only.
LEMMA UserGoes ==
    ASSUME Calm, HandlersStay, connected, DOMAIN account' = DOMAIN account,
           account'.roundJoined = account.roundJoined,
           UNCHANGED <<chainVars, serverVars, known, credited, booked, pending, proofs,
                       memoryVars>>,
           flow'[User].pc \in {"syncFills", "syncProofs"} =>
               flow[User].pc \in {"syncFills", "syncProofs"} /\ flow'[User].got = flow[User].got,
           flow'[User].pc \notin Joining,
           UserIsOK(flow[User])',
           \A pc \in {"credit", "withdraw", "insertOrder"} :
               flow[User].pc # pc /\ flow'[User].pc # pc,
           \A o \in Orders : Canceling(flow[User], o) => Canceling(flow[User], o)'
    PROVE  Calm'
<1>1. /\ UNCHANGED <<time, haltedAt, serverRound, deposited, debited, placed, disputes, known,
                     credited, booked, roundJoined, request>>
      /\ ClientStays
  BY DEF chainVars, serverVars, memoryVars, ClientStays
<1>2. Same /\ FillsOf(placed, Now - 1)' = FillsOf(placed, Now - 1)
  BY <1>1, TablesSame, SameFacts
<1>3. Behind' <=> Behind
  BY <1>1, <1>2, PendingSame DEF ClientStays
<1>4. ChainOK' /\ NothingBefore'
  BY <1>1, ChainKept, NothingKept DEF Calm, ChainOK
<1>5. AmountsAgree' /\ OrdersAgree'
  BY <1>1, <1>3, AmountsKept, OrdersKept DEF Calm, At
<1> QED
  BY <1>1, <1>2, <1>4, <1>5, UserDone

\* What is known of the user's flow.
LEMMA UserMoves ==
    ASSUME LedgerInv, NEW new, Become(User, new)
    PROVE  flow'[User] = new /\ HandlersStay
<1>1. \A h \in Handlers : h \in Flows \ {User}
  BY FlowsAre
<1> QED
  BY <1>1, FlowsAre, FlowTurns DEF HandlersStay

\* Places of the user are not orders.
LEMMA UserPlaceIsNoOrder == ASSUME NEW pc \in UserPlaces PROVE pc \notin Orders
BY PlaceIsNoOrder DEF UserPlaces, Places, Joining, Claiming, Fetching

LEMMA IdleIsOK == UserIsOK(Idle)' /\ UserIsOK(Idle)
BY DEF UserIsOK, Idle, UserPlaces, Fetching

LEMMA EndedUser ==
    ASSUME LedgerInv, Calm, End(User), connected, DOMAIN account' = DOMAIN account,
           account'.roundJoined = account.roundJoined,
           UNCHANGED <<chainVars, serverVars, known, credited, booked, pending, proofs,
                       memoryVars>>,
           \A pc \in {"credit", "withdraw", "insertOrder"} : flow[User].pc # pc,
           \A o \in Orders : ~Canceling(flow[User], o)
    PROVE  Calm'
<1>1. flow'[User] = Idle /\ HandlersStay
  BY UserMoves DEF End
<1>2. UserIsOK(flow[User])'
  BY <1>1, IdleIsOK
<1>3. flow'[User].pc = "idle"
  BY <1>1 DEF Idle
<1>4. flow'[User].pc \notin Joining
  BY <1>3 DEF Joining
<1> QED
  BY <1>1, <1>2, <1>3, <1>4, UserGoes

(* What client and server know of the balances. *)

LEMMA Amounts ==
    ASSUME LedgerInv, ChainOK
    PROVE  /\ credited \in [Rounds -> Nat] /\ booked \in [Rounds -> Nat]
           /\ deposited \in [Rounds -> Nat] /\ debited \in [Rounds -> Nat]
BY DEF LedgerInv, ChainOK

LEMMA FillsOfThePast ==
    ASSUME LedgerInv, OrdersAgree, ChainOK, NEW q \in Rounds, q < Now
    PROVE  /\ FillsOf(known, q) \subseteq FillsOf(placed, q)
           /\ ~Behind \/ q < Now - 1 => FillsOf(known, q) = FillsOf(placed, q)
<1>0. Now \in Nat
  BY ClockFacts
<1>1. ASSUME NEW o \in FillsOf(known, q) PROVE o \in FillsOf(placed, q)
  BY DEF FillsOf, LedgerInv, OrderOK
<1>2. ASSUME NEW o \in FillsOf(placed, q), ~Behind \/ q < Now - 1 PROVE o \in FillsOf(known, q)
  <2>1. o \in Orders /\ placed[o].status = "filled" /\ placed[o].round = q
    BY DEF FillsOf
  <2>2. known[o].status \in {"open", "filled", "canceled"}
    BY <1>0, <2>1 DEF OrdersAgree, Rounds
  <2>3. OrderOK(known[o], placed[o])
    BY <2>1 DEF LedgerInv
  <2>4. known[o].round = q /\ known[o].status # "canceled"
    BY <2>1, <2>2, <2>3 DEF OrderOK
  <2>5. known[o].status # "open"
    BY <1>0, <1>2, <2>1 DEF OrdersAgree, Rounds
  <2> QED
    BY <2>1, <2>2, <2>4, <2>5 DEF FillsOf
<1> QED
  BY <1>1, <1>2

Used(orders) == OrdersIn(orders, Now, {"open", "filled"})

\* What is held at the server is held here, but for the order that is being inserted.
LEMMA UsedNow ==
    ASSUME LedgerInv, OrdersAgree, ChainOK, \A o \in Orders : ~Canceling(flow[User], o)
    PROVE  /\ Used(known) \subseteq Used(placed)
           /\ ~At(User, "insertOrder") => Used(known) = Used(placed)
           /\ \A o \in Orders : known[o].status = "none" => o \notin Used(known)
<1>1. ASSUME NEW o \in Used(known) PROVE o \in Used(placed)
  <2>1. o \in Orders /\ known[o].status \in {"open", "filled"} /\ known[o].round = Now
    BY DEF Used, OrdersIn
  <2>2. /\ placed[o].status # "none" /\ placed[o].round = Now
        /\ known[o].status = "filled" => placed[o].status = "filled"
    BY <2>1 DEF LedgerInv, OrderOK
  <2>3. placed[o].status # "canceled"
    BY <2>1 DEF OrdersAgree
  <2> QED
    BY <2>1, <2>2, <2>3 DEF Used, OrdersIn, ChainOK
<1>2. ASSUME NEW o \in Used(placed), ~At(User, "insertOrder") PROVE o \in Used(known)
  <2>1. o \in Orders /\ placed[o].status \in {"open", "filled"} /\ placed[o].round = Now
    BY DEF Used, OrdersIn
  <2>2. known[o].status \in {"open", "filled", "canceled"}
    BY <1>2, <2>1 DEF OrdersAgree
  <2>3. known[o].round = Now /\ known[o].status # "canceled"
    BY <2>1, <2>2 DEF LedgerInv, OrderOK
  <2> QED
    BY <2>1, <2>2, <2>3 DEF Used, OrdersIn
<1> QED
  BY <1>1, <1>2 DEF Used, OrdersIn

Here == Free(credited, booked, known, Now)
There == Free(deposited, debited, placed, Now)

LEMMA FreeHere ==
    ASSUME LedgerInv, ChainOK
    PROVE  /\ Here = Balance(credited, booked, known, Now) + credited[Now] - booked[Now]
                       - Cardinality(Used(known))
           /\ There = Balance(deposited, debited, placed, Now) + deposited[Now] - debited[Now]
                        - Cardinality(Used(placed))
           /\ Balance(credited, booked, known, Now) \in Int
           /\ Balance(deposited, debited, placed, Now) \in Int
           /\ credited[Now] \in Nat /\ booked[Now] \in Nat
           /\ deposited[Now] \in Nat /\ debited[Now] \in Nat
           /\ IsFiniteSet(Used(known)) /\ Cardinality(Used(known)) \in Nat
           /\ IsFiniteSet(Used(placed)) /\ Cardinality(Used(placed)) \in Nat
           /\ Here \in Int /\ There \in Int
<1>1. /\ Balance(credited, booked, known, Now) \in Int
      /\ Balance(deposited, debited, placed, Now) \in Int
  BY Amounts, BalanceIsInt
<1>2. Now \in Rounds
  BY ClockFacts
<1>3. /\ credited[Now] \in Nat /\ booked[Now] \in Nat
      /\ deposited[Now] \in Nat /\ debited[Now] \in Nat
  BY <1>2, Amounts
<1>4. /\ Here = Balance(credited, booked, known, Now) + credited[Now] - booked[Now]
                       - Cardinality(Used(known))
      /\ There = Balance(deposited, debited, placed, Now) + deposited[Now] - debited[Now]
                        - Cardinality(Used(placed))
  BY <1>2, Amounts, FreeIs DEF Here, There, Used
<1>5. /\ IsFiniteSet(Used(known)) /\ Cardinality(Used(known)) \in Nat
      /\ IsFiniteSet(Used(placed)) /\ Cardinality(Used(placed)) \in Nat
  BY OrdersCounted DEF Used
<1> QED
  BY <1>1, <1>3, <1>4, <1>5

\* Behind or not, the client allows for no less than is free at the server, and for what
\* it is still to write down.
LEMMA HereIsEnough ==
    ASSUME LedgerInv, Calm, ~At(User, "credit"), \A o \in Orders : ~Canceling(flow[User], o)
    PROVE  /\ There <= Here
           /\ At(User, "withdraw") => There < Here
           /\ At(User, "insertOrder") => There < Here
<1>0. OrdersAgree /\ ChainOK /\ AmountsAgree /\ Now \in Rounds /\ UserIsOK(flow[User])
  BY ClockFacts DEF Calm
<1>1. Balance(deposited, debited, placed, Now) <= Balance(credited, booked, known, Now)
  <2>1. ASSUME NEW q \in Rounds, q < Now
        PROVE  /\ credited[q] - booked[q] = deposited[q] - debited[q]
               /\ FillsOf(known, q) \subseteq FillsOf(placed, q)
    <3>1. deposited[q] = credited[q] /\ debited[q] = booked[q]
      BY <1>0, <2>1, Amounts, ClockFacts DEF AmountsAgree
    <3> QED
      BY <1>0, <2>1, <3>1, FillsOfThePast
  <2> QED
    BY <1>0, <2>1, Amounts, BalanceAtLeast
<1>2. deposited[Now] = credited[Now] /\ debited[Now] = booked[Now] + (IF At(User, "withdraw") THEN 1 ELSE 0)
  BY <1>0, Amounts DEF AmountsAgree
<1>3. /\ Cardinality(Used(known)) <= Cardinality(Used(placed))
      /\ At(User, "insertOrder") => Cardinality(Used(known)) < Cardinality(Used(placed))
  <2>1. Used(known) \subseteq Used(placed)
    BY <1>0, UsedNow
  <2>2. Cardinality(Used(known)) <= Cardinality(Used(placed))
    BY <1>0, <2>1, FreeHere, FS_Subset
  <2>3. ASSUME At(User, "insertOrder") PROVE Used(known) # Used(placed)
    <3>1. PICK o \in Orders : flow[User].got = {o} /\ known[o].status = "none"
      BY <1>0, <2>3 DEF UserIsOK, OneNew, At
    <3>2. placed[o].status # "none" /\ placed[o].round = flow[User].arg /\ flow[User].arg = Now
      BY <1>0, <2>3, <3>1 DEF LedgerInv, UserOK, UserIsOK, At
    <3>3. placed[o].status # "canceled"
      BY <1>0, <3>1 DEF OrdersAgree
    <3>4. o \in Used(placed) /\ o \notin Used(known)
      BY <1>0, <3>1, <3>2, <3>3 DEF Used, OrdersIn, ChainOK
    <3> QED
      BY <3>4
  <2> QED
    BY <1>0, <2>1, <2>2, <2>3, FreeHere, FS_Subset
<1>4. ~(At(User, "withdraw") /\ At(User, "insertOrder"))
  BY DEF At
<1> QED
  BY <1>0, <1>1, <1>2, <1>3, <1>4, FreeHere

\* Once the fills of the round before are in and nothing is under way, both ledgers
\* have the same balances.
LEMMA HereIsThere ==
    ASSUME LedgerInv, Calm, ~Behind, \A o \in Orders : ~Canceling(flow[User], o),
           \A pc \in {"credit", "withdraw", "insertOrder"} : ~At(User, pc)
    PROVE  Here = There
<1>0. OrdersAgree /\ ChainOK /\ AmountsAgree /\ Now \in Rounds
  BY ClockFacts DEF Calm
<1>1. Balance(deposited, debited, placed, Now) = Balance(credited, booked, known, Now)
  <2>1. ASSUME NEW q \in Rounds, q < Now
        PROVE  /\ credited[q] - booked[q] = deposited[q] - debited[q]
               /\ FillsOf(known, q) = FillsOf(placed, q)
    <3>1. deposited[q] = credited[q] /\ debited[q] = booked[q]
      BY <1>0, <2>1, Amounts DEF AmountsAgree
    <3> QED
      BY <1>0, <2>1, <3>1, FillsOfThePast
  <2> QED
    BY <1>0, <2>1, Amounts, BalanceSame
<1>2. deposited[Now] = credited[Now] /\ debited[Now] = booked[Now]
  BY <1>0, Amounts DEF AmountsAgree
<1>3. Used(known) = Used(placed)
  BY <1>0, UsedNow
<1> QED
  BY <1>0, <1>1, <1>2, <1>3, FreeHere

\* The opening balance of the round, as both see it, once its fills are in.
LEMMA OpeningHere ==
    ASSUME LedgerInv, Calm, ~Behind
    PROVE  openingBalance(Now) = serverOpening(Now)
<1>0. OrdersAgree /\ ChainOK /\ AmountsAgree /\ Now \in Rounds /\ Now \in Nat
  BY ClockFacts DEF Calm
<1>1. ASSUME NEW q \in Rounds, q < Now
      PROVE  /\ credited[q] - booked[q] = deposited[q] - debited[q]
             /\ FillsOf(known, q) = FillsOf(placed, q)
  <2>1. deposited[q] = credited[q] /\ debited[q] = booked[q]
    BY <1>0, <1>1, Amounts DEF AmountsAgree
  <2> QED
    BY <1>0, <1>1, <2>1, FillsOfThePast
<1> QED
  BY <1>0, <1>1, Amounts, BalanceSame DEF openingBalance, serverOpening

\* Nothing has gone wrong, and it does not now.
Undisturbed == InTime /\ faults = 0 /\ faults' = 0

LEMMA NoneGoesWrong == ASSUME Undisturbed, NEW kind PROVE ~Fault(kind)
BY DEF Undisturbed, Fault

LEMMA NotCanceling ==
    ASSUME NEW x, x.pc \in UserPlaces \ Fetching PROVE \A o \in Orders : ~Canceling(x, o)
BY UserPlaceIsNoOrder DEF Canceling

\* The places of the user of which UserIsOK says nothing.
LEMMA PlainUserIsOK ==
    ASSUME NEW x, x.pc \in {"idle", "confirm", "confirmed", "syncTime", "admit",
                            "validateAuthorization", "connect", "syncFills", "syncProofs"}
    PROVE  UserIsOK(x)' /\ x.pc \in UserPlaces \ Fetching
BY DEF UserIsOK, UserPlaces, Fetching, Claiming, Joining

LEMMA IsConnected ==
    ASSUME Calm, flow[User].pc \notin {"idle", "syncTime", "admit", "validateAuthorization", "connect"}
    PROVE  connected
BY DEF Calm, JoinOK, Joining

LEMMA UserRow == ASSUME LedgerInv PROVE FlowOK(flow[User], placed) /\ UserOK(flow[User], placed)
BY FlowsAre DEF LedgerInv

\* A flow that goes on.
LEMMA WentOn ==
    ASSUME LedgerInv, NEW f \in Flows, NEW pc, Go(f, pc)
    PROVE  /\ flow'[f] = [pc |-> pc, arg |-> flow[f].arg, got |-> flow[f].got, then |-> flow[f].then]
           /\ \A g \in Flows \ {f} : flow'[g] = flow[g]
<1> DEFINE x == flow[f]
<1>1. FlowOK(x, placed) /\ Become(f, [x EXCEPT !.pc = pc])
  BY DEF LedgerInv, Go
<1>2. flow'[f] = [x EXCEPT !.pc = pc] /\ \A g \in Flows \ {f} : flow'[g] = flow[g]
  BY <1>1, FlowTurns
<1> HIDE DEF x
<1>3. [x EXCEPT !.pc = pc] = [pc |-> pc, arg |-> x.arg, got |-> x.got, then |-> x.then]
  BY <1>1, UpdatedPlace
<1>4. flow'[f] = [pc |-> pc, arg |-> x.arg, got |-> x.got, then |-> x.then]
  BY <1>2, <1>3
<1> QED
  BY <1>2, <1>4 DEF x

LEMMA WentOnWith ==
    ASSUME LedgerInv, NEW f \in Flows, NEW pc, NEW got, GoWith(f, pc, got)
    PROVE  /\ flow'[f] = [pc |-> pc, arg |-> flow[f].arg, got |-> got, then |-> flow[f].then]
           /\ \A g \in Flows \ {f} : flow'[g] = flow[g]
<1> DEFINE x == flow[f]
<1>1. FlowOK(x, placed) /\ Become(f, [x EXCEPT !.pc = pc, !.got = got])
  BY DEF LedgerInv, GoWith
<1>2. flow'[f] = [x EXCEPT !.pc = pc, !.got = got] /\ \A g \in Flows \ {f} : flow'[g] = flow[g]
  BY <1>1, FlowTurns
<1> HIDE DEF x
<1>3. [x EXCEPT !.pc = pc, !.got = got] = [pc |-> pc, arg |-> x.arg, got |-> got, then |-> x.then]
  BY <1>1, UpdatedResult
<1>4. flow'[f] = [pc |-> pc, arg |-> x.arg, got |-> got, then |-> x.then]
  BY <1>2, <1>3
<1> QED
  BY <1>2, <1>4 DEF x

LEMMA UserGone ==
    ASSUME LedgerInv, NEW pc, Go(User, pc)
    PROVE  /\ flow'[User] = [pc |-> pc, arg |-> flow[User].arg, got |-> flow[User].got,
                             then |-> flow[User].then]
           /\ HandlersStay
BY WentOn, FlowsAre DEF HandlersStay

(* The steps of the user. *)

LEMMA UserConfirmsCalm ==
    ASSUME LedgerInv, Calm, userConfirms PROVE Calm'
<1>1. /\ At(User, "idle") /\ connected /\ Go(User, "confirm")
      /\ UNCHANGED <<chainVars, serverVars, databaseVars, memoryVars>>
  BY DEF userConfirms, onlyFlow, onlyMemory
<1>2. flow'[User].pc = "confirm" /\ HandlersStay /\ flow[User].pc = "idle"
  <2>1. flow[User].pc = "idle"
    BY <1>1 DEF At
  <2>2. /\ flow'[User] = [pc |-> "confirm", arg |-> flow[User].arg, got |-> flow[User].got,
                          then |-> flow[User].then]
        /\ HandlersStay
    BY <1>1, UserGone
  <2> QED
    BY <2>1, <2>2
<1>3. UserIsOK(flow[User])' /\ \A o \in Orders : ~Canceling(flow[User], o)
  <2>1. UserIsOK(flow[User])'
    BY <1>2, PlainUserIsOK
  <2>2. flow[User].pc \in UserPlaces \ Fetching
    BY <1>2 DEF UserPlaces, Fetching
  <2> QED
    BY <2>1, <2>2, NotCanceling
<1>4. "confirm" \notin Joining
  BY DEF Joining
<1> QED
  BY <1>1, <1>2, <1>3, <1>4, UserGoes DEF databaseVars

LEMMA ThereSame ==
    ASSUME UNCHANGED <<time, deposited, debited, placed>> PROVE There' = There /\ Now' = Now
BY DEF There, Now

LEMMA WithdrawCalm ==
    ASSUME LedgerInv, Calm, InTime, withdraw PROVE Calm'
<1> DEFINE new == [pc |-> "initiate", arg |-> round, got |-> {}, then |-> "idle"]
<1>1. /\ At(User, "idle") /\ connected /\ AllIdle /\ validateWithdrawal(round)
      /\ Become(User, [Idle EXCEPT !.pc = "initiate", !.arg = round])
      /\ UNCHANGED <<chainVars, serverVars, databaseVars, memoryVars>>
  BY DEF withdraw, onlyFlow, onlyMemory, InTime
<1>2. Become(User, new)
  BY <1>1, IdleCall
<1>3. flow'[User] = new /\ HandlersStay /\ flow[User].pc = "idle"
  BY <1>1, <1>2, UserMoves DEF At
<1>4. \A o \in Orders : ~Canceling(flow[User], o)
  <2>1. flow[User].pc \in UserPlaces \ Fetching
    BY <1>3 DEF UserPlaces, Fetching
  <2> QED
    BY <2>1, NotCanceling
<1>5. \A h \in Handlers : flow[h].pc = "idle"
  BY <1>1, FlowsAre DEF AllIdle, At
<1>6. round = Now /\ ~Behind
  <2>1. ClockOK
    BY DEF Calm
  <2> QED
    BY <1>1, <1>5, <2>1 DEF ClockOK, Behind, Asking, Fetching
<1>7. There > 0 /\ Now > 0 /\ ~pending
  <2>1. Here = There
    BY <1>3, <1>4, <1>6, HereIsThere DEF At
  <2> QED
    BY <1>1, <1>6, <2>1 DEF validateWithdrawal, Here
<1>8. UserIsOK(flow[User])'
  <2>1. UNCHANGED <<time, deposited, debited, placed, pending>>
    BY <1>1 DEF chainVars, serverVars, databaseVars
  <2>2. There' > 0 /\ Now' = Now /\ ~pending'
    BY <1>7, <2>1, ThereSame
  <2>3. flow'[User].pc = "initiate" /\ flow'[User].arg = Now
    BY <1>3, <1>6
  <2> QED
    BY <1>7, <2>2, <2>3 DEF UserIsOK, There, UserPlaces, Fetching
<1>9. new.pc = "initiate" /\ "initiate" \notin Joining
  BY DEF Joining
<1> HIDE DEF new
<1> QED
  BY <1>1, <1>3, <1>4, <1>8, <1>9, UserGoes DEF databaseVars

LEMMA CreateOrderCalm ==
    ASSUME LedgerInv, Calm, NEW o \in Orders, createOrder(o) PROVE Calm'
<1> DEFINE new == [pc |-> "sendOrder", arg |-> round, got |-> {o}, then |-> "idle"]
<1>1. /\ At(User, "idle") /\ connected /\ known[o].status = "none"
      /\ Become(User, [Idle EXCEPT !.pc = "sendOrder", !.arg = round, !.got = {o}])
      /\ UNCHANGED <<chainVars, serverVars, databaseVars, memoryVars>>
  BY DEF createOrder, onlyFlow, onlyMemory
<1>2. Become(User, new)
  BY <1>1, IdleCallWith
<1>3. flow'[User] = new /\ HandlersStay /\ flow[User].pc = "idle"
  BY <1>1, <1>2, UserMoves DEF At
<1>4. \A p \in Orders : ~Canceling(flow[User], p)
  <2>1. flow[User].pc \in UserPlaces \ Fetching
    BY <1>3 DEF UserPlaces, Fetching
  <2> QED
    BY <2>1, NotCanceling
<1>5. flow'[User].pc = "sendOrder" /\ flow'[User].got = {o}
  BY <1>3
<1>6. UserIsOK(flow[User])'
  <2>1. known' = known
    BY <1>1 DEF databaseVars
  <2> QED
    BY <1>1, <1>5, <2>1 DEF UserIsOK, OneNew, UserPlaces, Fetching
<1>7. "sendOrder" \notin Joining
  BY DEF Joining
<1> HIDE DEF new
<1> QED
  BY <1>1, <1>3, <1>4, <1>5, <1>6, <1>7, UserGoes DEF databaseVars

LEMMA SyncFillsCalm ==
    ASSUME LedgerInv, Calm, syncFills PROVE Calm'
<1> DEFINE x == flow[User]
           n == x.got.lastAuditRound + 1
           new == [pc |-> "syncProofs", arg |-> n, got |-> x.got, then |-> x.then]
<1>1. x.pc = "syncFills" /\ UNCHANGED <<chainVars, serverVars, databaseVars, memoryVars>>
  BY DEF syncFills, At, onlyFlow, onlyMemory
<1>2. connected
  BY <1>1, IsConnected
<1>3. x.got.lastFillRound = round /\ round = Now /\ Now \in Nat
  BY <1>1, <1>2, ClockFacts DEF Calm, JoinedOK
<1>4. Become(User, [x EXCEPT !.pc = "syncProofs", !.arg = n])
  BY <1>3 DEF syncFills
<1>5. Become(User, new)
  <2> HIDE DEF x, n
  <2>1. FlowOK(x, placed)
    BY UserRow DEF x
  <2> QED
    BY <1>4, <2>1, UpdatedCall
<1>6. flow'[User] = new /\ HandlersStay
  BY <1>5, UserMoves
<1>7. flow'[User].pc = "syncProofs" /\ flow'[User].got = x.got
  BY <1>6
<1>8. UserIsOK(flow[User])' /\ "syncProofs" \notin Joining
  BY <1>7, PlainUserIsOK DEF Joining
<1>9. \A o \in Orders : ~Canceling(x, o)
  <2>1. x.pc \in UserPlaces \ Fetching
    BY <1>1 DEF UserPlaces, Fetching
  <2> HIDE DEF x
  <2> QED
    BY <2>1, NotCanceling
<1> HIDE DEF new
<1> QED
  BY <1>1, <1>2, <1>6, <1>7, <1>8, <1>9, UserGoes DEF databaseVars

LEMMA SyncProofsCalm ==
    ASSUME LedgerInv, Calm, syncProofs PROVE Calm'
<1>1. flow[User].pc = "syncProofs"
  BY DEF syncProofs, At
<1>2. connected
  BY <1>1, IsConnected
<1>3. flow[User].got.lastAuditRound = round /\ round = Now /\ Now \in Nat
  BY <1>1, <1>2, ClockFacts DEF Calm, JoinedOK
<1>4. End(User) /\ UNCHANGED <<chainVars, serverVars, databaseVars, memoryVars>>
  BY <1>3 DEF syncProofs, onlyFlow, onlyMemory
<1>5. \A o \in Orders : ~Canceling(flow[User], o)
  <2>1. flow[User].pc \in UserPlaces \ Fetching
    BY <1>1 DEF UserPlaces, Fetching
  <2> QED
    BY <2>1, NotCanceling
<1> QED
  BY <1>1, <1>2, <1>4, <1>5, EndedUser DEF databaseVars

LEMMA UserFetchesCalm ==
    ASSUME LedgerInv, Calm, Undisturbed, fetchFills(User) PROVE Calm'
<1>1. PICK given : GoWith(User, "insertFills", given)
  BY NoneGoesWrong DEF fetchFills, Refuse
<1>2. /\ flow[User].pc = "fetch"
      /\ UNCHANGED <<chainVars, serverVars, databaseVars, memoryVars>>
  BY NoneGoesWrong DEF fetchFills, Refuse, At
<1>3. /\ flow'[User] = [pc |-> "insertFills", arg |-> flow[User].arg, got |-> given,
                        then |-> flow[User].then]
      /\ HandlersStay
  BY <1>1, FlowsAre, WentOnWith DEF HandlersStay
<1>4. flow'[User].pc = "insertFills" /\ flow'[User].then = flow[User].then
  BY <1>3
<1>5. connected
  BY <1>2, IsConnected DEF Joining
<1>6. UserIsOK(flow[User])'
  <2>1. flow[User].then \in Orders
    BY <1>2 DEF Calm, UserIsOK, Fetching
  <2> QED
    BY <1>4, <2>1 DEF UserIsOK, UserPlaces, Fetching
<1>7. \A o \in Orders : Canceling(flow[User], o) => Canceling(flow[User], o)'
  <2>1. "fetch" \notin Orders
    BY PlaceIsNoOrder DEF Places
  <2> QED
    BY <1>2, <1>4, <2>1 DEF Canceling, Fetching
<1>8. "insertFills" \notin Joining
  BY DEF Joining
<1> QED
  BY <1>2, <1>3, <1>4, <1>5, <1>6, <1>7, <1>8, UserGoes DEF databaseVars

(* Steps that change what the server knows of the round that it is. *)

\* What is changed is of this round.
OfNow ==
    /\ UNCHANGED <<time, haltedAt, serverRound>>
    /\ debited' \in [Rounds -> Nat]
    /\ \A q \in Rounds : q # Now => deposited'[q] = deposited[q] /\ debited'[q] = debited[q]
    /\ \A q : q # Now => FillsOf(placed', q) = FillsOf(placed, q)

LEMMA OfNowIsSame ==
    ASSUME LedgerInv, LedgerInv', ChainOK, OfNow
    PROVE  /\ Same /\ Now' = Now
           /\ FillsOf(placed, Now - 1)' = FillsOf(placed, Now - 1)
<1>0. /\ deposited \in [Rounds -> Nat] /\ debited \in [Rounds -> Nat]
      /\ deposited' \in [Rounds -> Nat] /\ debited' \in [Rounds -> Nat] /\ Now \in Nat
  BY ClockFacts DEF LedgerInv, ChainOK, OfNow
<1>1. Now' = Now
  BY DEF OfNow, Now
<1>2. ASSUME NEW r \in 0 .. Now
      PROVE  Balance(deposited', debited', placed', r) = Balance(deposited, debited, placed, r)
  <2>1. ASSUME NEW q \in Rounds, q < r
        PROVE  /\ deposited'[q] - debited'[q] = deposited[q] - debited[q]
               /\ FillsOf(placed', q) = FillsOf(placed, q)
    <3>1. q # Now
      BY <1>0, <2>1
    <3> QED
      BY <2>1, <3>1 DEF OfNow
  <2> QED
    BY <1>0, <2>1, BalanceSame
<1>3. Same
  BY <1>2 DEF Same, OfNow, serverOpening
<1>4. Now - 1 # Now
  BY <1>0
<1> QED
  BY <1>1, <1>3, <1>4 DEF OfNow

LEMMA ThereNext ==
    ASSUME LedgerInv, LedgerInv', ChainOK, OfNow
    PROVE  /\ There' = serverOpening(Now) + deposited'[Now] - debited'[Now]
                         - Cardinality(OrdersIn(placed', Now, {"open", "filled"}))
           /\ There = serverOpening(Now) + deposited[Now] - debited[Now]
                        - Cardinality(OrdersIn(placed, Now, {"open", "filled"}))
           /\ serverOpening(Now) \in Int
           /\ deposited[Now] \in Nat /\ debited[Now] \in Nat
           /\ deposited'[Now] \in Nat /\ debited'[Now] \in Nat
           /\ \A orders : /\ IsFiniteSet(OrdersIn(orders, Now, {"open", "filled"}))
                          /\ Cardinality(OrdersIn(orders, Now, {"open", "filled"})) \in Nat
<1>0. /\ deposited \in [Rounds -> Nat] /\ debited \in [Rounds -> Nat]
      /\ deposited' \in [Rounds -> Nat] /\ debited' \in [Rounds -> Nat] /\ Now \in Nat
      /\ Now \in Rounds
  BY ClockFacts DEF LedgerInv, ChainOK, OfNow
<1>1. Now' = Now /\ Same
  BY OfNowIsSame
<1>2. Balance(deposited', debited', placed', Now) = serverOpening(Now)
  <2>1. Now \in 0 .. Now
    BY <1>0
  <2>2. \A r \in 0 .. Now : Balance(deposited', debited', placed', r) = serverOpening(r)
    BY <1>1 DEF Same, serverOpening
  <2> QED
    BY <2>1, <2>2
<1>3. There' = Free(deposited', debited', placed', Now)
  BY <1>1 DEF There
<1>4. Free(deposited', debited', placed', Now)
         = Balance(deposited', debited', placed', Now) + deposited'[Now] - debited'[Now]
             - Cardinality(OrdersIn(placed', Now, {"open", "filled"}))
  BY <1>0, FreeIs
<1>5. There = serverOpening(Now) + deposited[Now] - debited[Now]
                - Cardinality(OrdersIn(placed, Now, {"open", "filled"}))
  BY <1>0, FreeIs DEF There, serverOpening
<1>6. serverOpening(Now) \in Int
  BY <1>0, BalanceIsInt DEF serverOpening
<1> QED
  BY <1>0, <1>2, <1>3, <1>4, <1>5, <1>6, OrdersCounted

LEMMA ChainOfNow ==
    ASSUME LedgerInv, LedgerInv', ChainOK, OfNow, There' >= 0, UNCHANGED <<booked, disputes>>,
           DisputesOK,
           \A o \in Orders :
               /\ placed'[o].status \in {"none", "open", "filled", "canceled"}
               /\ placed'[o].status # "none" => placed'[o].round \in 0 .. Now
    PROVE  ChainOK'
<1>1. Now' = Now /\ Same
  BY OfNowIsSame
<1>2. haltDue' <=> haltDue
  BY <1>1, DisputesSame
<1>3. \A r \in 0 .. Now : Balance(deposited', debited', placed', r) = serverOpening(r)
  BY <1>1 DEF Same, serverOpening
<1>4. \A r \in 0 .. Now : Balance(deposited', debited', placed', r) >= 0
  BY <1>3 DEF ChainOK
<1>5. Now \in Nat
  BY ClockFacts
<1>6. Balance(deposited', debited', placed', Now) >= 0
  BY <1>4, <1>5
<1>7. \A r \in Rounds : r > Now => deposited'[r] = 0 /\ debited'[r] = 0
  <2>1. ASSUME NEW r \in Rounds, r > Now PROVE deposited'[r] = 0 /\ debited'[r] = 0
    <3>1. r # Now
      BY <1>5, <2>1
    <3> QED
      BY <2>1, <3>1 DEF OfNow, ChainOK
  <2> QED
    BY <2>1
<1>8. /\ time' \in 0 .. 4 * MaxRound + 3 /\ haltedAt' \in {Never, time'}
      /\ haltedAt' # Never => haltDue' 
      /\ serverRound' = Now' /\ debited' \in [Rounds -> Nat] /\ booked' \in [Rounds -> Nat]
  BY <1>1, <1>2 DEF ChainOK, OfNow
<1> QED
  BY <1>1, <1>4, <1>6, <1>7, <1>8 DEF ChainOK, There, serverOpening

LEMMA NothingOfNow ==
    ASSUME ChainOK, JoinedOK, NothingBefore, connected, OfNow, UNCHANGED roundJoined
    PROVE  NothingBefore'
<1>1. roundJoined \in 0 .. Now /\ Now \in Nat
  BY ClockFacts DEF JoinedOK
<1>2. \A r \in Rounds : r < roundJoined => r # Now
  BY <1>1 DEF Rounds
<1> QED
  BY <1>2 DEF NothingBefore, OfNow

\* A row of the server's table that belongs to this round changes.
LEMMA RowOfNow ==
    ASSUME NEW o \in Orders,
           UNCHANGED <<time, haltedAt, serverRound, deposited, debited>>,
           debited \in [Rounds -> Nat],
           \A p \in Orders \ {o} : placed'[p] = placed[p],
           placed'[o].round = Now,
           placed[o].status = "filled" => placed[o].round = Now
    PROVE  OfNow
<1>1. ASSUME NEW q, q # Now PROVE FillsOf(placed', q) = FillsOf(placed, q)
  <2>1. ASSUME NEW p \in Orders
        PROVE  placed'[p].status = "filled" /\ placed'[p].round = q
                  <=> placed[p].status = "filled" /\ placed[p].round = q
    <3>1. CASE p = o
      BY <1>1, <3>1
    <3>2. CASE p # o
      BY <3>2
    <3> QED
      BY <3>1, <3>2
  <2> QED
    BY <2>1 DEF FillsOf
<1> QED
  BY <1>1 DEF OfNow

LEMMA FillCalm ==
    ASSUME LedgerInv, LedgerInv', Calm, NEW o \in Orders, fill(o) PROVE Calm'
<1>0. /\ ChainOK /\ OrdersAgree /\ AmountsAgree /\ NothingBefore /\ JoinedOK /\ DisputesOK
      /\ JoinOK /\ UserIsOK(flow[User])
  BY DEF Calm
<1>1. /\ placed[o].status = "open" /\ placed[o].round = Now
      /\ SetsStatus(placed', placed, o, "filled")
      /\ UNCHANGED <<chainVars, serverRound, admitted, databaseVars, memoryVars, flow>>
  BY <1>0 DEF fill, SetsStatus, ChainOK
<1>2. UNCHANGED <<time, haltedAt, serverRound, deposited, debited, request, disputes, recovered,
                  account, known, credited, booked, pending, proofs, connected, round, quarter,
                  roundJoined, flow>>
  BY <1>1 DEF chainVars, databaseVars, memoryVars
<1>3. /\ placed'[o] = [status |-> "filled", round |-> Now]
      /\ \A p \in Orders \ {o} : placed'[p] = placed[p]
  <2>1. IsOrderTable(placed)
    BY TablesOf
  <2> QED
    BY <1>1, <2>1, RowUpdated
<1>4. OfNow
  BY <1>0, <1>1, <1>2, <1>3, RowOfNow DEF ChainOK
<1>5. Same /\ Now' = Now /\ FillsOf(placed, Now - 1)' = FillsOf(placed, Now - 1)
  BY <1>0, <1>4, OfNowIsSame
<1>6. HandlersStay /\ ClientStays /\ connected
  BY <1>0, <1>1, <1>2 DEF HandlersStay, ClientStays, JoinOK
<1>7. There' = There
  <2>1. OrdersIn(placed', Now, {"open", "filled"}) = OrdersIn(placed, Now, {"open", "filled"})
    BY <1>1, <1>3 DEF OrdersIn
  <2> QED
    BY <1>0, <1>2, <1>4, <2>1, ThereNext
<1>8. ChainOK'
  <2>1. There >= 0
    BY <1>0 DEF ChainOK, There
  <2>2. Now \in 0 .. Now
    BY <1>0, ClockFacts
  <2>3. \A p \in Orders :
               /\ placed'[p].status \in {"none", "open", "filled", "canceled"}
               /\ placed'[p].status # "none" => placed'[p].round \in 0 .. Now
    BY <1>0, <1>3, <2>2 DEF ChainOK
  <2> QED
    BY <1>0, <1>2, <1>4, <1>7, <2>1, <2>3, ChainOfNow
<1>9. Behind' <=> Behind
  BY <1>2, <1>5, <1>6, PendingSame
<1>10. AmountsAgree' /\ NothingBefore'
  BY <1>0, <1>2, <1>4, <1>6, AmountsKept, NothingOfNow DEF At
<1>11. OrdersAgree'
  BY <1>0, <1>1, <1>2, <1>3, <1>5, <1>9 DEF OrdersAgree, At
<1>12. UserIsOK(flow[User])'
  BY <1>0, <1>2, <1>5, <1>7 DEF UserIsOK, There, OneNew
<1>13. flow'[User].pc \notin Joining
  BY <1>0, <1>2, <1>6 DEF JoinedOK
<1> QED
  BY <1>2, <1>5, <1>6, <1>8, <1>10, <1>11, <1>12, <1>13, UserDone

LEMMA CancelOrderCalm ==
    ASSUME LedgerInv, LedgerInv', Calm, Undisturbed, NEW o \in Orders, cancelOrder(o) PROVE Calm'
<1>0. /\ ChainOK /\ OrdersAgree /\ AmountsAgree /\ NothingBefore /\ JoinedOK /\ DisputesOK
  BY DEF Calm
<1>1. /\ flow[User].pc = "idle" /\ connected
      /\ UNCHANGED <<chainVars, serverRound, admitted, databaseVars, memoryVars>>
  BY DEF cancelOrder, At
<1>2. UNCHANGED <<time, haltedAt, serverRound, deposited, debited, request, disputes, recovered,
                  account, known, credited, booked, pending, proofs, connected, round, quarter,
                  roundJoined>>
  BY <1>1 DEF chainVars, databaseVars, memoryVars
<1>3. CASE UNCHANGED <<placed, flow>>
  <2>1. HandlersStay /\ UNCHANGED <<chainVars, serverVars, databaseVars, memoryVars>>
    BY <1>1, <1>3 DEF HandlersStay, serverVars
  <2>2. UserIsOK(flow[User])' /\ flow'[User].pc \notin Joining
    BY <1>1, <1>3, PlainUserIsOK DEF Joining
  <2>3. \A p \in Orders : ~Canceling(flow[User], p)
    BY <1>1, NotCanceling DEF UserPlaces, Fetching
  <2> QED
    BY <1>1, <1>2, <1>3, <2>1, <2>2, <2>3, UserGoes DEF databaseVars
<1>4. CASE ~UNCHANGED <<placed, flow>>
  <2>1. /\ placed[o].status = "open" /\ placed[o].round = Now /\ Fetch(User, round, o)
        /\ SetsStatus(placed', placed, o, "canceled")
    BY <1>0, <1>4, NoneGoesWrong DEF cancelOrder, SetsStatus, ChainOK
  <2>2. /\ placed'[o] = [status |-> "canceled", round |-> Now]
        /\ \A p \in Orders \ {o} : placed'[p] = placed[p]
    <3>1. IsOrderTable(placed)
      BY TablesOf
    <3> QED
      BY <2>1, <3>1, RowUpdated
  <2>3. /\ flow'[User] = [pc |-> "fetch", arg |-> round, got |-> {}, then |-> o]
        /\ HandlersStay
    BY <2>1, UserMoves DEF Fetch
  <2>4. OfNow
    BY <1>0, <1>2, <2>1, <2>2, RowOfNow DEF ChainOK
  <2>5. Same /\ Now' = Now /\ FillsOf(placed, Now - 1)' = FillsOf(placed, Now - 1)
    BY <1>0, <2>4, OfNowIsSame
  <2>6. ClientStays
    BY <1>2 DEF ClientStays
  <2>7. There' >= There
    <3> DEFINE S == OrdersIn(placed, Now, {"open", "filled"})
               T == OrdersIn(placed', Now, {"open", "filled"})
    <3>1. T \subseteq S
      BY <2>2 DEF OrdersIn
    <3>2. IsFiniteSet(S) /\ Cardinality(S) \in Nat /\ Cardinality(T) \in Nat
      BY OrdersCounted
    <3>3. Cardinality(T) <= Cardinality(S)
      <4> HIDE DEF S, T
      <4> QED
        BY <3>1, <3>2, FS_Subset
    <3>4. /\ There' = serverOpening(Now) + deposited'[Now] - debited'[Now] - Cardinality(T)
          /\ There = serverOpening(Now) + deposited[Now] - debited[Now] - Cardinality(S)
          /\ serverOpening(Now) \in Int /\ deposited[Now] \in Nat /\ debited[Now] \in Nat
      BY <1>0, <2>4, ThereNext
    <3> HIDE DEF S, T
    <3> QED
      BY <1>2, <3>2, <3>3, <3>4
  <2>8. ChainOK'
    <3>1. There >= 0 /\ There \in Int /\ There' \in Int
      BY <1>0, <2>4, ThereNext DEF ChainOK, There
    <3>2. Now \in 0 .. Now
      BY <1>0, ClockFacts
    <3>3. \A p \in Orders :
                 /\ placed'[p].status \in {"none", "open", "filled", "canceled"}
                 /\ placed'[p].status # "none" => placed'[p].round \in 0 .. Now
      BY <1>0, <2>2, <3>2 DEF ChainOK
    <3> QED
      BY <1>0, <1>2, <2>4, <2>7, <3>1, <3>3, ChainOfNow
  <2>9. Behind' <=> Behind
    BY <1>2, <2>3, <2>5, PendingSame
  <2>10. AmountsAgree' /\ NothingBefore'
    BY <1>0, <1>1, <1>2, <2>3, <2>4, AmountsKept, NothingOfNow DEF At
  <2>11. Canceling(flow[User], o)' /\ flow'[User].pc = "fetch"
    BY <2>3 DEF Canceling, Fetching
  <2>12. \A p \in Orders : ~Canceling(flow[User], p)
    BY <1>1, NotCanceling DEF UserPlaces, Fetching
  <2>13. OrdersAgree'
    <3>1. ASSUME NEW p \in Orders
          PROVE  /\ known[p].status \in {"none", "open", "filled", "canceled"}
                 /\ ~(placed'[p].status # "none" /\ known[p].status = "none")
                 /\ placed'[p].status = "filled" /\ known[p].status = "open" =>
                       placed'[p].round = Now \/ (Behind /\ placed'[p].round = Now - 1)
                 /\ placed'[p].status = "canceled" /\ known[p].status # "canceled" =>
                       p = o /\ placed'[p].round = Now
      <4>1. CASE p = o
        <5>1. known[o].status # "none"
          BY DEF cancelOrder
        <5> QED
          BY <1>0, <2>2, <4>1, <5>1 DEF OrdersAgree
      <4>2. CASE p # o
        BY <1>0, <1>1, <2>2, <2>12, <4>2 DEF OrdersAgree, At
      <4> QED
        BY <4>1, <4>2
    <3> QED
      BY <1>2, <2>5, <2>9, <2>11, <3>1 DEF OrdersAgree
  <2>14. UserIsOK(flow[User])'
    BY <2>3 DEF UserIsOK, UserPlaces, Fetching
  <2>15. "fetch" \notin Joining
    BY DEF Joining
  <2> QED
    BY <1>1, <1>2, <2>3, <2>5, <2>6, <2>8, <2>10, <2>11, <2>13, <2>14, <2>15, UserDone
<1> QED
  BY <1>3, <1>4

(* What the user is writing down. *)

LEMMA UserInsertsFillsCalm ==
    ASSUME LedgerInv, LedgerInv', Calm, insertFills(User) PROVE Calm'
<1> DEFINE x == flow[User]
<1>0. /\ ChainOK /\ OrdersAgree /\ AmountsAgree /\ NothingBefore /\ JoinedOK /\ DisputesOK
      /\ UserIsOK(x)
  BY DEF Calm
<1>1. /\ x.pc = "insertFills" /\ known' = onReceiveFills(x.got, x.arg)
      /\ updateLastAuditOrFillRound("lastFillRound")
      /\ UNCHANGED <<chainVars, serverVars, credited, booked, pending, proofs, memoryVars>>
  BY DEF insertFills, At
<1>2. x.then \in Orders /\ x.then # "idle"
  BY <1>0, <1>1, PlaceIsNoOrder DEF UserIsOK, Fetching, Places
<1>3. Go(User, x.then)
  BY <1>2 DEF insertFills
<1>4. /\ flow'[User] = [pc |-> x.then, arg |-> x.arg, got |-> x.got, then |-> x.then]
      /\ HandlersStay
  BY <1>3, UserGone
<1>5. flow'[User].pc = x.then /\ connected
  BY <1>1, <1>4, IsConnected DEF Joining
<1>6. /\ UNCHANGED <<time, haltedAt, serverRound, deposited, debited, request, disputes, recovered,
                     placed, credited, booked, pending, proofs, connected, round, quarter,
                     roundJoined>>
      /\ ClientStays
  BY <1>1 DEF chainVars, serverVars, memoryVars, ClientStays
<1>7. Same /\ Now' = Now /\ FillsOf(placed, Now - 1)' = FillsOf(placed, Now - 1)
  BY <1>6, TablesSame, SameFacts
<1>8. Behind' <=> Behind
  BY <1>4, <1>6, <1>7, PendingSame
<1>9. \A pc \in Places : x.then # pc
  BY <1>2, PlaceIsNoOrder
<1>10. ChainOK' /\ NothingBefore' /\ AmountsAgree'
  <2>1. ~At(User, "credit")' /\ ~At(User, "withdraw")' /\ ~At(User, "credit") /\ ~At(User, "withdraw")
    BY <1>1, <1>5, <1>9 DEF At, Places
  <2> QED
    BY <1>0, <1>6, <2>1, ChainKept, NothingKept, AmountsKept DEF ChainOK
<1>11. OrdersAgree'
  <2>1. ASSUME NEW o \in Orders
        PROVE  /\ known'[o].status \in {"none", "open", "filled", "canceled"}
               /\ known'[o].status = "none" <=> known[o].status = "none"
               /\ known'[o].status = "open" => known[o].status = "open"
               /\ known[o].status = "canceled" => known'[o].status = "canceled"
    <3>1. known[o].status \in {"none", "open", "filled", "canceled"}
      BY <1>0 DEF OrdersAgree
    <3>2. CASE known'[o] = known[o]
      BY <3>1, <3>2
    <3>3. CASE known'[o] # known[o]
      <4> DEFINE k == known[o]
      <4>1. known'[o] = [k EXCEPT !.status = "filled"] /\ k.status = "open"
        BY <1>1, <3>3 DEF onReceiveFills
      <4>2. k = [status |-> k.status, round |-> k.round]
        BY TablesOf
      <4> HIDE DEF k
      <4>3. [k EXCEPT !.status = "filled"].status = "filled"
        BY <4>2
      <4>4. known'[o].status = "filled" /\ k.status = "open"
        BY <4>1, <4>3
      <4> QED
        BY <4>4 DEF k
    <3> QED
      BY <3>2, <3>3
  <2>2. ~At(User, "insertOrder")
    BY <1>1 DEF At
  <2>3. \A o \in Orders : Canceling(x, o) => Canceling(flow[User], o)'
    <3>1. "insertFills" \notin Orders
      BY PlaceIsNoOrder DEF Places
    <3> QED
      BY <1>1, <1>5, <3>1 DEF Canceling
  <2> QED
    BY <1>0, <1>6, <1>7, <1>8, <2>1, <2>2, <2>3 DEF OrdersAgree
<1>12. UserIsOK(flow[User])' /\ flow'[User].pc \notin Joining \cup {"syncFills", "syncProofs"}
  <2>1. flow'[User].pc \in Orders /\ \A pc \in Places : flow'[User].pc # pc
    BY <1>2, <1>5, <1>9
  <2> QED
    BY <2>1 DEF UserIsOK, Places, Joining, Fetching
<1>13. DOMAIN account' = DOMAIN account /\ account'.roundJoined = account.roundJoined
  <2>1. DOMAIN account = {"roundJoined", "lastFillRound", "lastAuditRound"}
    BY <1>0, <1>5 DEF JoinedOK, NoAccount
  <2>2. account' = account \/ account' = [account EXCEPT !["lastFillRound"] = round]
    BY <1>1 DEF updateLastAuditOrFillRound
  <2> QED
    BY <2>1, <2>2
<1> QED
  BY <1>5, <1>6, <1>7, <1>4, <1>10, <1>11, <1>12, <1>13, UserDone

LEMMA CancelApprovalCalm ==
    ASSUME LedgerInv, LedgerInv', Calm, NEW o \in Orders, cancelApproval(o) PROVE Calm'
<1>0. /\ ChainOK /\ OrdersAgree /\ AmountsAgree /\ NothingBefore /\ JoinedOK /\ DisputesOK
  BY DEF Calm
<1>1. /\ flow[User].pc = o /\ End(User)
      /\ UNCHANGED <<chainVars, serverVars, account, credited, booked, pending, proofs, memoryVars>>
  BY DEF cancelApproval, At
<1>2. \A pc \in Places : o # pc
  BY PlaceIsNoOrder
<1>3. connected
  BY <1>1, <1>2, IsConnected DEF Places, Joining
<1>4. flow'[User] = Idle /\ HandlersStay
  BY <1>1, UserMoves DEF End
<1>5. flow'[User].pc = "idle" /\ UserIsOK(flow[User])'
  BY <1>4, IdleIsOK DEF Idle
<1>6. /\ UNCHANGED <<time, haltedAt, serverRound, deposited, debited, request, disputes, recovered,
                     placed, credited, booked, pending, proofs, account, connected, round, quarter,
                     roundJoined>>
      /\ ClientStays
  BY <1>1 DEF chainVars, serverVars, memoryVars, ClientStays
<1>7. Same /\ Now' = Now /\ FillsOf(placed, Now - 1)' = FillsOf(placed, Now - 1)
  BY <1>6, TablesSame, SameFacts
<1>8. Behind' <=> Behind
  BY <1>4, <1>6, <1>7, PendingSame
<1>9. ChainOK' /\ NothingBefore' /\ AmountsAgree'
  <2>1. ~At(User, "credit")' /\ ~At(User, "withdraw")' /\ ~At(User, "credit") /\ ~At(User, "withdraw")
    BY <1>1, <1>2, <1>5 DEF At, Places
  <2> QED
    BY <1>0, <1>6, <2>1, ChainKept, NothingKept, AmountsKept DEF ChainOK
<1>10. placed[o].status = "canceled" /\ ~At(User, "insertOrder")
  BY <1>1, <1>2, UserRow DEF FlowOK, At, Places
<1>11. known'[o].status = "canceled" /\ \A p \in Orders \ {o} : known'[p] = known[p]
  <2>1. OrderOK(known[o], placed[o])
    BY TablesOf
  <2>2. known[o].status \in {"open", "canceled"}
    BY <1>0, <1>10, <2>1 DEF OrdersAgree, OrderOK
  <2>3. CASE known[o].status = "open"
    <3>1. SetsStatus(known', known, o, "canceled") /\ IsOrderTable(known)
      BY <2>3, TablesOf DEF cancelApproval, SetsStatus
    <3>2. /\ known'[o] = [status |-> "canceled", round |-> known[o].round]
          /\ \A p \in Orders \ {o} : known'[p] = known[p]
      BY <3>1, RowUpdated
    <3> QED
      BY <3>2
  <2>4. CASE known[o].status = "canceled"
    BY <2>4 DEF cancelApproval
  <2> QED
    BY <2>2, <2>3, <2>4
<1>12. OrdersAgree'
  <2>1. \A p \in Orders \ {o} : ~Canceling(flow[User], p)
    BY <1>1, <1>2 DEF Canceling, Fetching, Places
  <2> QED
    BY <1>0, <1>6, <1>7, <1>8, <1>10, <1>11, <2>1 DEF OrdersAgree
<1>13. "idle" \notin Joining
  BY DEF Joining
<1> QED
  BY <1>3, <1>4, <1>5, <1>6, <1>7, <1>9, <1>12, <1>13, UserDone

\* The order is still allowed for when the server has taken it.
LEMMA InsertOrderCalm ==
    ASSUME LedgerInv, LedgerInv', Calm, insertOrder PROVE Calm'
<1>0. /\ ChainOK /\ OrdersAgree /\ AmountsAgree /\ NothingBefore /\ JoinedOK /\ DisputesOK
      /\ UserIsOK(flow[User])
  BY DEF Calm
<1>1. /\ flow[User].pc = "insertOrder" /\ End(User)
      /\ UNCHANGED <<chainVars, serverVars, account, credited, booked, pending, proofs, memoryVars>>
  BY DEF insertOrder, At
<1>2. /\ flow[User].arg = Now
      /\ \E o \in Orders : flow[User].got = {o} /\ known[o].status = "none"
  BY <1>0, <1>1 DEF UserIsOK, OneNew
<1>3. connected
  BY <1>1, IsConnected DEF Joining
<1>4. flow'[User] = Idle /\ HandlersStay
  BY <1>1, UserMoves DEF End
<1>5. flow'[User].pc = "idle" /\ UserIsOK(flow[User])'
  BY <1>4, IdleIsOK DEF Idle
<1>6. /\ UNCHANGED <<time, haltedAt, serverRound, deposited, debited, request, disputes, recovered,
                     placed, credited, booked, pending, proofs, account, connected, round, quarter,
                     roundJoined>>
      /\ ClientStays
  BY <1>1 DEF chainVars, serverVars, memoryVars, ClientStays
<1>7. Same /\ Now' = Now /\ FillsOf(placed, Now - 1)' = FillsOf(placed, Now - 1)
  BY <1>6, TablesSame, SameFacts
<1>8. Behind' <=> Behind
  BY <1>4, <1>6, <1>7, PendingSame
<1>9. ChainOK' /\ NothingBefore' /\ AmountsAgree'
  <2>1. ~At(User, "credit")' /\ ~At(User, "withdraw")' /\ ~At(User, "credit") /\ ~At(User, "withdraw")
    BY <1>1, <1>5 DEF At
  <2> QED
    BY <1>0, <1>6, <2>1, ChainKept, NothingKept, AmountsKept DEF ChainOK
<1>10. PICK o \in Orders : flow[User].got = {o} /\ known[o].status = "none"
  BY <1>2
<1>11. \A p \in Orders : ~Canceling(flow[User], p)
  BY <1>1, NotCanceling DEF UserPlaces, Fetching
<1>12. validateOrder(Now)
  <2>1. There < Here
    BY <1>1, <1>11, HereIsEnough DEF At
  <2>2. There >= 0 /\ There \in Int /\ Here \in Int
    BY <1>0, FreeHere DEF ChainOK, There
  <2>3. Here > 0
    BY <2>1, <2>2
  <2> QED
    BY <2>3 DEF validateOrder, Here
<1>13. /\ known'[o] = [status |-> "open", round |-> Now]
       /\ \A p \in Orders \ {o} : known'[p] = known[p]
  BY <1>2, <1>10, <1>12 DEF insertOrder
<1>14. placed[o].status # "canceled" /\ placed[o].round = Now
  <2>1. placed[o].round = flow[User].arg
    BY <1>1, <1>10, UserRow DEF UserOK
  <2> QED
    BY <1>0, <1>2, <1>10, <1>11, <2>1 DEF OrdersAgree
<1>15. OrdersAgree'
  <2>1. \A p \in Orders \ {o} : ~(placed[p].status # "none" /\ known[p].status = "none")
    BY <1>0, <1>10 DEF OrdersAgree
  <2> QED
    BY <1>0, <1>6, <1>7, <1>8, <1>11, <1>13, <1>14, <2>1 DEF OrdersAgree
<1>16. "idle" \notin Joining
  BY DEF Joining
<1> QED
  BY <1>3, <1>4, <1>5, <1>6, <1>7, <1>9, <1>15, <1>16, UserDone

LEMMA OneMore ==
    ASSUME NEW table \in [Rounds -> Nat], NEW r \in Rounds, NEW next,
           next = [table EXCEPT ![r] = @ + 1]
    PROVE  /\ next \in [Rounds -> Nat] /\ next[r] = table[r] + 1
           /\ \A q \in Rounds : q # r => next[q] = table[q]
OBVIOUS

LEMMA DepositsTokenCalm ==
    ASSUME LedgerInv, LedgerInv', Calm, depositsToken PROVE Calm'
<1> DEFINE new == [pc |-> "credit", arg |-> Now, got |-> {}, then |-> "idle"]
<1>0. /\ ChainOK /\ OrdersAgree /\ AmountsAgree /\ NothingBefore /\ JoinedOK /\ DisputesOK
      /\ JoinOK /\ Now \in Rounds /\ getCurrentRound = Now /\ Now \in Nat
  BY ClockFacts DEF Calm
<1>1. /\ flow[User].pc = "idle" /\ account # NoAccount
      /\ deposited' = [deposited EXCEPT ![Now] = @ + 1]
      /\ Become(User, [Idle EXCEPT !.pc = "credit", !.arg = Now])
      /\ UNCHANGED <<time, haltedAt, request, debited, disputes, recovered, serverVars,
                     databaseVars, memoryVars>>
  BY <1>0 DEF depositsToken, hasAuthorization, At
<1>2. /\ UNCHANGED <<time, haltedAt, serverRound, debited, request, disputes, recovered,
                     placed, known, credited, booked, pending, proofs, account, connected, round,
                     quarter, roundJoined>>
      /\ ClientStays
  BY <1>1 DEF serverVars, databaseVars, memoryVars, ClientStays
<1>3. connected
  BY <1>0, <1>1 DEF JoinOK
<1>4. flow'[User] = new /\ HandlersStay
  <2>1. Become(User, new)
    BY <1>1, IdleCall
  <2> QED
    BY <2>1, UserMoves
<1>5. flow'[User].pc = "credit" /\ flow'[User].arg = Now
  BY <1>4
<1> HIDE DEF new
<1>6. /\ deposited'[Now] = deposited[Now] + 1
      /\ \A q \in Rounds : q # Now => deposited'[q] = deposited[q]
  BY <1>0, <1>1, OneMore, Amounts
<1>7. OfNow
  BY <1>0, <1>2, <1>6 DEF OfNow, ChainOK
<1>8. Same /\ Now' = Now /\ FillsOf(placed, Now - 1)' = FillsOf(placed, Now - 1)
  BY <1>0, <1>7, OfNowIsSame
<1>9. ChainOK'
  <2>1. There' >= 0
    <3>1. There >= 0
      BY <1>0 DEF ChainOK, There
    <3>2. /\ There' = serverOpening(Now) + deposited'[Now] - debited'[Now]
                         - Cardinality(OrdersIn(placed', Now, {"open", "filled"}))
          /\ There = serverOpening(Now) + deposited[Now] - debited[Now]
                        - Cardinality(OrdersIn(placed, Now, {"open", "filled"}))
          /\ serverOpening(Now) \in Int /\ deposited[Now] \in Nat /\ debited[Now] \in Nat
          /\ Cardinality(OrdersIn(placed, Now, {"open", "filled"})) \in Nat
      BY <1>0, <1>7, ThereNext
    <3> QED
      BY <1>2, <1>6, <3>1, <3>2
  <2>2. \A p \in Orders :
               /\ placed'[p].status \in {"none", "open", "filled", "canceled"}
               /\ placed'[p].status # "none" => placed'[p].round \in 0 .. Now
    BY <1>0, <1>2 DEF ChainOK
  <2> QED
    BY <1>0, <1>2, <1>7, <2>1, <2>2, ChainOfNow
<1>10. Behind' <=> Behind
  BY <1>2, <1>4, <1>8, PendingSame
<1>11. OrdersAgree' /\ NothingBefore'
  <2>1. \A o \in Orders : ~Canceling(flow[User], o)
    BY <1>1, NotCanceling DEF UserPlaces, Fetching
  <2> QED
    BY <1>0, <1>1, <1>2, <1>3, <1>7, <1>10, <2>1, OrdersKept, NothingOfNow
<1>12. AmountsAgree'
  <2>1. ~At(User, "credit") /\ ~At(User, "withdraw") /\ At(User, "credit")' /\ ~At(User, "withdraw")'
    BY <1>1, <1>5 DEF At
  <2>2. \A r \in Rounds : deposited[r] = credited[r] /\ debited[r] = booked[r] /\ credited[r] \in Nat
                          /\ booked[r] \in Nat
    BY <1>0, <2>1, Amounts DEF AmountsAgree
  <2> QED
    BY <1>2, <1>6, <1>8, <2>1, <2>2 DEF AmountsAgree
<1>13. UserIsOK(flow[User])' /\ "credit" \notin Joining
  BY <1>5, <1>8 DEF UserIsOK, UserPlaces, Fetching, Joining
<1> QED
  BY <1>2, <1>3, <1>4, <1>5, <1>8, <1>9, <1>11, <1>12, <1>13, UserDone

LEMMA CreditDepositCalm ==
    ASSUME LedgerInv, LedgerInv', Calm, creditDeposit PROVE Calm'
<1>0. /\ ChainOK /\ OrdersAgree /\ AmountsAgree /\ NothingBefore /\ JoinedOK /\ DisputesOK
      /\ UserIsOK(flow[User]) /\ Now \in Rounds /\ Now \in Nat
  BY ClockFacts DEF Calm
<1>1. /\ flow[User].pc = "credit" /\ End(User)
      /\ credited' = [credited EXCEPT ![flow[User].arg] = @ + 1]
      /\ UNCHANGED <<chainVars, serverVars, account, known, booked, pending, proofs, memoryVars>>
  BY DEF creditDeposit, At
<1>2. /\ UNCHANGED <<time, haltedAt, serverRound, deposited, debited, request, disputes, recovered,
                     placed, known, booked, pending, proofs, account, connected, round, quarter,
                     roundJoined>>
      /\ ClientStays
  BY <1>1 DEF chainVars, serverVars, memoryVars, ClientStays
<1>3. connected /\ flow[User].arg = Now
  BY <1>0, <1>1, IsConnected DEF UserIsOK, Joining
<1>4. flow'[User] = Idle /\ HandlersStay
  BY <1>1, UserMoves DEF End
<1>5. flow'[User].pc = "idle" /\ UserIsOK(flow[User])'
  BY <1>4, IdleIsOK DEF Idle
<1>6. Same /\ Now' = Now /\ FillsOf(placed, Now - 1)' = FillsOf(placed, Now - 1)
  BY <1>2, TablesSame, SameFacts
<1>7. Behind' <=> Behind
  BY <1>2, <1>4, <1>6, PendingSame
<1>8. ChainOK' /\ NothingBefore' /\ OrdersAgree'
  <2>1. \A o \in Orders : ~Canceling(flow[User], o)
    BY <1>1, NotCanceling DEF UserPlaces, Fetching
  <2>2. flow[User].pc # "insertOrder"
    BY <1>1
  <2> QED
    BY <1>0, <1>2, <1>7, <2>1, <2>2, ChainKept, NothingKept, OrdersKept DEF ChainOK
<1>9. AmountsAgree'
  <2>1. At(User, "credit") /\ ~At(User, "withdraw") /\ ~At(User, "credit")' /\ ~At(User, "withdraw")'
    BY <1>1, <1>5 DEF At
  <2>2. /\ credited'[Now] = credited[Now] + 1
        /\ \A q \in Rounds : q # Now => credited'[q] = credited[q]
    BY <1>0, <1>1, <1>3, OneMore, Amounts
  <2>3. \A r \in Rounds : credited[r] \in Nat /\ booked[r] \in Nat
    BY <1>0, Amounts
  <2>4. ASSUME NEW r \in Rounds PROVE deposited[r] = credited'[r] /\ debited[r] = booked[r]
    BY <1>0, <2>1, <2>2, <2>3 DEF AmountsAgree
  <2>5. \A r \in Rounds : credited'[r] \in Nat
    BY <2>2, <2>3, <1>0
  <2> QED
    BY <1>2, <1>6, <2>1, <2>3, <2>4, <2>5 DEF AmountsAgree
<1>10. "idle" \notin Joining
  BY DEF Joining
<1> QED
  BY <1>2, <1>3, <1>4, <1>5, <1>6, <1>8, <1>9, <1>10, UserDone

LEMMA BookWithdrawalCalm ==
    ASSUME LedgerInv, LedgerInv', Calm, bookWithdrawal PROVE Calm'
<1>0. /\ ChainOK /\ OrdersAgree /\ AmountsAgree /\ NothingBefore /\ JoinedOK /\ DisputesOK
      /\ UserIsOK(flow[User]) /\ Now \in Rounds /\ Now \in Nat
  BY ClockFacts DEF Calm
<1>1. /\ flow[User].pc = "withdraw" /\ End(User)
      /\ UNCHANGED <<chainVars, serverVars, account, known, credited, proofs, memoryVars>>
  BY DEF bookWithdrawal, At
<1>2. /\ UNCHANGED <<time, haltedAt, serverRound, deposited, debited, request, disputes, recovered,
                     placed, known, credited, proofs, account, connected, round, quarter,
                     roundJoined>>
      /\ ClientStays
  BY <1>1 DEF chainVars, serverVars, memoryVars, ClientStays
<1>3. connected /\ flow[User].arg = Now /\ Now > 0 /\ ~pending
  BY <1>0, <1>1, IsConnected DEF UserIsOK, Joining
<1>4. flow'[User] = Idle /\ HandlersStay
  BY <1>1, UserMoves DEF End
<1>5. flow'[User].pc = "idle" /\ UserIsOK(flow[User])'
  BY <1>4, IdleIsOK DEF Idle
<1>6. Same /\ Now' = Now /\ FillsOf(placed, Now - 1)' = FillsOf(placed, Now - 1)
  BY <1>2, TablesSame, SameFacts
<1>7. Behind' <=> Behind
  BY <1>2, <1>4, <1>6, PendingSame
<1>8. \A o \in Orders : ~Canceling(flow[User], o)
  BY <1>1, NotCanceling DEF UserPlaces, Fetching
<1>9. validateWithdrawal(Now)
  <2>1. There < Here
    BY <1>1, <1>8, HereIsEnough DEF At
  <2>2. There >= 0 /\ There \in Int /\ Here \in Int
    BY <1>0, FreeHere DEF ChainOK, There
  <2>3. Here > 0
    BY <2>1, <2>2
  <2> QED
    BY <1>3, <2>3 DEF validateWithdrawal, Here
<1>10. booked' = [booked EXCEPT ![Now] = @ + 1]
  BY <1>3, <1>9 DEF bookWithdrawal
<1>11. /\ booked' \in [Rounds -> Nat] /\ booked'[Now] = booked[Now] + 1
       /\ \A q \in Rounds : q # Now => booked'[q] = booked[q]
  BY <1>0, <1>10, OneMore, Amounts
<1>12. ChainOK' /\ NothingBefore' /\ OrdersAgree'
  <2>1. flow[User].pc # "insertOrder"
    BY <1>1
  <2> QED
    BY <1>0, <1>2, <1>7, <1>8, <1>11, <2>1, ChainKept, NothingKept, OrdersKept
<1>13. AmountsAgree'
  <2>1. ~At(User, "credit") /\ At(User, "withdraw") /\ ~At(User, "credit")' /\ ~At(User, "withdraw")'
    BY <1>1, <1>5 DEF At
  <2>2. \A r \in Rounds : credited[r] \in Nat /\ booked[r] \in Nat
    BY <1>0, Amounts
  <2>3. ASSUME NEW r \in Rounds PROVE deposited[r] = credited[r] /\ debited[r] = booked'[r]
    BY <1>0, <1>11, <2>1, <2>2 DEF AmountsAgree
  <2>4. \A r \in Rounds : booked'[r] \in Nat
    BY <1>11
  <2> QED
    BY <1>2, <1>6, <2>1, <2>2, <2>3, <2>4 DEF AmountsAgree
<1>14. "idle" \notin Joining
  BY DEF Joining
<1> QED
  BY <1>2, <1>3, <1>4, <1>5, <1>6, <1>12, <1>13, <1>14, UserDone

LEMMA InitiateWithdrawalCalm ==
    ASSUME LedgerInv, LedgerInv', Calm, initiateWithdrawal PROVE Calm'
<1>0. /\ ChainOK /\ OrdersAgree /\ AmountsAgree /\ NothingBefore /\ JoinedOK /\ DisputesOK
      /\ ProofsOK /\ UserIsOK(flow[User]) /\ Now \in Rounds /\ Now \in Nat /\ getCurrentRound = Now
  BY ClockFacts DEF Calm
<1>1. /\ flow[User].pc = "initiate"
      /\ UNCHANGED <<time, haltedAt, deposited, disputes, recovered, serverVars, databaseVars,
                     memoryVars>>
  BY DEF initiateWithdrawal, At
<1>2. /\ UNCHANGED <<time, haltedAt, serverRound, deposited, disputes, recovered,
                     placed, known, credited, booked, pending, proofs, account, connected, round,
                     quarter, roundJoined>>
      /\ ClientStays
  BY <1>1 DEF serverVars, databaseVars, memoryVars, ClientStays
<1>3. connected /\ flow[User].arg = Now /\ Now > 0 /\ ~pending /\ There > 0
  BY <1>0, <1>1, IsConnected DEF UserIsOK, There, Joining
<1>4. \A o \in Orders : ~Canceling(flow[User], o)
  BY <1>1, NotCanceling DEF UserPlaces, Fetching
<1>5. \/ /\ End(User) /\ UNCHANGED <<request, debited>>
      \/ /\ Go(User, "withdraw") /\ proofs[Now - 1] >= 1
         /\ request' = Now /\ debited' = [debited EXCEPT ![Now] = @ + 1]
  <2>1. \/ End(User)
        \/ Go(User, "withdraw") /\ proofs[Now - 1] >= 1
    BY <1>3 DEF initiateWithdrawal
  <2>2. CASE End(User)
    <3>1. flow'[User] = Idle
      BY <2>2, UserMoves DEF End
    <3>2. flow'[User].pc # "withdraw"
      BY <3>1 DEF Idle
    <3> QED
      BY <2>2, <3>2 DEF initiateWithdrawal
  <2>3. CASE Go(User, "withdraw") /\ proofs[Now - 1] >= 1
    <3>1. flow'[User] = [pc |-> "withdraw", arg |-> flow[User].arg, got |-> flow[User].got,
                         then |-> flow[User].then]
      BY <2>3, UserGone
    <3>2. flow'[User].pc = "withdraw"
      BY <3>1
    <3>3. Free(deposited, debited, placed, getCurrentRound) > 0
      BY <1>0, <1>3 DEF There
    <3> QED
      BY <1>0, <2>3, <3>2, <3>3 DEF initiateWithdrawal
  <2> QED
    BY <2>1, <2>2, <2>3
<1>6. CASE End(User) /\ UNCHANGED <<request, debited>>
  <2>1. UNCHANGED <<chainVars, serverVars, known, credited, booked, pending, proofs, memoryVars>>
    BY <1>1, <1>2, <1>6 DEF chainVars
  <2> QED
    BY <1>1, <1>2, <1>3, <1>4, <1>6, <2>1, EndedUser
<1>7. CASE /\ Go(User, "withdraw") /\ proofs[Now - 1] >= 1
           /\ request' = Now /\ debited' = [debited EXCEPT ![Now] = @ + 1]
  <2>1. /\ flow'[User] = [pc |-> "withdraw", arg |-> flow[User].arg, got |-> flow[User].got,
                          then |-> flow[User].then]
        /\ HandlersStay
    BY <1>7, UserGone
  <2>2. flow'[User].pc = "withdraw" /\ flow'[User].arg = Now
    BY <1>3, <2>1
  <2>3. /\ debited' \in [Rounds -> Nat] /\ debited'[Now] = debited[Now] + 1
        /\ \A q \in Rounds : q # Now => debited'[q] = debited[q]
    BY <1>0, <1>7, OneMore, Amounts
  <2>4. OfNow
    BY <1>2, <2>3 DEF OfNow
  <2>5. Same /\ Now' = Now /\ FillsOf(placed, Now - 1)' = FillsOf(placed, Now - 1)
    BY <1>0, <2>4, OfNowIsSame
  <2>6. ChainOK'
    <3>1. There' >= 0
      <4>1. /\ There' = serverOpening(Now) + deposited'[Now] - debited'[Now]
                           - Cardinality(OrdersIn(placed', Now, {"open", "filled"}))
            /\ There = serverOpening(Now) + deposited[Now] - debited[Now]
                          - Cardinality(OrdersIn(placed, Now, {"open", "filled"}))
            /\ serverOpening(Now) \in Int /\ deposited[Now] \in Nat /\ debited[Now] \in Nat
            /\ Cardinality(OrdersIn(placed, Now, {"open", "filled"})) \in Nat
        BY <1>0, <2>4, ThereNext
      <4> QED
        BY <1>2, <1>3, <2>3, <4>1
    <3>2. \A p \in Orders :
               /\ placed'[p].status \in {"none", "open", "filled", "canceled"}
               /\ placed'[p].status # "none" => placed'[p].round \in 0 .. Now
      BY <1>0, <1>2 DEF ChainOK
    <3> QED
      BY <1>0, <1>2, <2>4, <3>1, <3>2, ChainOfNow
  <2>7. Behind' <=> Behind
    BY <1>2, <2>1, <2>5, PendingSame
  <2>8. OrdersAgree' /\ NothingBefore'
    <3>1. flow[User].pc # "insertOrder"
      BY <1>1
    <3> QED
      BY <1>0, <1>2, <1>3, <1>4, <2>4, <2>7, <3>1, OrdersKept, NothingOfNow
  <2>9. AmountsAgree'
    <3>1. ~At(User, "credit") /\ ~At(User, "withdraw") /\ ~At(User, "credit")' /\ At(User, "withdraw")'
      BY <1>1, <2>2 DEF At
    <3>2. \A r \in Rounds : deposited[r] = credited[r] /\ debited[r] = booked[r] /\ credited[r] \in Nat
                            /\ booked[r] \in Nat
      BY <1>0, <3>1, Amounts DEF AmountsAgree
    <3> QED
      BY <1>2, <2>3, <2>5, <3>1, <3>2 DEF AmountsAgree
  <2>10. UserIsOK(flow[User])' /\ "withdraw" \notin Joining
    BY <1>2, <1>3, <2>2, <2>5 DEF UserIsOK, UserPlaces, Fetching, Joining
  <2>11. ClaimsOK'
    <3>1. Now - 1 \in Rounds /\ proofs[Now - 1] # Never
      <4>1. Now - 1 \in Rounds
        BY <1>0, <1>3, ClientAssumption DEF Rounds
      <4>2. ~(Never >= 1)
        BY DEF Never
      <4> QED
        BY <1>7, <4>1, <4>2
    <3>2. roundJoined < Now - 1 /\ roundJoined \in 0 .. Now
      BY <1>0, <1>3, <3>1 DEF ProofsOK, JoinedOK
    <3>3. request' \in roundJoined' + 2 .. Now' /\ ~(request' <= Now' - 2)
      BY <1>0, <1>2, <1>7, <2>5, <3>2
    <3> QED
      BY <3>3 DEF ClaimsOK
  <2> QED
    BY <1>2, <1>3, <2>1, <2>2, <2>5, <2>6, <2>8, <2>9, <2>10, <2>11, UserDone
<1> QED
  BY <1>5, <1>6, <1>7

\* The server takes the order in the round that it is.
LEMMA SendOrderCalm ==
    ASSUME LedgerInv, LedgerInv', Calm, Undisturbed, sendOrder PROVE Calm'
<1> DEFINE x == flow[User]
<1>0. /\ ChainOK /\ OrdersAgree /\ AmountsAgree /\ NothingBefore /\ JoinedOK /\ DisputesOK
      /\ UserIsOK(x) /\ Now \in Rounds /\ Now \in Nat /\ serverRound = Now
  BY ClockFacts DEF Calm, ChainOK
<1>1. /\ x.pc = "sendOrder"
      /\ UNCHANGED <<chainVars, serverRound, admitted, databaseVars, memoryVars>>
  BY NoneGoesWrong DEF sendOrder, Refuse, At
<1>2. /\ UNCHANGED <<time, haltedAt, serverRound, deposited, debited, request, disputes, recovered,
                     known, credited, booked, pending, proofs, account, connected, round, quarter,
                     roundJoined>>
      /\ ClientStays
  BY <1>1 DEF chainVars, databaseVars, memoryVars, ClientStays
<1>3. connected
  BY <1>1, IsConnected DEF Joining
<1>4. \A o \in Orders : ~Canceling(x, o)
  BY <1>1, NotCanceling DEF UserPlaces, Fetching
<1>5. PICK o \in Orders : x.got = {o} /\ known[o].status = "none"
  BY <1>0, <1>1 DEF UserIsOK, OneNew
<1>6. placed[o].status = "none"
  BY <1>1, <1>5, UserRow DEF UserOK
<1>7. \/ End(User) /\ UNCHANGED placed
      \/ /\ Go(User, "insertOrder") /\ x.arg = Now /\ There > 0
         /\ placed' = [p \in Orders |-> IF p \in x.got THEN [status |-> "open", round |-> x.arg]
                                        ELSE placed[p]]
  BY <1>0, NoneGoesWrong DEF sendOrder, Refuse, Answered, There
<1>8. CASE End(User) /\ UNCHANGED placed
  <2>1. UNCHANGED <<chainVars, serverVars, known, credited, booked, pending, proofs, memoryVars>>
    BY <1>1, <1>2, <1>8 DEF serverVars
  <2> QED
    BY <1>1, <1>2, <1>3, <1>4, <1>8, <2>1, EndedUser
<1>9. CASE /\ Go(User, "insertOrder") /\ x.arg = Now /\ There > 0
           /\ placed' = [p \in Orders |-> IF p \in x.got THEN [status |-> "open", round |-> x.arg]
                                          ELSE placed[p]]
  <2>1. flow'[User] = [pc |-> "insertOrder", arg |-> x.arg, got |-> x.got, then |-> x.then]
        /\ HandlersStay
    BY <1>9, UserGone
  <2>2. flow'[User].pc = "insertOrder" /\ flow'[User].arg = Now /\ flow'[User].got = {o}
    BY <1>5, <1>9, <2>1
  <2>3. /\ placed'[o] = [status |-> "open", round |-> Now]
        /\ \A p \in Orders \ {o} : placed'[p] = placed[p]
    BY <1>5, <1>9
  <2>4. OfNow
    BY <1>0, <1>2, <1>6, <2>3, RowOfNow DEF ChainOK
  <2>5. Same /\ Now' = Now /\ FillsOf(placed, Now - 1)' = FillsOf(placed, Now - 1)
    BY <1>0, <2>4, OfNowIsSame
  <2>6. There' >= 0
    <3> DEFINE S == OrdersIn(placed, Now, {"open", "filled"})
               T == OrdersIn(placed', Now, {"open", "filled"})
    <3>1. T = S \cup {o} /\ o \notin S
      BY <1>6, <2>3 DEF OrdersIn
    <3>2. /\ There' = serverOpening(Now) + deposited'[Now] - debited'[Now] - Cardinality(T)
          /\ There = serverOpening(Now) + deposited[Now] - debited[Now] - Cardinality(S)
          /\ serverOpening(Now) \in Int /\ deposited[Now] \in Nat /\ debited[Now] \in Nat
          /\ IsFiniteSet(S) /\ Cardinality(S) \in Nat
      BY <1>0, <2>4, ThereNext
    <3> HIDE DEF S, T
    <3>3. Cardinality(T) = Cardinality(S) + 1
      BY <3>1, <3>2, FS_AddElement
    <3> QED
      BY <1>2, <1>9, <3>2, <3>3
  <2>7. ChainOK'
    <3>1. \A p \in Orders :
               /\ placed'[p].status \in {"none", "open", "filled", "canceled"}
               /\ placed'[p].status # "none" => placed'[p].round \in 0 .. Now
      BY <1>0, <2>3 DEF ChainOK
    <3> QED
      BY <1>0, <1>2, <2>4, <2>6, <3>1, ChainOfNow
  <2>8. Behind' <=> Behind
    BY <1>2, <2>1, <2>5, PendingSame
  <2>9. NothingBefore'
    BY <1>0, <1>2, <1>3, <2>4, NothingOfNow
  <2>10. AmountsAgree'
    <3>1. ~At(User, "credit") /\ ~At(User, "withdraw") /\ ~At(User, "credit")' /\ ~At(User, "withdraw")'
      BY <1>1, <2>2 DEF At
    <3> QED
      BY <1>0, <1>2, <3>1, AmountsKept
  <2>11. OrdersAgree'
    <3>1. At(User, "insertOrder")' /\ ~At(User, "insertOrder")
      BY <1>1, <2>2 DEF At
    <3> QED
      BY <1>0, <1>2, <1>4, <1>5, <2>2, <2>3, <2>5, <2>8, <3>1 DEF OrdersAgree
  <2>12. UserIsOK(flow[User])' /\ "insertOrder" \notin Joining
    BY <1>2, <1>5, <2>2, <2>5 DEF UserIsOK, OneNew, UserPlaces, Fetching, Joining
  <2> QED
    BY <1>2, <1>3, <2>1, <2>2, <2>5, <2>7, <2>9, <2>10, <2>11, <2>12, UserDone
<1> QED
  BY <1>7, <1>8, <1>9

LEMMA UserIsPaidCalm ==
    ASSUME LedgerInv, LedgerInv', Calm, confirmWithdrawal(User) \/ confirmWithdrawalAsync(User)
    PROVE  Calm'
<1>0. /\ ChainOK /\ OrdersAgree /\ AmountsAgree /\ NothingBefore /\ JoinedOK /\ DisputesOK
  BY DEF Calm
<1>1. /\ flow[User].pc \in Claiming
      /\ UNCHANGED <<time, haltedAt, deposited, debited, disputes, recovered, serverVars,
                     account, known, credited, booked, proofs, memoryVars>>
  BY DEF confirmWithdrawal, confirmWithdrawalAsync, At, Claiming, chainVars, databaseVars
<1>2. /\ UNCHANGED <<time, haltedAt, serverRound, deposited, debited, disputes, recovered,
                     placed, known, credited, booked, proofs, account, connected, round, quarter,
                     roundJoined>>
      /\ ClientStays
  BY <1>1 DEF serverVars, memoryVars, ClientStays
<1>3. connected
  BY <1>1, IsConnected DEF Joining, Claiming
<1>4. /\ HandlersStay /\ flow'[User].pc \in {"idle", "confirmed"}
  <2>1. CASE End(User)
    <3>1. flow'[User] = Idle /\ HandlersStay
      BY <2>1, UserMoves DEF End
    <3> QED
      BY <3>1 DEF Idle
  <2>2. CASE Go(User, "confirmed")
    <3>1. /\ flow'[User] = [pc |-> "confirmed", arg |-> flow[User].arg, got |-> flow[User].got,
                            then |-> flow[User].then]
          /\ HandlersStay
      BY <2>2, UserGone
    <3> QED
      BY <3>1
  <2> QED
    BY <2>1, <2>2 DEF confirmWithdrawal, confirmWithdrawalAsync
<1>5. UserIsOK(flow[User])' /\ flow'[User].pc \notin Joining
  BY <1>4, PlainUserIsOK DEF Joining
<1>6. Same /\ Now' = Now /\ FillsOf(placed, Now - 1)' = FillsOf(placed, Now - 1)
  BY <1>2, TablesSame, SameFacts
<1>7. Behind' <=> Behind
  BY <1>2, <1>4, <1>6, PendingSame
<1>8. ChainOK' /\ NothingBefore' /\ OrdersAgree' /\ AmountsAgree'
  <2>1. \A o \in Orders : ~Canceling(flow[User], o)
    BY <1>1, NotCanceling DEF UserPlaces, Fetching, Claiming
  <2>2. flow[User].pc # "insertOrder"
    BY <1>1 DEF Claiming
  <2>3. ~At(User, "credit") /\ ~At(User, "withdraw") /\ ~At(User, "credit")' /\ ~At(User, "withdraw")'
    BY <1>1, <1>4 DEF At, Claiming
  <2> QED
    BY <1>0, <1>2, <1>7, <2>1, <2>2, <2>3, ChainKept, NothingKept, OrdersKept, AmountsKept DEF ChainOK
<1>9. request' = request \/ ClaimsOK'
  <2>1. request' = request \/ request' = Never
    BY DEF confirmWithdrawal, confirmWithdrawalAsync, chainVars
  <2> QED
    BY <2>1 DEF ClaimsOK
<1> QED
  BY <1>2, <1>3, <1>4, <1>5, <1>6, <1>8, <1>9, UserDone

(* Joining. *)

\* The steps up to the listeners.
LEMMA Joins ==
    ASSUME LedgerInv, LedgerInv', Calm, ~connected, ~connected', HandlersStay, JoinOK',
           UNCHANGED <<chainVars, serverRound, placed, known, credited, booked, pending, proofs>>,
           flow[User].pc \in {"idle"} \cup Joining, flow'[User].pc \in {"idle"} \cup Joining
    PROVE  Calm'
<1>0. /\ ChainOK /\ OrdersAgree /\ AmountsAgree /\ NothingBefore /\ JoinOK /\ DisputesOK /\ ProofsOK
      /\ (\A h \in Handlers : HandlerOK(flow[h])) /\ RecoversAll
      /\ (recovered = "no" \/ haltedAt # Never)
  BY DEF Calm
<1>1. /\ UNCHANGED <<time, haltedAt, serverRound, deposited, debited, disputes, recovered, request,
                     placed, known, credited, booked, pending, proofs>>
  BY DEF chainVars
<1>2. Same /\ Now' = Now /\ FillsOf(placed, Now - 1)' = FillsOf(placed, Now - 1)
  BY <1>1, TablesSame, SameFacts
<1>3. \A h \in Handlers : flow[h].pc = "idle" /\ flow'[h].pc = "idle"
  BY <1>0 DEF HandlersStay, JoinOK, At
<1>4. \A h \in Handlers : HandlerOK(flow[h])'
  BY <1>3 DEF HandlerOK, Asking, Fetching, Auditing, Claiming
<1>5. ChainOK' /\ DisputesOK'
  BY <1>0, <1>1, <1>2, ChainKept, DisputesSame DEF ChainOK
<1>6. RecoversAll' /\ (recovered = "no" \/ haltedAt # Never)'
  BY <1>0, <1>1, <1>2, RecoverSame
<1>7. AmountsAgree' /\ OrdersAgree'
  <2>1. ~At(User, "credit") /\ ~At(User, "withdraw") /\ ~At(User, "credit")' /\ ~At(User, "withdraw")'
    BY DEF At, Joining
  <2>2. \A o \in Orders : placed[o].status = "none"
    BY <1>0 DEF JoinOK
  <2> QED
    BY <1>0, <1>1, <2>1, <2>2, AmountsKept DEF OrdersAgree
<1>8. NothingBefore' /\ ProofsOK'
  BY <1>0, <1>1 DEF NothingBefore, ProofsOK, JoinOK, FillsOf
<1>9. UserIsOK(flow[User])'
  BY PlainUserIsOK DEF Joining
<1>10. JoinedOK' /\ ClockOK' /\ Audited' /\ ClaimsOK'
  BY <1>0, <1>1 DEF JoinOK, JoinedOK, ClockOK, Audited, ClaimsOK
<1> QED
  BY <1>4, <1>5, <1>6, <1>7, <1>8, <1>9, <1>10 DEF Calm

LEMMA JoinCalm ==
    ASSUME LedgerInv, LedgerInv', Calm, Undisturbed, join \/ syncTime \/ admit \/ validateAuthorization
    PROVE  Calm'
<1>0. JoinOK /\ JoinedOK /\ getCurrentRound = Now /\ getCurrentQuarter = Part /\ serverRound = Now
  BY ClockFacts DEF Calm, ChainOK
<1>1. /\ UNCHANGED <<chainVars, serverRound, placed, known, credited, booked, pending, proofs,
                     connected>>
      /\ flow[User].pc \in {"idle", "syncTime", "admit", "validateAuthorization"}
      /\ ~connected
  <2>1. /\ UNCHANGED <<chainVars, serverRound, placed, known, credited, booked, pending, proofs,
                       connected>>
        /\ flow[User].pc \in {"idle", "syncTime", "admit", "validateAuthorization"}
    BY NoneGoesWrong DEF join, syncTime, admit, validateAuthorization, Refuse, onlyMemory, chainVars,
       serverVars, databaseVars, memoryVars, At
  <2>2. join => ~connected
    BY DEF join
  <2>3. syncTime \/ admit \/ validateAuthorization => flow[User].pc \in Joining
    BY NoneGoesWrong DEF syncTime, admit, validateAuthorization, Refuse, At, Joining
  <2> QED
    BY <1>0, <2>1, <2>2, <2>3 DEF JoinedOK
<1>2. /\ UNCHANGED <<time, deposited, debited, disputes, request>>
      /\ Now' = Now /\ Part' = Part
  BY <1>1 DEF chainVars, Now, Part
<1>3. \A pc : Go(User, pc) => HandlersStay /\ flow'[User].pc = pc
  <2>1. ASSUME NEW pc, Go(User, pc) PROVE HandlersStay /\ flow'[User].pc = pc
    <3>1. flow'[User] = [pc |-> pc, arg |-> flow[User].arg, got |-> flow[User].got,
                         then |-> flow[User].then] /\ HandlersStay
      BY <2>1, UserGone
    <3> QED
      BY <3>1
  <2> QED
    BY <2>1
<1>4. ASSUME HandlersStay, flow'[User].pc \in {"idle"} \cup Joining,
             LET pc == flow'[User].pc
             IN /\ pc # "idle" => round' = Now
                /\ pc \in {"admit", "validateAuthorization", "connect"} =>
                      quarter' = Part /\ roundJoined' = Now
                /\ pc = "connect" => account' = [roundJoined |-> Now, lastFillRound |-> Now,
                                                 lastAuditRound |-> Now]
                /\ pc # "connect" => account' = NoAccount
                /\ pc = "validateAuthorization" => admitted' = Now
                /\ pc \in {"idle", "syncTime", "admit"} => admitted' = Never
      PROVE  Calm'
  <2>1. JoinOK'
    <3>1. \A h \in Handlers : At(h, "idle")'
      BY <1>0, <1>1, <1>4 DEF JoinOK, HandlersStay, At
    <3> QED
      BY <1>0, <1>1, <1>2, <1>4, <3>1 DEF JoinOK
  <2> QED
    BY <1>1, <1>4, <2>1, Joins DEF Joining
<1>5. CASE join
  <2>1. Go(User, "syncTime") /\ round' = Now /\ flow[User].pc = "idle"
        /\ UNCHANGED <<account, admitted>>
    BY <1>0, <1>5 DEF join, At, onlyMemory, serverVars, databaseVars
  <2>2. HandlersStay /\ flow'[User].pc = "syncTime"
    BY <1>3, <2>1
  <2> QED
    BY <1>0, <1>1, <1>4, <2>1, <2>2 DEF JoinOK, Joining
<1>6. CASE syncTime
  <2>0. flow[User].pc = "syncTime"
    BY <1>6 DEF syncTime, At
  <2>1. account = NoAccount /\ round = Now /\ admitted = Never
    BY <1>0, <1>1, <2>0 DEF JoinOK
  <2>2. Go(User, "admit") /\ round' = Now /\ quarter' = Part /\ roundJoined' = Now
        /\ UNCHANGED <<account, admitted>>
    BY <1>0, <1>6, <2>1 DEF syncTime, onlyMemory, serverVars, databaseVars
  <2>3. HandlersStay /\ flow'[User].pc = "admit"
    BY <1>3, <2>2
  <2> QED
    BY <1>4, <2>1, <2>2, <2>3 DEF Joining
<1>7. CASE admit
  <2>0. flow[User].pc = "admit"
    BY <1>7, NoneGoesWrong DEF admit, Refuse, At
  <2>1. account = NoAccount /\ round = Now /\ admitted = Never /\ quarter = Part /\ roundJoined = Now
    BY <1>0, <1>1, <2>0 DEF JoinOK
  <2>2. Go(User, "validateAuthorization") /\ admitted' = Now
        /\ UNCHANGED <<account, round, quarter, roundJoined>>
    BY <1>0, <1>7, <2>1, NoneGoesWrong DEF admit, Refuse, Answered, databaseVars, memoryVars
  <2>3. HandlersStay /\ flow'[User].pc = "validateAuthorization"
    BY <1>3, <2>2
  <2> QED
    BY <1>4, <2>1, <2>2, <2>3 DEF Joining
<1>8. CASE validateAuthorization
  <2>0. flow[User].pc = "validateAuthorization"
    BY <1>8 DEF validateAuthorization, At
  <2>1. account = NoAccount /\ round = Now /\ admitted = Now /\ quarter = Part /\ roundJoined = Now
    BY <1>0, <1>1, <2>0 DEF JoinOK
  <2>2. Go(User, "connect") /\ account' = [roundJoined |-> Now, lastFillRound |-> Now,
                                           lastAuditRound |-> Now]
        /\ UNCHANGED <<admitted, round, quarter, roundJoined>>
    BY <1>8, <2>1 DEF validateAuthorization, serverVars, memoryVars
  <2>3. HandlersStay /\ flow'[User].pc = "connect"
    BY <1>3, <2>2
  <2> QED
    BY <1>4, <2>1, <2>2, <2>3 DEF Joining
<1> QED
  BY <1>5, <1>6, <1>7, <1>8

LEMMA ConnectCalm ==
    ASSUME LedgerInv, LedgerInv', Calm, connect PROVE Calm'
<1> DEFINE new == [pc |-> "syncFills", arg |-> account.lastFillRound + 1, got |-> account,
                   then |-> "idle"]
<1>0. /\ ChainOK /\ OrdersAgree /\ AmountsAgree /\ NothingBefore /\ JoinOK /\ JoinedOK /\ DisputesOK
      /\ (\A h \in Handlers : HandlerOK(flow[h])) /\ ProofsOK /\ Now \in Nat /\ RecoversAll
      /\ (recovered = "no" \/ haltedAt # Never)
  BY ClockFacts DEF Calm
<1>1. /\ flow[User].pc = "connect" /\ connected'
      /\ Become(User, [Idle EXCEPT !.pc = "syncFills", !.arg = account.lastFillRound + 1,
                                   !.got = account])
      /\ UNCHANGED <<chainVars, serverVars, databaseVars, round, quarter, roundJoined>>
  BY DEF connect, onlyMemory, At
<1>2. UNCHANGED <<time, haltedAt, serverRound, deposited, debited, disputes, recovered, request,
                  placed, known, credited, booked, pending, proofs, account, round, quarter,
                  roundJoined>>
  BY <1>1 DEF chainVars, serverVars, databaseVars
<1>3. flow'[User] = new /\ HandlersStay
  <2>1. Become(User, new)
    BY <1>1, IdleCallWith
  <2> QED
    BY <2>1, UserMoves
<1>4. ~connected
  BY <1>0, <1>1 DEF JoinedOK, Joining
<1>5. /\ account = [roundJoined |-> Now, lastFillRound |-> Now, lastAuditRound |-> Now]
      /\ round = Now /\ quarter = Part /\ roundJoined = Now
      /\ \A h \in Handlers : At(h, "idle")
  BY <1>0, <1>1, <1>4 DEF JoinOK, Joining
<1>6. Same /\ Now' = Now /\ Part' = Part /\ FillsOf(placed, Now - 1)' = FillsOf(placed, Now - 1)
  BY <1>2, TablesSame, SameFacts
<1>7. ChainOK' /\ DisputesOK'
  BY <1>0, <1>2, <1>6, ChainKept, DisputesSame DEF ChainOK
<1>8. RecoversAll' /\ (recovered = "no" \/ haltedAt # Never)'
  BY <1>0, <1>2, <1>6, RecoverSame
<1>9. flow'[User].pc = "syncFills" /\ flow'[User].got = account
  BY <1>3
<1>10. AmountsAgree' /\ OrdersAgree'
  <2>1. ~At(User, "credit") /\ ~At(User, "withdraw") /\ ~At(User, "credit")' /\ ~At(User, "withdraw")'
    BY <1>1, <1>9 DEF At
  <2>2. \A o \in Orders : placed[o].status = "none"
    BY <1>0, <1>4 DEF JoinOK
  <2> QED
    BY <1>0, <1>2, <2>1, <2>2, AmountsKept DEF OrdersAgree
<1>11. NothingBefore' /\ ProofsOK'
  BY <1>0, <1>2, <1>4 DEF NothingBefore, ProofsOK, JoinOK
<1>12. UserIsOK(flow[User])'
  BY <1>9, PlainUserIsOK
<1>13. \A h \in Handlers : HandlerOK(flow[h])'
  <2>1. \A h \in Handlers : flow'[h].pc = "idle"
    BY <1>3, <1>5 DEF HandlersStay, At
  <2> QED
    BY <2>1 DEF HandlerOK, Asking, Fetching, Auditing, Claiming
<1>14. ClockOK' /\ JoinOK'
  BY <1>1, <1>2, <1>5, <1>6 DEF ClockOK, JoinOK
<1>15. JoinedOK'
  <2>1. /\ DOMAIN account = DOMAIN NoAccount /\ account.roundJoined = Now
        /\ account.lastFillRound = Now /\ account.lastAuditRound = Now
    BY <1>5 DEF NoAccount
  <2> QED
    BY <1>0, <1>2, <1>5, <1>6, <1>9, <2>1 DEF JoinedOK, Joining
<1>16. Audited' /\ ClaimsOK'
  <2>1. roundJoined' + 1 .. Now' = {}
    BY <1>0, <1>2, <1>5, <1>6
  <2>2. request' = Never
    BY <1>0, <1>2, <1>4 DEF JoinOK
  <2> QED
    BY <2>1, <2>2 DEF Audited, ClaimsOK
<1> QED
  BY <1>7, <1>8, <1>10, <1>11, <1>12, <1>13, <1>14, <1>15, <1>16 DEF Calm

(* The steps of a handler. *)

\* It leaves alone where the others are, what the server has, and what the user works on.
HandlerTurn(h) ==
    /\ flow'[User] = flow[User]
    /\ \A g \in Handlers \ {h} : flow'[g] = flow[g]
    /\ connected /\ connected'
    /\ UNCHANGED <<time, haltedAt, serverRound, deposited, debited, placed, credited, booked,
                   roundJoined>>
    /\ round' \in {round, Now} /\ quarter' \in {quarter, Part}
    /\ Now > 0 => proofs'[Now - 1] = proofs[Now - 1]
    /\ \A o \in Orders : known[o].status = "none" => known'[o].status = "none"
    /\ pending' => pending
    /\ DOMAIN account' = DOMAIN account /\ account'.roundJoined = account.roundJoined
    /\ disputes \subseteq disputes'

LEMMA HandlerFrame ==
    ASSUME Calm, NEW h \in Handlers, HandlerTurn(h)
    PROVE  /\ Same /\ Now' = Now /\ Part' = Part
           /\ ChainOK' /\ JoinOK' /\ JoinedOK' /\ UserIsOK(flow[User])'
           /\ \A g \in Handlers \ {h} : HandlerOK(flow[g])'
           /\ AmountsAgree' /\ NothingBefore'
<1>0. /\ ChainOK /\ AmountsAgree /\ NothingBefore /\ JoinOK /\ JoinedOK
      /\ (\A g \in Handlers : HandlerOK(flow[g])) /\ Now \in Nat /\ UserIsOK(flow[User])
  BY ClockFacts DEF Calm
<1>1. UNCHANGED <<time, haltedAt, serverRound, deposited, debited, placed, credited, booked,
                  roundJoined>>
  BY DEF HandlerTurn
<1>2. Same /\ Now' = Now /\ Part' = Part /\ FillsOf(placed, Now - 1)' = FillsOf(placed, Now - 1)
  BY <1>1, TablesSame, SameFacts
<1>3. committedBalance(Now)' = committedBalance(Now) /\ (CheatedIn(Now)' <=> CheatedIn(Now))
  BY <1>1, <1>2 DEF committedBalance, CheatedIn, serverOpening
<1>4. ChainOK'
  <2>1. haltDue => haltDue'
    BY <1>1 DEF HandlerTurn, haltDue, CheatedIn, committedBalance, serverOpening
  <2> QED
    BY <1>0, <1>1, <1>2, <2>1 DEF ChainOK, serverOpening
<1>5. JoinOK' /\ JoinedOK'
  BY <1>0, <1>1, <1>2 DEF HandlerTurn, JoinOK, JoinedOK
<1>6. ASSUME NEW g \in Handlers \ {h} PROVE HandlerOK(flow[g])'
  <2>1. flow'[g] = flow[g] /\ HandlerOK(flow[g])
    BY <1>0 DEF HandlerTurn
  <2>2. flow[g].pc = "dispute" => Now > 0
    BY <1>0, <2>1 DEF HandlerOK, JoinedOK, Auditing
  <2> QED
    BY <1>1, <1>2, <1>3, <2>1, <2>2 DEF HandlerOK, HandlerTurn
<1>7. UserIsOK(flow[User])'
  BY <1>0, <1>1, <1>2 DEF HandlerTurn, UserIsOK, OneNew
<1>8. AmountsAgree' /\ NothingBefore'
  BY <1>0, <1>1, AmountsKept, NothingKept DEF HandlerTurn, At
<1> QED
  BY <1>2, <1>4, <1>5, <1>6, <1>7, <1>8

\* What has been done so far stays done, and what is under way goes on.
LEMMA HandlerKeeps ==
    ASSUME Calm, NEW h \in Handlers, HandlerTurn(h), HandlerOK(flow[h])', ClockOK',
           UNCHANGED <<known, proofs, disputes, request>>,
           Behind => Behind', AuditPending => AuditPending',
           (\E g \in Handlers : At(g, "confirm")) => (\E g \in Handlers : At(g, "confirm"))',
           (RecoversAll /\ (recovered = "no" \/ haltedAt # Never))'
    PROVE  Calm'
<1>0. /\ ChainOK /\ JoinedOK /\ OrdersAgree /\ ProofsOK /\ DisputesOK /\ Audited /\ ClaimsOK
  BY DEF Calm
<1>1. /\ Same /\ Now' = Now /\ Part' = Part
      /\ ChainOK' /\ JoinOK' /\ JoinedOK' /\ UserIsOK(flow[User])'
      /\ \A g \in Handlers \ {h} : HandlerOK(flow[g])'
      /\ AmountsAgree' /\ NothingBefore'
  BY HandlerFrame
<1>2. UNCHANGED <<time, haltedAt, placed, roundJoined, connected>> /\ flow'[User] = flow[User]
      /\ connected /\ connected'
  BY DEF HandlerTurn
<1>3. ProofsOK' /\ DisputesOK' /\ (haltDue' <=> haltDue)
  BY <1>0, <1>1, <1>2, ProofsSame, DisputesSame
<1>4. OrdersAgree'
  BY <1>0, <1>1, <1>2 DEF OrdersAgree, At
<1>5. Audited'
  <2> SUFFICES ASSUME NEW r \in roundJoined + 1 .. Now
               PROVE  (\/ r = Now /\ AuditPending
                       \/ proofs[r] # Never
                       \/ CheatedIn(r) /\ (r \in disputes \/ (r = Now /\ haltDue)))'
    BY <1>1, <1>2 DEF Audited
  <2>1. r \in 0 .. Now
    BY <1>0, <1>2, ClockFacts DEF JoinedOK
  <2>2. CheatedIn(r)' <=> CheatedIn(r)
    BY <1>1, <2>1, SameFacts
  <2> QED
    BY <1>0, <1>1, <1>2, <1>3, <2>2 DEF Audited
<1>6. ClaimsOK'
  BY <1>0, <1>1, <1>2 DEF ClaimsOK
<1> QED
  BY <1>1, <1>3, <1>4, <1>5, <1>6 DEF Calm

LEMMA RecoveredSame ==
    ASSUME Calm, Same, UNCHANGED recovered
    PROVE  (RecoversAll /\ (recovered = "no" \/ haltedAt # Never))'
BY RecoverSame DEF Calm

LEMMA HandlerMoves ==
    ASSUME LedgerInv, NEW h \in Handlers, NEW new, Become(h, new)
    PROVE  /\ flow'[h] = new /\ flow'[User] = flow[User]
           /\ \A g \in Handlers \ {h} : flow'[g] = flow[g]
BY FlowsAre, FlowTurns

LEMMA HandlerGone ==
    ASSUME LedgerInv, NEW h \in Handlers, NEW pc, NEW got,
           (Go(h, pc) /\ got = flow[h].got) \/ GoWith(h, pc, got)
    PROVE  /\ flow'[h] = [pc |-> pc, arg |-> flow[h].arg, got |-> got, then |-> flow[h].then]
           /\ flow'[User] = flow[User]
           /\ \A g \in Handlers \ {h} : flow'[g] = flow[g]
BY FlowsAre, WentOn, WentOnWith

\* A handler that does nothing to the tables.
LEMMA OnlyFlowTurn ==
    ASSUME Calm, NEW h \in Handlers, flow[h].pc # "idle", flow'[User] = flow[User],
           \A g \in Handlers \ {h} : flow'[g] = flow[g],
           UNCHANGED <<chainVars, serverVars, databaseVars, connected, roundJoined>>,
           round' \in {round, Now}, quarter' \in {quarter, Part}
    PROVE  /\ HandlerTurn(h)
           /\ UNCHANGED <<known, proofs, disputes, request>>
           /\ (RecoversAll /\ (recovered = "no" \/ haltedAt # Never))'
<1>1. UNCHANGED <<time, haltedAt, serverRound, deposited, debited, placed, credited, booked,
                  recovered, known, proofs, disputes, request, pending, account>>
  BY DEF chainVars, serverVars, databaseVars
<1>2. connected
  BY DEF Calm, HandlerOK
<1>3. (RecoversAll /\ (recovered = "no" \/ haltedAt # Never))'
  BY <1>1, TablesSame, RecoveredSame
<1> QED
  BY <1>1, <1>2, <1>3 DEF HandlerTurn

LEMMA HandlerIs ==
    ASSUME Calm, NEW h \in Handlers
    PROVE  /\ HandlerOK(flow[h]) /\ ClockOK /\ Now \in Nat /\ Part \in 0 .. 3 /\ Now \in Rounds
           /\ getCurrentRound = Now /\ getCurrentQuarter = Part
           /\ (isHalted <=> haltedAt # Never)
BY ClockFacts DEF Calm

LEMMA AskingCalm ==
    ASSUME LedgerInv, Calm, NEW h \in Handlers, askRound(h) \/ setRound(h) \/ askQuarter(h)
    PROVE  Calm'
<1> DEFINE x == flow[h]
<1>0. /\ HandlerOK(x) /\ ClockOK /\ getCurrentRound = Now /\ getCurrentQuarter = Part
  BY HandlerIs
<1>1. UNCHANGED <<chainVars, serverVars, databaseVars, connected, quarter, roundJoined>>
  BY DEF askRound, setRound, askQuarter, onlyFlow, onlyMemory, memoryVars
<1>2. \/ /\ x.pc = "askRound" /\ GoWith(h, "setRound", Now) /\ round' = round
      \/ /\ x.pc = "setRound" /\ Go(h, "askQuarter") /\ round' = Now
      \/ /\ x.pc = "askQuarter" /\ GoWith(h, "goToQuarter", Part) /\ round' = round
  BY <1>0 DEF askRound, setRound, askQuarter, onlyFlow, memoryVars, At, HandlerOK
<1>3. /\ flow'[User] = flow[User] /\ \A g \in Handlers \ {h} : flow'[g] = flow[g]
      /\ \/ /\ x.pc = "askRound" /\ round' = round
            /\ flow'[h].pc = "setRound" /\ flow'[h].got = Now
         \/ /\ x.pc = "setRound" /\ flow'[h].pc = "askQuarter" /\ round' = Now
         \/ /\ x.pc = "askQuarter" /\ round' = round
            /\ flow'[h].pc = "goToQuarter" /\ flow'[h].got = Part
  <2>1. CASE x.pc = "askRound" /\ GoWith(h, "setRound", Now) /\ round' = round
    <3>1. /\ flow'[h] = [pc |-> "setRound", arg |-> x.arg, got |-> Now, then |-> x.then]
          /\ flow'[User] = flow[User] /\ \A g \in Handlers \ {h} : flow'[g] = flow[g]
      BY <2>1, HandlerGone
    <3> QED
      BY <2>1, <3>1
  <2>2. CASE x.pc = "setRound" /\ Go(h, "askQuarter") /\ round' = Now
    <3>1. /\ flow'[h] = [pc |-> "askQuarter", arg |-> x.arg, got |-> x.got, then |-> x.then]
          /\ flow'[User] = flow[User] /\ \A g \in Handlers \ {h} : flow'[g] = flow[g]
      BY <2>2, HandlerGone
    <3> QED
      BY <2>2, <3>1
  <2>3. CASE x.pc = "askQuarter" /\ GoWith(h, "goToQuarter", Part) /\ round' = round
    <3>1. /\ flow'[h] = [pc |-> "goToQuarter", arg |-> x.arg, got |-> Part, then |-> x.then]
          /\ flow'[User] = flow[User] /\ \A g \in Handlers \ {h} : flow'[g] = flow[g]
      BY <2>3, HandlerGone
    <3> QED
      BY <2>3, <3>1
  <2> QED
    BY <1>2, <2>1, <2>2, <2>3
<1>4. /\ HandlerTurn(h) /\ UNCHANGED <<known, proofs, disputes, request>>
      /\ (RecoversAll /\ (recovered = "no" \/ haltedAt # Never))'
  BY <1>1, <1>3, OnlyFlowTurn
<1>5. Now' = Now /\ Part' = Part /\ haltedAt' = haltedAt
  BY <1>4, HandlerFrame DEF HandlerTurn
<1>6. x.pc \in Asking /\ flow'[h].pc \in Asking
  BY <1>3 DEF Asking
<1>7. /\ Behind => Behind'
      /\ AuditPending => AuditPending'
      /\ (\E g \in Handlers : At(g, "confirm")) => (\E g \in Handlers : At(g, "confirm"))'
  <2>1. ASSUME NEW g \in Handlers
        PROVE  /\ flow[g].pc \in Asking => flow'[g].pc \in Asking
               /\ flow[g].pc \in Fetching => flow'[g].pc \in Fetching
               /\ flow[g].pc \in Auditing => flow'[g].pc \in Auditing
               /\ flow[g].pc = "confirm" => flow'[g].pc = "confirm"
    <3>1. CASE g = h
      BY <1>6, <3>1 DEF Asking, Fetching, Auditing
    <3>2. CASE g # h
      BY <1>3, <3>2
    <3> QED
      BY <3>1, <3>2
  <2> QED
    BY <1>1, <1>5, <2>1 DEF Behind, AuditPending, At
<1>8. ClockOK'
  <2>1. round' = Now \/ \E g \in Handlers : flow'[g].pc \in {"askRound", "setRound"}
    <3>1. CASE round = Now
      BY <1>3, <3>1
    <3>2. ASSUME NEW g \in Handlers, flow[g].pc \in {"askRound", "setRound"}
          PROVE  round' = Now \/ \E k \in Handlers : flow'[k].pc \in {"askRound", "setRound"}
      <4>1. CASE g = h
        BY <1>3, <3>2, <4>1
      <4>2. CASE g # h
        BY <1>3, <3>2, <4>2
      <4> QED
        BY <4>1, <4>2
    <3> QED
      BY <1>0, <1>4, <3>1, <3>2 DEF ClockOK, HandlerTurn
  <2>2. \E g \in Handlers : flow'[g].pc \in Asking
    BY <1>6
  <2> QED
    BY <1>5, <2>1, <2>2 DEF ClockOK
<1>9. HandlerOK(flow[h])'
  BY <1>0, <1>3, <1>4, <1>5 DEF HandlerOK, HandlerTurn, Asking, Fetching, Auditing, Claiming
<1> QED
  BY <1>4, <1>7, <1>8, <1>9, HandlerKeeps

\* What the others wait for does not change with a flow that asks for nothing.
LEMMA PhaseStays ==
    ASSUME Calm, NEW h \in Handlers, HandlerTurn(h), UNCHANGED <<round, quarter>>,
           flow[h].pc \notin Asking
    PROVE  /\ ClockOK'
           /\ (flow[h].pc \in Fetching => flow'[h].pc \in Fetching) => (Behind => Behind')
           /\ (flow[h].pc \in Auditing => flow'[h].pc \in Auditing) => (AuditPending => AuditPending')
           /\ (flow[h].pc = "confirm" => flow'[h].pc = "confirm") =>
                 ((\E g \in Handlers : At(g, "confirm")) => (\E g \in Handlers : At(g, "confirm"))')
<1>1. Now' = Now /\ Part' = Part
  BY HandlerFrame
<1>2. \A g \in Handlers \ {h} : flow'[g] = flow[g]
  BY DEF HandlerTurn
<1>3. {"askRound", "setRound"} \subseteq Asking
  BY DEF Asking
<1>4. ClockOK'
  <2>1. ClockOK
    BY HandlerIs
  <2> QED
    BY <1>1, <1>2, <1>3, <2>1 DEF ClockOK, HandlerTurn
<1>5. ASSUME flow[h].pc \in Fetching => flow'[h].pc \in Fetching, Behind PROVE Behind'
  <2>1. PICK g \in Handlers : \/ flow[g].pc \in Asking /\ Part = 0 /\ quarter # 0
                              \/ flow[g].pc \in Fetching
    BY <1>5 DEF Behind
  <2>2. \/ flow'[g].pc \in Asking /\ Part = 0 /\ quarter # 0
        \/ flow'[g].pc \in Fetching
    <3>1. CASE g = h
      BY <1>5, <2>1, <3>1
    <3>2. CASE g # h
      BY <1>2, <2>1, <3>2
    <3> QED
      BY <3>1, <3>2
  <2> QED
    BY <1>1, <2>2 DEF Behind
<1>6. ASSUME flow[h].pc \in Auditing => flow'[h].pc \in Auditing, AuditPending PROVE AuditPending'
  <2>1. CASE Part = 0
    BY <1>1, <2>1 DEF AuditPending
  <2>2. ASSUME NEW g \in Handlers, \/ flow[g].pc \in Asking /\ quarter = 0 /\ Part = 1
                                   \/ flow[g].pc \in Auditing
        PROVE  AuditPending'
    <3>1. \/ flow'[g].pc \in Asking /\ quarter = 0 /\ Part = 1
          \/ flow'[g].pc \in Auditing
      <4>1. CASE g = h
        BY <1>6, <2>2, <4>1
      <4>2. CASE g # h
        BY <1>2, <2>2, <4>2
      <4> QED
        BY <4>1, <4>2
    <3> QED
      BY <1>1, <3>1 DEF AuditPending
  <2> QED
    BY <1>6, <2>1, <2>2 DEF AuditPending
<1>7. ASSUME flow[h].pc = "confirm" => flow'[h].pc = "confirm", NEW g \in Handlers, At(g, "confirm")
      PROVE  (\E k \in Handlers : At(k, "confirm"))'
  <2>1. flow'[g].pc = "confirm"
    <3>1. CASE g = h
      BY <1>7, <3>1 DEF At
    <3>2. CASE g # h
      BY <1>2, <1>7, <3>2 DEF At
    <3> QED
      BY <3>1, <3>2
  <2> QED
    BY <2>1 DEF At
<1> QED
  BY <1>4, <1>5, <1>6, <1>7

LEMMA GoToQuarterCalm ==
    ASSUME LedgerInv, Calm, NEW h \in Handlers, goToQuarter(h) PROVE Calm'
<1> DEFINE x == flow[h]
<1>0. /\ HandlerOK(x) /\ ClockOK /\ Now \in Nat /\ Part \in 0 .. 3 /\ JoinedOK /\ ClaimsOK
      /\ Audited /\ OrdersAgree /\ ChainOK /\ ProofsOK /\ DisputesOK
  BY HandlerIs DEF Calm
<1>1. /\ x.pc = "goToQuarter" /\ quarter' = x.got
      /\ UNCHANGED <<chainVars, serverVars, databaseVars, connected, round, roundJoined>>
  BY DEF goToQuarter, At, onlyMemory
<1>2. x.got = Part /\ round = Now /\ connected
  BY <1>0, <1>1 DEF HandlerOK
<1>3. \/ /\ quarter # Part /\ Part = 0
         /\ Become(h, [pc |-> "fetch", arg |-> Now - 1, got |-> {}, then |-> "idle"])
      \/ /\ quarter # Part /\ Part = 1 /\ Now > roundJoined
         /\ Become(h, [pc |-> "fetchProofs", arg |-> Now, got |-> {}, then |-> "confirm"])
      \/ /\ End(h) /\ ~(quarter # Part /\ Part = 0) /\ ~(quarter # Part /\ Part = 1 /\ Now > roundJoined)
  BY <1>2 DEF goToQuarter, Fetch
<1>4. /\ flow'[User] = flow[User] /\ \A g \in Handlers \ {h} : flow'[g] = flow[g]
      /\ \/ /\ quarter # Part /\ Part = 0
            /\ flow'[h].pc = "fetch" /\ flow'[h].arg = Now - 1 /\ flow'[h].then = "idle"
         \/ /\ quarter # Part /\ Part = 1 /\ Now > roundJoined
            /\ flow'[h].pc = "fetchProofs" /\ flow'[h].arg = Now /\ flow'[h].then = "confirm"
         \/ /\ ~(quarter # Part /\ Part = 0) /\ ~(quarter # Part /\ Part = 1 /\ Now > roundJoined)
            /\ flow'[h].pc = "idle"
  <2>1. CASE /\ quarter # Part /\ Part = 0
             /\ Become(h, [pc |-> "fetch", arg |-> Now - 1, got |-> {}, then |-> "idle"])
    <3>1. /\ flow'[h] = [pc |-> "fetch", arg |-> Now - 1, got |-> {}, then |-> "idle"]
          /\ flow'[User] = flow[User] /\ \A g \in Handlers \ {h} : flow'[g] = flow[g]
      BY <2>1, HandlerMoves
    <3> QED
      BY <2>1, <3>1
  <2>2. CASE /\ quarter # Part /\ Part = 1 /\ Now > roundJoined
             /\ Become(h, [pc |-> "fetchProofs", arg |-> Now, got |-> {}, then |-> "confirm"])
    <3>1. /\ flow'[h] = [pc |-> "fetchProofs", arg |-> Now, got |-> {}, then |-> "confirm"]
          /\ flow'[User] = flow[User] /\ \A g \in Handlers \ {h} : flow'[g] = flow[g]
      BY <2>2, HandlerMoves
    <3> QED
      BY <2>2, <3>1
  <2>3. CASE End(h) /\ ~(quarter # Part /\ Part = 0) /\ ~(quarter # Part /\ Part = 1 /\ Now > roundJoined)
    <3>1. /\ flow'[h] = Idle
          /\ flow'[User] = flow[User] /\ \A g \in Handlers \ {h} : flow'[g] = flow[g]
      BY <2>3, HandlerMoves DEF End
    <3>2. flow'[h].pc = "idle"
      BY <3>1 DEF Idle
    <3> QED
      BY <2>3, <3>1, <3>2
  <2> QED
    BY <1>3, <2>1, <2>2, <2>3
<1>5. /\ HandlerTurn(h) /\ UNCHANGED <<known, proofs, disputes, request>>
      /\ (RecoversAll /\ (recovered = "no" \/ haltedAt # Never))'
  <2>1. quarter' \in {quarter, Part} /\ round' \in {round, Now}
    BY <1>1, <1>2
  <2> QED
    BY <1>1, <1>4, <2>1, OnlyFlowTurn
<1>6. Now' = Now /\ Part' = Part /\ haltedAt' = haltedAt /\ quarter' = Part /\ roundJoined' = roundJoined
  BY <1>1, <1>2, <1>5, HandlerFrame DEF HandlerTurn
<1>7. ClockOK' /\ HandlerOK(flow[h])'
  <2>1. ClockOK'
    BY <1>1, <1>2, <1>6 DEF ClockOK
  <2>2. HandlerOK(flow[h])'
    BY <1>1, <1>2, <1>4, <1>6 DEF HandlerOK, Asking, Fetching, Auditing, Claiming
  <2> QED
    BY <2>1, <2>2
<1>8. Behind => Behind'
  <2>1. SUFFICES ASSUME NEW g \in Handlers, \/ flow[g].pc \in Asking /\ Part = 0 /\ quarter # 0
                                            \/ flow[g].pc \in Fetching
                 PROVE  Behind'
    BY DEF Behind
  <2>2. x.pc \notin Fetching
    BY <1>1 DEF Fetching
  <2>3. CASE flow[g].pc \in Fetching
    <3>1. flow'[g].pc \in Fetching
      BY <1>4, <2>2, <2>3
    <3> QED
      BY <3>1 DEF Behind
  <2>4. CASE Part = 0 /\ quarter # 0
    <3>1. flow'[h].pc \in Fetching
      BY <1>4, <2>4 DEF Fetching
    <3> QED
      BY <3>1 DEF Behind
  <2> QED
    BY <2>1, <2>3, <2>4
<1>9. CASE Now > roundJoined
  <2>1. AuditPending => AuditPending'
    <3>1. CASE Part = 0
      BY <1>6, <3>1 DEF AuditPending
    <3>2. ASSUME NEW g \in Handlers, flow[g].pc \in Auditing PROVE AuditPending'
      <4>1. flow'[g].pc \in Auditing
        BY <1>1, <1>4, <3>2 DEF Auditing
      <4> QED
        BY <4>1 DEF AuditPending
    <3>3. CASE quarter = 0 /\ Part = 1
      <4>1. flow'[h].pc \in Auditing
        BY <1>4, <1>9, <3>3 DEF Auditing
      <4> QED
        BY <4>1 DEF AuditPending
    <3> QED
      BY <3>1, <3>2, <3>3 DEF AuditPending
  <2>2. (\E g \in Handlers : At(g, "confirm")) => (\E g \in Handlers : At(g, "confirm"))'
    <3>1. \A g \in Handlers : flow[g].pc = "confirm" => flow'[g].pc = "confirm"
      BY <1>1, <1>4
    <3> QED
      BY <3>1 DEF At
  <2> QED
    BY <1>5, <1>7, <1>8, <2>1, <2>2, HandlerKeeps
<1>10. CASE ~(Now > roundJoined)
  <2>1. /\ Same /\ ChainOK' /\ JoinOK' /\ JoinedOK' /\ UserIsOK(flow[User])'
        /\ \A g \in Handlers \ {h} : HandlerOK(flow[g])'
        /\ AmountsAgree' /\ NothingBefore'
    BY <1>5, HandlerFrame
  <2>2. ProofsOK' /\ DisputesOK'
    BY <1>0, <1>5, <1>6, <2>1, ProofsSame, DisputesSame
  <2>3. OrdersAgree'
    BY <1>0, <1>4, <1>5, <1>6, <1>8 DEF OrdersAgree, At, HandlerTurn
  <2>4. roundJoined \in 0 .. Now
    BY <1>0, <1>2 DEF JoinedOK
  <2>5. Audited'
    BY <1>6, <1>10, <2>4, <1>0 DEF Audited
  <2>6. request = Never
    <3>1. roundJoined + 2 .. Now = {}
      BY <1>0, <1>10, <2>4
    <3> QED
      BY <1>0, <3>1 DEF ClaimsOK
  <2>7. ClaimsOK'
    BY <1>5, <2>6 DEF ClaimsOK
  <2> QED
    BY <1>5, <1>7, <2>1, <2>2, <2>3, <2>5, <2>7 DEF Calm
<1> QED
  BY <1>9, <1>10

\* The steps of a handler that fetches, or looks for evidence.
LEMMA FetchingCalm ==
    ASSUME LedgerInv, Calm, Undisturbed, NEW h \in Handlers,
           fetchFills(h) \/ fetchProofs(h) \/ openBalanceDispute(h)
    PROVE  Calm'
<1> DEFINE x == flow[h]
<1>0. HandlerOK(x) /\ JoinedOK
  BY HandlerIs DEF Calm
<1>1. UNCHANGED <<chainVars, serverVars, databaseVars, memoryVars>>
  BY NoneGoesWrong DEF fetchFills, fetchProofs, openBalanceDispute, Refuse, onlyFlow, onlyMemory
<1>2. /\ \/ x.pc = "fetch" /\ GoWith(h, "insertFills", FillsOf(placed, x.arg))
         \/ x.pc = "fetchProofs" /\ GoWith(h, "checkProofs", committedBalance(x.arg))
         \/ x.pc = "openDispute" /\ GoWith(h, "dispute", Evidence(h))
  BY NoneGoesWrong DEF fetchFills, FillsGiven, fetchProofs, openBalanceDispute, Refuse, At
<1>3. /\ flow'[User] = flow[User] /\ \A g \in Handlers \ {h} : flow'[g] = flow[g]
      /\ flow'[h].arg = x.arg /\ flow'[h].then = x.then
      /\ \/ /\ x.pc = "fetch" /\ flow'[h].pc = "insertFills"
            /\ flow'[h].got = FillsOf(placed, x.arg)
         \/ /\ x.pc = "fetchProofs" /\ flow'[h].pc = "checkProofs"
            /\ flow'[h].got = committedBalance(x.arg)
         \/ /\ x.pc = "openDispute" /\ flow'[h].pc = "dispute"
            /\ flow'[h].got.proof = proofs[x.arg - 1]
  <2>1. ASSUME NEW pc, NEW got, GoWith(h, pc, got)
        PROVE  /\ flow'[User] = flow[User] /\ \A g \in Handlers \ {h} : flow'[g] = flow[g]
               /\ flow'[h].arg = x.arg /\ flow'[h].then = x.then
               /\ flow'[h].pc = pc /\ flow'[h].got = got
    <3>1. /\ flow'[h] = [pc |-> pc, arg |-> x.arg, got |-> got, then |-> x.then]
          /\ flow'[User] = flow[User] /\ \A g \in Handlers \ {h} : flow'[g] = flow[g]
      BY <2>1, HandlerGone
    <3> QED
      BY <3>1
  <2>2. Evidence(h).proof = proofs[x.arg - 1]
    BY DEF Evidence
  <2> QED
    BY <1>2, <2>1, <2>2
<1>4. /\ HandlerTurn(h) /\ UNCHANGED <<known, proofs, disputes, request>>
      /\ (RecoversAll /\ (recovered = "no" \/ haltedAt # Never))'
  <2>1. quarter' = quarter /\ round' = round /\ connected' = connected /\ roundJoined' = roundJoined
    BY <1>1 DEF memoryVars
  <2> QED
    BY <1>1, <1>3, <2>1, OnlyFlowTurn
<1>5. Now' = Now /\ Part' = Part /\ haltedAt' = haltedAt /\ Same
  BY <1>4, HandlerFrame DEF HandlerTurn
<1>6. UNCHANGED <<round, quarter, roundJoined, connected, placed, proofs, deposited, debited>>
  BY <1>1, <1>4 DEF memoryVars, chainVars, serverVars
<1>7. /\ x.pc \in Fetching => flow'[h].pc \in Fetching
      /\ x.pc \in Auditing => flow'[h].pc \in Auditing
      /\ x.pc = "confirm" => flow'[h].pc = "confirm"
      /\ x.pc \notin Asking
  BY <1>3 DEF Fetching, Auditing, Asking
<1>8. /\ ClockOK' /\ (Behind => Behind') /\ (AuditPending => AuditPending')
      /\ (\E g \in Handlers : At(g, "confirm")) => (\E g \in Handlers : At(g, "confirm"))'
  BY <1>4, <1>6, <1>7, PhaseStays
<1>9. HandlerOK(flow[h])'
  <2>1. committedBalance(Now)' = committedBalance(Now) /\ (CheatedIn(Now)' <=> CheatedIn(Now))
    BY <1>5, <1>6 DEF committedBalance, CheatedIn, serverOpening
  <2>2. CASE x.pc = "fetch"
    BY <1>0, <1>3, <1>4, <1>5, <1>6, <2>2 DEF HandlerOK, HandlerTurn, Asking, Fetching, Auditing, Claiming
  <2>3. CASE x.pc = "fetchProofs"
    BY <1>0, <1>3, <1>4, <1>5, <1>6, <2>1, <2>3 DEF HandlerOK, HandlerTurn, Asking, Fetching, Auditing, Claiming
  <2>4. CASE x.pc = "openDispute"
    BY <1>0, <1>3, <1>4, <1>5, <1>6, <2>1, <2>4 DEF HandlerOK, HandlerTurn, Asking, Fetching, Auditing, Claiming
  <2> QED
    BY <1>3, <2>2, <2>3, <2>4
<1> QED
  BY <1>4, <1>8, <1>9, HandlerKeeps

\* A handler that ends.
LEMMA Ended ==
    ASSUME LedgerInv, NEW h \in Handlers, End(h)
    PROVE  /\ flow'[User] = flow[User] /\ \A g \in Handlers \ {h} : flow'[g] = flow[g]
           /\ flow'[h].pc = "idle"
<1>1. flow'[h] = Idle /\ flow'[User] = flow[User] /\ \A g \in Handlers \ {h} : flow'[g] = flow[g]
  BY HandlerMoves DEF End
<1> QED
  BY <1>1 DEF Idle

LEMMA IdleHandlerIsOK == ASSUME NEW h, flow'[h].pc = "idle" PROVE HandlerOK(flow[h])'
BY DEF HandlerOK, Asking, Fetching, Auditing, Claiming

LEMMA PaidCalm ==
    ASSUME LedgerInv, Calm, NEW h \in Handlers, confirmWithdrawalAsync(h) PROVE Calm'
<1>1. /\ flow[h].pc = "confirmed" /\ ~pending' /\ End(h)
      /\ UNCHANGED <<chainVars, serverVars, account, known, credited, booked, proofs, memoryVars>>
  BY DEF confirmWithdrawalAsync, At
<1>2. /\ flow'[User] = flow[User] /\ \A g \in Handlers \ {h} : flow'[g] = flow[g]
      /\ flow'[h].pc = "idle"
  BY <1>1, Ended
<1>3. UNCHANGED <<time, haltedAt, serverRound, deposited, debited, placed, credited, booked, request,
                  disputes, recovered, known, proofs, account, connected, round, quarter, roundJoined>>
  BY <1>1 DEF chainVars, serverVars, memoryVars
<1>4. HandlerTurn(h)
  <2>1. connected
    BY <1>1, HandlerIs DEF HandlerOK
  <2> QED
    BY <1>1, <1>2, <1>3, <2>1 DEF HandlerTurn
<1>5. (RecoversAll /\ (recovered = "no" \/ haltedAt # Never))'
  BY <1>3, <1>4, HandlerFrame, RecoveredSame
<1>6. /\ ClockOK' /\ (Behind => Behind') /\ (AuditPending => AuditPending')
      /\ (\E g \in Handlers : At(g, "confirm")) => (\E g \in Handlers : At(g, "confirm"))'
  <2>1. flow[h].pc \notin Asking \cup Fetching \cup Auditing \cup {"confirm"}
    BY <1>1 DEF Asking, Fetching, Auditing
  <2> QED
    BY <1>3, <1>4, <2>1, PhaseStays
<1> QED
  BY <1>2, <1>3, <1>4, <1>5, <1>6, IdleHandlerIsOK, HandlerKeeps

\* The fills of the round before are in.
LEMMA InsertFillsCalm ==
    ASSUME LedgerInv, Calm, NEW h \in Handlers, insertFills(h) PROVE Calm'
<1> DEFINE x == flow[h]
<1>0. /\ HandlerOK(x) /\ JoinedOK /\ OrdersAgree /\ ChainOK /\ Now \in Nat /\ ProofsOK /\ DisputesOK
      /\ Audited /\ ClaimsOK
  BY HandlerIs DEF Calm
<1>1. /\ x.pc = "insertFills" /\ known' = onReceiveFills(x.got, x.arg)
      /\ updateLastAuditOrFillRound("lastFillRound")
      /\ UNCHANGED <<chainVars, serverVars, credited, booked, pending, proofs, memoryVars>>
  BY DEF insertFills, At
<1>2. x.got = FillsOf(placed, Now - 1) /\ x.arg = Now - 1 /\ x.then = "idle" /\ connected
  BY <1>0, <1>1 DEF HandlerOK, Fetching
<1>3. /\ flow'[User] = flow[User] /\ \A g \in Handlers \ {h} : flow'[g] = flow[g]
      /\ flow'[h].pc = "idle"
  <2>1. End(h)
    BY <1>2 DEF insertFills
  <2> QED
    BY <2>1, Ended
<1>4. UNCHANGED <<time, haltedAt, serverRound, deposited, debited, placed, credited, booked, request,
                  disputes, recovered, pending, proofs, connected, round, quarter, roundJoined>>
  BY <1>1 DEF chainVars, serverVars, memoryVars
<1>5. ASSUME NEW o \in Orders
      PROVE  /\ known'[o].status \in {"none", "open", "filled", "canceled"}
             /\ known'[o].status = "none" <=> known[o].status = "none"
             /\ known'[o].status = "open" => known[o].status = "open"
             /\ known[o].status = "canceled" => known'[o].status = "canceled"
             /\ placed[o].status = "filled" /\ placed[o].round = Now - 1 => known'[o].status # "open"
  <2>1. known[o].status \in {"none", "open", "filled", "canceled"}
    BY <1>0 DEF OrdersAgree
  <2>2. OrderOK(known[o], placed[o])
    BY TablesOf
  <2>3. CASE o \in FillsOf(placed, Now - 1) /\ known[o].status = "open" /\ known[o].round = Now - 1
    <3> DEFINE k == known[o]
    <3>1. known'[o] = [k EXCEPT !.status = "filled"]
      BY <1>1, <1>2, <2>3 DEF onReceiveFills
    <3>2. k = [status |-> k.status, round |-> k.round]
      BY TablesOf
    <3> HIDE DEF k
    <3>3. [k EXCEPT !.status = "filled"].status = "filled"
      BY <3>2
    <3>4. known'[o].status = "filled"
      BY <3>1, <3>3
    <3> QED
      BY <2>3, <3>4 DEF k
  <2>4. CASE ~(o \in FillsOf(placed, Now - 1) /\ known[o].status = "open" /\ known[o].round = Now - 1)
    <3>1. known'[o] = known[o]
      BY <1>1, <1>2, <2>4 DEF onReceiveFills
    <3>2. placed[o].status = "filled" /\ placed[o].round = Now - 1 => known[o].status # "open"
      BY <2>2, <2>4 DEF OrderOK, FillsOf
    <3> QED
      BY <2>1, <3>1, <3>2
  <2> QED
    BY <2>3, <2>4
<1>6. DOMAIN account' = DOMAIN account /\ account'.roundJoined = account.roundJoined
  <2>1. DOMAIN account = {"roundJoined", "lastFillRound", "lastAuditRound"}
    BY <1>0, <1>2 DEF JoinedOK, NoAccount
  <2>2. account' = account \/ account' = [account EXCEPT !["lastFillRound"] = round]
    BY <1>1 DEF updateLastAuditOrFillRound
  <2> QED
    BY <2>1, <2>2
<1>7. HandlerTurn(h)
  BY <1>2, <1>3, <1>4, <1>5, <1>6 DEF HandlerTurn
<1>8. /\ Same /\ Now' = Now /\ Part' = Part
      /\ ChainOK' /\ JoinOK' /\ JoinedOK' /\ UserIsOK(flow[User])'
      /\ \A g \in Handlers \ {h} : HandlerOK(flow[g])'
      /\ AmountsAgree' /\ NothingBefore'
  BY <1>7, HandlerFrame
<1>9. (RecoversAll /\ (recovered = "no" \/ haltedAt # Never))'
  BY <1>4, <1>8, RecoveredSame
<1>10. /\ ClockOK' /\ (AuditPending => AuditPending')
       /\ (\E g \in Handlers : At(g, "confirm")) => (\E g \in Handlers : At(g, "confirm"))'
  <2>1. x.pc \notin Asking \cup Auditing \cup {"confirm"}
    BY <1>1 DEF Asking, Auditing
  <2> QED
    BY <1>4, <1>7, <2>1, PhaseStays
<1>11. OrdersAgree'
  <2>1. \A o \in Orders : placed[o].status = "filled" /\ known'[o].status = "open" =>
                             placed[o].round = Now
    BY <1>0, <1>5 DEF OrdersAgree
  <2> QED
    BY <1>0, <1>3, <1>4, <1>5, <1>8, <2>1 DEF OrdersAgree, At
<1>12. ProofsOK' /\ DisputesOK' /\ (haltDue' <=> haltDue)
  BY <1>0, <1>4, <1>8, ProofsSame, DisputesSame
<1>13. Audited'
  <2> SUFFICES ASSUME NEW r \in roundJoined + 1 .. Now
               PROVE  (\/ r = Now /\ AuditPending
                       \/ proofs[r] # Never
                       \/ CheatedIn(r) /\ (r \in disputes \/ (r = Now /\ haltDue)))'
    BY <1>4, <1>8 DEF Audited
  <2>1. r \in 0 .. Now
    BY <1>0, <1>2 DEF JoinedOK
  <2>2. CheatedIn(r)' <=> CheatedIn(r)
    BY <1>8, <2>1, SameFacts
  <2> QED
    BY <1>0, <1>2, <1>4, <1>8, <1>10, <1>12, <2>2 DEF Audited
<1>14. ClaimsOK'
  BY <1>0, <1>4, <1>8, <1>10 DEF ClaimsOK
<1>15. HandlerOK(flow[h])'
  BY <1>3, IdleHandlerIsOK
<1> QED
  BY <1>8, <1>9, <1>10, <1>11, <1>12, <1>13, <1>14, <1>15 DEF Calm

\* An audit is not made before the fills are in.
LEMMA AuditsAreNotBehind ==
    ASSUME Calm, Part = 1 PROVE ~Behind
<1>1. \A h \in Handlers : HandlerOK(flow[h])
  BY DEF Calm
<1> QED
  BY <1>1 DEF Behind, HandlerOK

LEMMA CheckProofsCalm ==
    ASSUME LedgerInv, Calm, NEW h \in Handlers, checkProofs(h) PROVE Calm'
<1> DEFINE x == flow[h]
<1>0. /\ HandlerOK(x) /\ JoinedOK /\ OrdersAgree /\ ChainOK /\ Now \in Nat /\ ProofsOK /\ DisputesOK
      /\ Audited /\ ClaimsOK /\ Now \in Rounds /\ time = 4 * Now + Part /\ ClockOK
  BY HandlerIs, ClockFacts DEF Calm
<1>1. /\ x.pc = "checkProofs"
      /\ UNCHANGED <<chainVars, serverVars, known, credited, booked, pending, memoryVars>>
  BY DEF checkProofs, At
<1>2. /\ x.arg = Now /\ x.then = "confirm" /\ Part = 1 /\ Now > roundJoined /\ connected
      /\ x.got = committedBalance(Now) /\ round = Now /\ quarter = Part
  BY <1>0, <1>1 DEF HandlerOK, Auditing
<1>3. roundJoined \in 0 .. Now /\ Now > 0
  BY <1>0, <1>2 DEF JoinedOK
<1>4. auditPasses(x.got, x.arg) <=> ~CheatedIn(Now)
  <2>1. openingBalance(Now) = serverOpening(Now)
    BY <1>2, AuditsAreNotBehind, OpeningHere
  <2>2. isProofValid(Now)
    BY <1>0, <1>2, <1>3 DEF isProofValid
  <2> QED
    BY <1>2, <2>1, <2>2 DEF auditPasses, CheatedIn
<1>5. UNCHANGED <<time, haltedAt, serverRound, deposited, debited, placed, credited, booked, request,
                  disputes, recovered, pending, known, connected, round, quarter, roundJoined>>
  BY <1>1 DEF chainVars, serverVars, memoryVars
<1>6. CASE CheatedIn(Now)
  <2>1. Go(h, "openDispute") /\ UNCHANGED <<proofs, account>>
    BY <1>4, <1>6 DEF checkProofs
  <2>2. /\ flow'[h] = [pc |-> "openDispute", arg |-> x.arg, got |-> x.got, then |-> x.then]
        /\ flow'[User] = flow[User] /\ \A g \in Handlers \ {h} : flow'[g] = flow[g]
    BY <2>1, HandlerGone
  <2>3. flow'[h].pc = "openDispute" /\ flow'[h].arg = Now /\ flow'[h].then = "confirm"
    BY <1>2, <2>2
  <2>4. HandlerTurn(h)
    BY <1>2, <1>5, <2>1, <2>2 DEF HandlerTurn
  <2>5. Now' = Now /\ Part' = Part /\ Same
    BY <2>4, HandlerFrame
  <2>6. (RecoversAll /\ (recovered = "no" \/ haltedAt # Never))'
    BY <1>5, <2>5, RecoveredSame
  <2>7. /\ ClockOK' /\ (Behind => Behind') /\ (AuditPending => AuditPending')
        /\ (\E g \in Handlers : At(g, "confirm")) => (\E g \in Handlers : At(g, "confirm"))'
    <3>1. x.pc \notin Asking \cup Fetching \cup {"confirm"} /\ flow'[h].pc \in Auditing
      BY <1>1, <2>3 DEF Asking, Fetching, Auditing
    <3> QED
      BY <1>5, <2>4, <3>1, PhaseStays
  <2>8. HandlerOK(flow[h])'
    <3>1. CheatedIn(Now)'
      BY <1>5, <1>6, <2>5 DEF CheatedIn, committedBalance, serverOpening
    <3> QED
      BY <1>2, <1>5, <2>3, <2>5, <3>1 DEF HandlerOK, Asking, Fetching, Auditing, Claiming
  <2> QED
    BY <1>5, <2>1, <2>4, <2>6, <2>7, <2>8, HandlerKeeps
<1>7. CASE ~CheatedIn(Now)
  <2>1. /\ Go(h, "confirm") /\ storeProof(Now, x.got)
        /\ updateLastAuditOrFillRound("lastAuditRound")
    BY <1>2, <1>4, <1>7 DEF checkProofs
  <2>2. /\ flow'[h] = [pc |-> "confirm", arg |-> x.arg, got |-> x.got, then |-> x.then]
        /\ flow'[User] = flow[User] /\ \A g \in Handlers \ {h} : flow'[g] = flow[g]
    BY <2>1, HandlerGone
  <2>3. flow'[h].pc = "confirm"
    BY <2>2
  <2>4. x.got = serverOpening(Now) /\ serverOpening(Now) >= 0
    BY <1>0, <1>2, <1>7 DEF CheatedIn, ChainOK
  <2>5. /\ DOMAIN proofs' = Rounds
        /\ proofs'[Now] = serverOpening(Now)
        /\ \A r \in Rounds : r # Now => proofs'[r] = proofs[r]
    <3>1. proofs' = [proofs EXCEPT ![Now] = IF @ = Never THEN x.got ELSE @] /\ DOMAIN proofs = Rounds
      BY <1>0, <2>1 DEF storeProof, ProofsOK
    <3>2. proofs[Now] # Never => proofs[Now] = serverOpening(Now)
      BY <1>0 DEF ProofsOK
    <3> QED
      BY <1>0, <2>4, <3>1, <3>2
  <2>6. DOMAIN account' = DOMAIN account /\ account'.roundJoined = account.roundJoined
    <3>1. DOMAIN account = {"roundJoined", "lastFillRound", "lastAuditRound"}
      BY <1>0, <1>2 DEF JoinedOK, NoAccount
    <3>2. account' = account \/ account' = [account EXCEPT !["lastAuditRound"] = round]
      BY <2>1 DEF updateLastAuditOrFillRound
    <3> QED
      BY <3>1, <3>2
  <2>7. HandlerTurn(h)
    <3>1. Now - 1 \in Rounds /\ Now - 1 # Now
      BY <1>0, <1>3, ClientAssumption DEF Rounds
    <3> QED
      BY <1>2, <1>5, <2>2, <2>5, <2>6, <3>1 DEF HandlerTurn
  <2>8. /\ Same /\ Now' = Now /\ Part' = Part
        /\ ChainOK' /\ JoinOK' /\ JoinedOK' /\ UserIsOK(flow[User])'
        /\ \A g \in Handlers \ {h} : HandlerOK(flow[g])'
        /\ AmountsAgree' /\ NothingBefore'
    BY <2>7, HandlerFrame
  <2>9. (RecoversAll /\ (recovered = "no" \/ haltedAt # Never))'
    BY <1>5, <2>8, RecoveredSame
  <2>10. ClockOK' /\ (Behind => Behind')
    <3>1. x.pc \notin Asking \cup Fetching
      BY <1>1 DEF Asking, Fetching
    <3> QED
      BY <1>5, <2>7, <3>1, PhaseStays
  <2>11. OrdersAgree'
    BY <1>0, <1>5, <2>2, <2>8, <2>10 DEF OrdersAgree, At
  <2>12. DisputesOK' /\ (haltDue' <=> haltDue)
    BY <1>0, <1>5, <2>8, DisputesSame
  <2>13. \A r \in 0 .. Now : /\ serverOpening(r)' = serverOpening(r)
                             /\ CheatedIn(r)' <=> CheatedIn(r)
    BY <2>8, SameFacts DEF Same
  <2>14. ProofsOK'
    <3>1. ASSUME NEW r \in Rounds, proofs'[r] # Never
          PROVE  r <= Now /\ roundJoined < r /\ proofs'[r] = serverOpening(r)' /\ ~CheatedIn(r)'
      <4>1. CASE r = Now
        <5>1. serverOpening(r)' = serverOpening(Now)
          BY <1>5, <4>1 DEF serverOpening
        <5>2. ~CheatedIn(r)'
          BY <1>5, <1>7, <4>1 DEF CheatedIn, committedBalance, serverOpening
        <5> QED
          BY <1>0, <1>2, <1>3, <2>5, <4>1, <5>1, <5>2
      <4>2. CASE r # Now
        <5>1. r <= Now /\ roundJoined < r /\ proofs[r] = serverOpening(r) /\ ~CheatedIn(r)
          BY <1>0, <2>5, <3>1, <4>2 DEF ProofsOK
        <5>2. r \in 0 .. Now
          BY <1>0, <5>1 DEF Rounds
        <5> QED
          BY <2>5, <2>13, <4>2, <5>1, <5>2
      <4> QED
        BY <4>1, <4>2
    <3> QED
      BY <1>5, <2>5, <2>8, <3>1 DEF ProofsOK
  <2>15. Audited'
    <3> SUFFICES ASSUME NEW r \in roundJoined + 1 .. Now
                 PROVE  (\/ r = Now /\ AuditPending
                         \/ proofs[r] # Never
                         \/ CheatedIn(r) /\ (r \in disputes \/ (r = Now /\ haltDue)))'
      BY <1>5, <2>8 DEF Audited
    <3>1. r \in 0 .. Now /\ r \in Rounds
      BY <1>0, <1>3, ClientAssumption DEF Rounds
    <3>2. CASE r = Now
      <4>1. serverOpening(Now) # Never
        BY <2>4 DEF Never
      <4> QED
        BY <2>5, <3>2, <4>1
    <3>3. CASE r # Now
      <4>1. proofs'[r] = proofs[r]
        BY <2>5, <3>1, <3>3
      <4> QED
        BY <1>0, <1>2, <1>5, <2>12, <2>13, <3>1, <3>3, <4>1 DEF Audited
    <3> QED
      BY <3>2, <3>3
  <2>16. ClaimsOK'
    <3>1. (\E g \in Handlers : At(g, "confirm"))'
      BY <2>3 DEF At
    <3> QED
      BY <1>0, <1>5, <2>8, <3>1 DEF ClaimsOK
  <2>17. HandlerOK(flow[h])'
    BY <1>2, <1>5, <2>3, <2>8 DEF HandlerOK, Asking, Fetching, Auditing, Claiming
  <2> QED
    BY <2>8, <2>9, <2>10, <2>11, <2>12, <2>14, <2>15, <2>16, <2>17 DEF Calm
<1> QED
  BY <1>6, <1>7

\* The dispute is taken, or there is one already, or the contract is to halt.
LEMMA OpenDisputeCalm ==
    ASSUME LedgerInv, Calm, NEW h \in Handlers, openDispute(h) PROVE Calm'
<1> DEFINE x == flow[h]
<1>0. /\ HandlerOK(x) /\ JoinedOK /\ OrdersAgree /\ ChainOK /\ Now \in Nat /\ ProofsOK /\ DisputesOK
      /\ Audited /\ ClaimsOK /\ Now \in Rounds /\ time = 4 * Now + Part /\ ClockOK
      /\ getCurrentRound = Now /\ (isHalted <=> haltedAt # Never)
  BY HandlerIs, ClockFacts DEF Calm
<1>1. /\ x.pc = "dispute" /\ Go(h, x.then)
      /\ UNCHANGED <<time, haltedAt, deposited, request, debited, recovered, serverVars,
                     databaseVars, memoryVars>>
  BY DEF openDispute, At
<1>2. /\ x.arg = Now /\ x.then = "confirm" /\ Part = 1 /\ Now > roundJoined /\ connected
      /\ CheatedIn(Now) /\ x.got.proof = proofs[Now - 1] /\ round = Now /\ quarter = Part
  BY <1>0, <1>1 DEF HandlerOK, Auditing
<1>3. roundJoined \in 0 .. Now /\ Now > 0 /\ account.roundJoined = roundJoined
  BY <1>0, <1>2 DEF JoinedOK
<1>4. UNCHANGED <<time, haltedAt, serverRound, deposited, debited, placed, credited, booked, request,
                  recovered, pending, known, proofs, account, connected, round, quarter, roundJoined>>
  BY <1>1 DEF serverVars, databaseVars, memoryVars
<1>5. /\ flow'[User] = flow[User] /\ \A g \in Handlers \ {h} : flow'[g] = flow[g]
      /\ flow'[h].pc = "confirm"
  <2>1. /\ flow'[h] = [pc |-> x.then, arg |-> x.arg, got |-> x.got, then |-> x.then]
        /\ flow'[User] = flow[User] /\ \A g \in Handlers \ {h} : flow'[g] = flow[g]
    BY <1>1, HandlerGone
  <2> QED
    BY <1>2, <2>1
<1>6. disputes' \in {disputes, disputes \cup {Now}}
  BY <1>0 DEF openDispute
<1>7. Now \in disputes' \/ haltDue
  <2>1. SUFFICES ASSUME Now \notin disputes', ~haltDue PROVE FALSE
    OBVIOUS
  <2>2. ~isHalted /\ Now \notin disputes
    BY <1>0, <1>6, <2>1 DEF ChainOK
  <2>3. disputes = {}
    <3>1. ASSUME NEW r \in disputes PROVE FALSE
      <4>1. r \in 1 .. Now /\ CheatedIn(r) /\ r # Now
        BY <1>0, <2>2, <3>1 DEF DisputesOK
      <4>2. time > 4 * (r + 1)
        BY <1>0, <1>2, <4>1
      <4> QED
        BY <2>1, <4>1, <4>2 DEF haltDue
    <3> QED
      BY <3>1
  <2>4. ~(IF x.got.proof # Never THEN x.arg = Now ELSE account.roundJoined = Now - 1)
    BY <1>0, <1>2, <2>1, <2>2, <2>3 DEF openDispute
  <2>5. proofs[Now - 1] = Never /\ roundJoined # Now - 1
    BY <1>2, <1>3, <2>4
  <2>6. Now - 1 \in roundJoined + 1 .. Now /\ Now - 1 # Now
    BY <1>2, <1>3, <1>0, <2>5
  <2> QED
    BY <1>0, <1>2, <2>3, <2>5, <2>6 DEF Audited
<1>8. HandlerTurn(h)
  BY <1>2, <1>4, <1>5, <1>6 DEF HandlerTurn
<1>9. /\ Same /\ Now' = Now /\ Part' = Part
      /\ ChainOK' /\ JoinOK' /\ JoinedOK' /\ UserIsOK(flow[User])'
      /\ \A g \in Handlers \ {h} : HandlerOK(flow[g])'
      /\ AmountsAgree' /\ NothingBefore'
  BY <1>8, HandlerFrame
<1>10. (RecoversAll /\ (recovered = "no" \/ haltedAt # Never))'
  BY <1>4, <1>9, RecoveredSame
<1>11. ClockOK' /\ (Behind => Behind')
  <2>1. x.pc \notin Asking \cup Fetching
    BY <1>1 DEF Asking, Fetching
  <2> QED
    BY <1>4, <1>8, <2>1, PhaseStays
<1>12. OrdersAgree'
  BY <1>0, <1>4, <1>5, <1>9, <1>11 DEF OrdersAgree, At
<1>13. ProofsOK'
  BY <1>0, <1>4, <1>9, ProofsSame
<1>14. \A r \in 0 .. Now : CheatedIn(r)' <=> CheatedIn(r)
  BY <1>9, SameFacts
<1>15. DisputesOK' /\ (haltDue => haltDue')
  <2>1. ASSUME NEW r \in disputes' PROVE r \in 1 .. Now /\ CheatedIn(r) /\ time <= 4 * (r + 1) + 1
    <3>1. CASE r \in disputes
      BY <1>0, <3>1 DEF DisputesOK
    <3>2. CASE r = Now
      BY <1>0, <1>2, <1>3, <3>2
    <3> QED
      BY <1>6, <2>1, <3>1, <3>2
  <2>2. \A r \in disputes' : r \in 1 .. Now /\ CheatedIn(r)' /\ time <= 4 * (r + 1) + 1
    <3>1. \A r \in 1 .. Now : r \in 0 .. Now
      BY <1>0
    <3> QED
      BY <1>14, <2>1, <3>1
  <2>3. haltDue => haltDue'
    BY <1>4, <1>6, <2>2 DEF haltDue
  <2> QED
    BY <1>4, <1>9, <2>2, <2>3 DEF DisputesOK
<1>16. Audited'
  <2> SUFFICES ASSUME NEW r \in roundJoined + 1 .. Now
               PROVE  (\/ r = Now /\ AuditPending
                       \/ proofs[r] # Never
                       \/ CheatedIn(r) /\ (r \in disputes \/ (r = Now /\ haltDue)))'
    BY <1>4, <1>9 DEF Audited
  <2>1. r \in 0 .. Now
    BY <1>0, <1>3
  <2>2. CheatedIn(r)' <=> CheatedIn(r)
    BY <1>14, <2>1
  <2>3. CASE r = Now
    BY <1>2, <1>7, <1>9, <1>15, <2>2, <2>3
  <2>4. CASE r # Now
    BY <1>0, <1>2, <1>4, <1>6, <2>2, <2>4 DEF Audited
  <2> QED
    BY <2>3, <2>4
<1>17. ClaimsOK'
  <2>1. (\E g \in Handlers : At(g, "confirm"))'
    BY <1>5 DEF At
  <2> QED
    BY <1>0, <1>4, <1>9, <2>1 DEF ClaimsOK
<1>18. HandlerOK(flow[h])'
  BY <1>2, <1>4, <1>5, <1>9 DEF HandlerOK, Asking, Fetching, Auditing, Claiming
<1> QED
  BY <1>9, <1>10, <1>11, <1>12, <1>13, <1>15, <1>16, <1>17, <1>18 DEF Calm

\* What is due is paid: the client's clock and the contract's agree.
LEMMA ClaimCalm ==
    ASSUME LedgerInv, Calm, NEW h \in Handlers, confirmWithdrawal(h) PROVE Calm'
<1> DEFINE x == flow[h]
<1>0. /\ HandlerOK(x) /\ JoinedOK /\ OrdersAgree /\ ChainOK /\ Now \in Nat /\ ProofsOK /\ DisputesOK
      /\ Audited /\ ClaimsOK /\ ClockOK
      /\ getCurrentRound = Now /\ getCurrentQuarter = Part /\ (isHalted <=> haltedAt # Never)
  BY HandlerIs DEF Calm
<1>1. /\ x.pc = "confirm"
      /\ UNCHANGED <<time, haltedAt, deposited, debited, disputes, recovered, serverVars,
                     databaseVars, memoryVars>>
  BY DEF confirmWithdrawal, At
<1>2. Part = 1 /\ round = Now /\ quarter = 1 /\ connected
  BY <1>0, <1>1 DEF HandlerOK, Claiming
<1>3. UNCHANGED <<time, haltedAt, serverRound, deposited, debited, placed, credited, booked,
                  disputes, recovered, pending, known, proofs, account, connected, round, quarter,
                  roundJoined>>
  BY <1>1 DEF serverVars, databaseVars, memoryVars
<1>4. /\ flow'[User] = flow[User] /\ \A g \in Handlers \ {h} : flow'[g] = flow[g]
      /\ flow'[h].pc \in {"idle", "confirmed"}
  <2>1. CASE End(h)
    BY <2>1, Ended
  <2>2. CASE Go(h, "confirmed")
    <3>1. /\ flow'[h] = [pc |-> "confirmed", arg |-> x.arg, got |-> x.got, then |-> x.then]
          /\ flow'[User] = flow[User] /\ \A g \in Handlers \ {h} : flow'[g] = flow[g]
      BY <2>2, HandlerGone
    <3> QED
      BY <3>1
  <2> QED
    BY <2>1, <2>2 DEF confirmWithdrawal
<1>5. request' = Never \/ (request' = request /\ ~(haltedAt = Never /\ Now >= 4 /\ request <= Now - 2))
  <2>1. SUFFICES ASSUME request # Never, haltedAt = Never, Now >= 4, request <= Now - 2
                 PROVE  request' = Never
    BY DEF confirmWithdrawal
  <2>2. confirmable(round, quarter) = Now - 2 /\ confirmable(getCurrentRound, getCurrentQuarter) = Now - 2
    BY <1>0, <1>2, <2>1 DEF confirmable
  <2>3. request \in roundJoined + 2 .. Now /\ roundJoined \in 0 .. Now
    BY <1>0, <1>2, <2>1 DEF ClaimsOK, JoinedOK
  <2>4. /\ round >= 4 /\ confirmable(round, quarter) >= request
        /\ confirmable(getCurrentRound, getCurrentQuarter) >= request
    BY <1>0, <1>2, <2>1, <2>2, <2>3
  <2> QED
    BY <2>1, <2>4 DEF confirmWithdrawal
<1>6. HandlerTurn(h)
  BY <1>2, <1>3, <1>4 DEF HandlerTurn
<1>7. /\ Same /\ Now' = Now /\ Part' = Part
      /\ ChainOK' /\ JoinOK' /\ JoinedOK' /\ UserIsOK(flow[User])'
      /\ \A g \in Handlers \ {h} : HandlerOK(flow[g])'
      /\ AmountsAgree' /\ NothingBefore'
  BY <1>6, HandlerFrame
<1>8. (RecoversAll /\ (recovered = "no" \/ haltedAt # Never))'
  BY <1>3, <1>7, RecoveredSame
<1>9. ClockOK' /\ (Behind => Behind') /\ (AuditPending => AuditPending')
  <2>1. x.pc \notin Asking \cup Fetching \cup Auditing
    BY <1>1 DEF Asking, Fetching, Auditing
  <2> QED
    BY <1>3, <1>6, <2>1, PhaseStays
<1>10. OrdersAgree'
  BY <1>0, <1>3, <1>4, <1>7, <1>9 DEF OrdersAgree, At
<1>11. ProofsOK' /\ DisputesOK' /\ (haltDue' <=> haltDue)
  BY <1>0, <1>3, <1>7, ProofsSame, DisputesSame
<1>12. Audited'
  <2> SUFFICES ASSUME NEW r \in roundJoined + 1 .. Now
               PROVE  (\/ r = Now /\ AuditPending
                       \/ proofs[r] # Never
                       \/ CheatedIn(r) /\ (r \in disputes \/ (r = Now /\ haltDue)))'
    BY <1>3, <1>7 DEF Audited
  <2>1. r \in 0 .. Now
    BY <1>0, <1>2 DEF JoinedOK
  <2>2. CheatedIn(r)' <=> CheatedIn(r)
    BY <1>7, <2>1, SameFacts
  <2> QED
    BY <1>0, <1>2, <1>3, <1>7, <1>9, <1>11, <2>2 DEF Audited
<1>13. ClaimsOK'
  BY <1>0, <1>3, <1>5, <1>7 DEF ClaimsOK
<1>14. HandlerOK(flow[h])'
  BY <1>2, <1>3, <1>4, <1>7 DEF HandlerOK, Asking, Fetching, Auditing, Claiming
<1> QED
  BY <1>7, <1>8, <1>9, <1>10, <1>11, <1>12, <1>13, <1>14 DEF Calm

\* Before the round of joining there was nothing.
LEMMA NothingYet ==
    ASSUME LedgerInv, Calm, connected, NEW k \in 0 .. Now, k <= roundJoined
    PROVE  serverOpening(k) = 0
<1>1. NothingBefore /\ Now \in Nat /\ roundJoined \in 0 .. Now /\ ChainOK
  BY ClockFacts DEF Calm, JoinedOK
<1>2. ASSUME NEW q \in Earlier(k) PROVE Net(deposited, debited, placed)[q] = 0
  <2>1. q \in Rounds /\ q < k /\ q < roundJoined
    <3>1. q \in Rounds /\ q < k
      BY DEF Earlier
    <3> QED
      BY <1>1, <3>1 DEF Rounds
  <2>2. deposited[q] = 0 /\ debited[q] = 0 /\ Cardinality(FillsOf(placed, q)) = 0
    BY <1>1, <2>1, FS_EmptySet DEF NothingBefore
  <2> QED
    BY <1>1, <2>1, <2>2, Amounts, NetIsInt
<1>3. SumFunctionOnSet(Net(deposited, debited, placed), Earlier(k)) = 0
  BY <1>2, EarlierFinite, SumZero
<1> QED
  BY <1>3, BalanceIs DEF serverOpening

\* Who has no proof had nothing when the contract halted two rounds later.
LEMMA RecoverCalm ==
    ASSUME LedgerInv, Calm, NEW h \in Handlers, recoverFunds(h) PROVE Calm'
<1> DEFINE x == flow[h]
<1>0. /\ HandlerOK(x) /\ JoinedOK /\ ChainOK /\ Now \in Nat /\ DisputesOK /\ Audited
      /\ getCurrentRound = Now /\ RecoversAll /\ time = 4 * Now + Part /\ Part \in 0 .. 3
  BY HandlerIs, ClockFacts DEF Calm
<1>1. /\ x.pc = "recoverFunds" /\ End(h)
      /\ UNCHANGED <<time, haltedAt, deposited, request, debited, disputes, serverVars,
                     databaseVars, memoryVars>>
  BY DEF recoverFunds, At
<1>2. haltedAt # Never /\ connected
  BY <1>0, <1>1 DEF HandlerOK
<1>3. UNCHANGED <<time, haltedAt, serverRound, deposited, debited, placed, credited, booked, request,
                  disputes, pending, known, proofs, account, connected, round, quarter, roundJoined>>
  BY <1>1 DEF serverVars, databaseVars, memoryVars
<1>4. /\ flow'[User] = flow[User] /\ \A g \in Handlers \ {h} : flow'[g] = flow[g]
      /\ flow'[h].pc = "idle"
  BY <1>1, Ended
<1>5. HandlerTurn(h)
  BY <1>2, <1>3, <1>4 DEF HandlerTurn
<1>6. Same /\ Now' = Now
  BY <1>5, HandlerFrame
<1>7. (recovered = "no" \/ haltedAt # Never)'
  BY <1>2, <1>3
<1>8. RecoversAll'
  <2>1. CASE recovered' = recovered
    BY <2>1, <1>6, RecoveredSame
  <2>2. CASE recovered' # recovered
    <3>1. SUFFICES ASSUME recovered' = "onChain", Now >= 2 PROVE serverOpening(Now - 2) = 0
      <4>1. getCurrentRound' = Now
        BY <1>0, <1>3 DEF getCurrentRound
      <4>2. serverOpening(Now - 2)' = serverOpening(Now - 2)
        BY <1>3, <1>6 DEF serverOpening
      <4> QED
        BY <1>3, <1>6, <4>1, <4>2 DEF RecoversAll, serverOpening
    <3> DEFINE k == Now - 2
    <3>2. k \in 0 .. Now /\ k # Now /\ proofs[k] = Never
      BY <1>0, <2>2, <3>1 DEF recoverFunds
    <3>3. roundJoined \in 0 .. Now
      BY <1>0, <1>2 DEF JoinedOK
    <3>4. CASE k <= roundJoined
      <4> HIDE DEF k
      <4>1. serverOpening(k) = 0
        BY <1>2, <3>2, <3>4, NothingYet
      <4> QED
        BY <4>1 DEF k
    <3>5. CASE k > roundJoined
      <4>1. k \in roundJoined + 1 .. Now
        BY <3>2, <3>3, <3>5
      <4>2. k \in disputes
        BY <1>0, <1>2, <3>2, <4>1 DEF Audited
      <4>3. time <= 4 * (k + 1) + 1
        BY <1>0, <4>2 DEF DisputesOK
      <4> QED
        BY <1>0, <4>3
    <3> QED
      BY <1>0, <3>2, <3>3, <3>4, <3>5
  <2> QED
    BY <2>1, <2>2
<1>9. /\ ClockOK' /\ (Behind => Behind') /\ (AuditPending => AuditPending')
      /\ (\E g \in Handlers : At(g, "confirm")) => (\E g \in Handlers : At(g, "confirm"))'
  <2>1. x.pc \notin Asking \cup Fetching \cup Auditing \cup {"confirm"}
    BY <1>1 DEF Asking, Fetching, Auditing
  <2> QED
    BY <1>3, <1>5, <2>1, PhaseStays
<1>10. HandlerOK(flow[h])'
  BY <1>4, IdleHandlerIsOK
<1> QED
  BY <1>3, <1>5, <1>7, <1>8, <1>9, <1>10, HandlerKeeps

LEMMA HaltCalm ==
    ASSUME LedgerInv, Calm, NEW h \in Handlers, Halt(h) PROVE Calm'
<1>0. /\ ChainOK /\ JoinOK /\ JoinedOK /\ ClockOK /\ UserIsOK(flow[User])
      /\ AmountsAgree /\ OrdersAgree /\ NothingBefore /\ ProofsOK /\ DisputesOK /\ Audited
      /\ ClaimsOK /\ (recovered = "no" \/ haltedAt # Never) /\ time \in Nat
      /\ \A g \in Handlers : HandlerOK(flow[g])
  BY ClockFacts DEF Calm
<1>1. /\ haltedAt = Never /\ haltDue /\ haltedAt' = time
      /\ UNCHANGED <<time, deposited, request, debited, disputes, recovered, serverVars,
                     databaseVars, memoryVars>>
  BY DEF Halt, isHalted
<1>2. UNCHANGED <<time, serverRound, deposited, debited, placed, credited, booked, request, admitted,
                  disputes, recovered, pending, known, proofs, account, connected, round, quarter,
                  roundJoined>>
  BY <1>1 DEF serverVars, databaseVars, memoryVars
<1>3. connected
  BY <1>0, <1>1 DEF JoinOK, haltDue
<1>4. flow[h].pc = "idle" /\ Go(h, "recoverFunds")
  BY <1>3 DEF Halt, Notify, At
<1>5. /\ flow'[h].pc = "recoverFunds" /\ flow'[User] = flow[User]
      /\ \A g \in Handlers \ {h} : flow'[g] = flow[g]
  <2>1. /\ flow'[h] = [pc |-> "recoverFunds", arg |-> flow[h].arg, got |-> flow[h].got,
                       then |-> flow[h].then]
        /\ flow'[User] = flow[User] /\ \A g \in Handlers \ {h} : flow'[g] = flow[g]
    BY <1>4, HandlerGone
  <2> QED
    BY <2>1
<1>6. /\ Now' = Now /\ Part' = Part /\ haltedAt' # Never
      /\ haltDue' <=> haltDue
      /\ \A r : serverOpening(r)' = serverOpening(r)
      /\ \A r : CheatedIn(r)' <=> CheatedIn(r)
      /\ \A r : committedBalance(r)' = committedBalance(r)
  BY <1>0, <1>1, <1>2 DEF Now, Part, Never, haltDue, CheatedIn, committedBalance, serverOpening
<1>7. ChainOK'
  BY <1>0, <1>1, <1>2, <1>6 DEF ChainOK, serverOpening
<1>8. JoinOK' /\ JoinedOK' /\ UserIsOK(flow[User])' /\ AmountsAgree' /\ NothingBefore'
  BY <1>0, <1>2, <1>3, <1>5, <1>6, AmountsKept, NothingKept DEF JoinOK, JoinedOK, UserIsOK, OneNew, At
<1>9. ASSUME NEW g \in Handlers
      PROVE  /\ flow[g].pc \in Asking \cup Fetching \cup Auditing \cup {"confirm"} => flow'[g] = flow[g]
             /\ HandlerOK(flow[g])'
  <2>1. CASE g = h
    BY <1>3, <1>2, <1>4, <1>5, <1>6, <2>1 DEF HandlerOK, Asking, Fetching, Auditing, Claiming
  <2>2. CASE g # h
    <3>1. flow'[g] = flow[g]
      BY <1>5, <2>2
    <3>2. committedBalance(Now)' = committedBalance(Now) /\ (CheatedIn(Now)' <=> CheatedIn(Now))
      BY <1>2, <1>6 DEF committedBalance, CheatedIn, serverOpening
    <3> QED
      BY <1>0, <1>2, <1>6, <3>1, <3>2 DEF HandlerOK
  <2> QED
    BY <2>1, <2>2
<1>10. ClockOK'
  <2>1. {"askRound", "setRound"} \subseteq Asking
    BY DEF Asking
  <2> QED
    BY <1>0, <1>2, <1>6, <1>9, <2>1 DEF ClockOK
<1>11. Behind => Behind'
  BY <1>2, <1>6, <1>9 DEF Behind
<1>12. AuditPending => AuditPending'
  BY <1>2, <1>6, <1>9 DEF AuditPending
<1>13. OrdersAgree'
  BY <1>0, <1>2, <1>5, <1>6, <1>11 DEF OrdersAgree, At
<1>14. ProofsOK' /\ DisputesOK'
  BY <1>0, <1>2, <1>6 DEF ProofsOK, DisputesOK
<1>15. Audited'
  BY <1>0, <1>2, <1>6, <1>12 DEF Audited
<1>16. ClaimsOK'
  BY <1>0, <1>2, <1>6 DEF ClaimsOK
<1>17. RecoversAll' /\ (recovered = "no" \/ haltedAt # Never)'
  BY <1>0, <1>1, <1>2 DEF RecoversAll
<1> QED
  BY <1>7, <1>8, <1>9, <1>10, <1>13, <1>14, <1>15, <1>16, <1>17 DEF Calm

(* A new block. *)

Passes(k) == k \in {0, 1} /\ time' = time + k /\ time' \in 0 .. 4 * MaxRound + 3

LEMMA Quarters ==
    ASSUME NEW m \in Nat, NEW t \in Nat, NEW u \in Nat, u = t \/ u = t + 1, u <= 4 * m + 3
    PROVE  /\ \/ u \div 4 = t \div 4 /\ u % 4 = (t % 4) + (u - t)
              \/ u \div 4 = (t \div 4) + 1 /\ t % 4 = 3 /\ u % 4 = 0
           /\ u \div 4 \in 0 .. m /\ u \div 4 >= t \div 4 /\ u % 4 \in 0 .. 3
OBVIOUS

LEMMA TimePasses ==
    ASSUME ChainOK, NEW k, Passes(k)
    PROVE  /\ Now' \in Rounds /\ Now' \in Nat /\ Part' \in 0 .. 3 /\ Now' >= Now
           /\ \/ Now' = Now /\ Part' = Part + k
              \/ Now' = Now + 1 /\ Part = 3 /\ Part' = 0
<1>1. time \in Nat /\ MaxRound \in Nat
  BY ClockFacts, ClientAssumption
<1>2. time' \in Nat /\ (time' = time \/ time' = time + 1) /\ time' <= 4 * MaxRound + 3 /\ k = time' - time
  BY <1>1 DEF Passes
<1>3. /\ \/ time' \div 4 = time \div 4 /\ time' % 4 = (time % 4) + (time' - time)
         \/ time' \div 4 = (time \div 4) + 1 /\ time % 4 = 3 /\ time' % 4 = 0
      /\ time' \div 4 \in 0 .. MaxRound /\ time' \div 4 >= time \div 4 /\ time' % 4 \in 0 .. 3
  BY <1>1, <1>2, Quarters
<1>4. /\ Now = time \div 4 /\ Now' = time' \div 4 /\ Part = time % 4 /\ Part' = time' % 4
  BY DEF Now, Part
<1>5. Now' \in Rounds /\ Now' \in Nat /\ Part' \in 0 .. 3 /\ Now' >= Now
  BY <1>1, <1>3, <1>4 DEF Rounds
<1>6. \/ Now' = Now /\ Part' = Part + k
      \/ Now' = Now + 1 /\ Part = 3 /\ Part' = 0
  BY <1>2, <1>3, <1>4
<1> QED
  BY <1>5, <1>6

\* The round begins with what was free in the one before, or held by orders that are open.
LEMMA NextOpening ==
    ASSUME ChainOK, Now + 1 \in Rounds, LedgerInv
    PROVE  /\ serverOpening(Now + 1) >= 0
           /\ Free(deposited, debited, placed, Now + 1) >= 0
<1> DEFINE n == Now + 1
           open == OrdersIn(placed, Now, {"open"})
<1>1. /\ deposited \in [Rounds -> Nat] /\ debited \in [Rounds -> Nat] /\ Now \in Nat
      /\ n \in Rounds /\ n \in Nat
  BY Amounts, ClockFacts
<1>2. Free(deposited, debited, placed, Now) = Balance(deposited, debited, placed, n) - Cardinality(open)
  BY DEF Free, OrdersIn
<1>3. Cardinality(open) \in Nat /\ Balance(deposited, debited, placed, n) \in Int
  BY <1>1, OrdersCounted, BalanceIsInt
<1>4. Free(deposited, debited, placed, Now) >= 0
  BY DEF ChainOK
<1>5. Balance(deposited, debited, placed, n) >= 0
  BY <1>2, <1>3, <1>4
<1>6. OrdersIn(placed, n, {"open", "filled"}) = {}
  <2>1. \A o \in Orders : placed[o].status # "none" => placed[o].round # n
    BY <1>1 DEF ChainOK
  <2> QED
    BY <2>1 DEF OrdersIn
<1>7. Cardinality(OrdersIn(placed, n, {"open", "filled"})) = 0
  BY <1>6, FS_EmptySet
<1>8. deposited[n] = 0 /\ debited[n] = 0
  BY <1>1 DEF ChainOK
<1>9. Free(deposited, debited, placed, n)
         = Balance(deposited, debited, placed, n) + deposited[n] - debited[n]
             - Cardinality(OrdersIn(placed, n, {"open", "filled"}))
  BY <1>1, FreeIs
<1> HIDE DEF n
<1>10. Free(deposited, debited, placed, n) >= 0
  BY <1>3, <1>5, <1>7, <1>8, <1>9
<1> QED
  BY <1>5, <1>10 DEF n, serverOpening

\* The block finds everyone idle, and wakes one handler of a client that listens.
BlockComes(h, k) ==
    /\ InTime /\ Passes(k) /\ haltedAt = Never /\ ~haltDue
    /\ \A g \in Handlers : flow[g].pc = "idle"
    /\ flow[User].pc = "idle" /\ flow'[User] = flow[User]
    /\ \A g \in Handlers \ {h} : flow'[g] = flow[g]
    /\ connected => flow'[h].pc = "askRound" /\ round = Now /\ quarter = Part
    /\ ~connected => flow' = flow
    /\ serverRound' = Now'
    /\ UNCHANGED <<haltedAt, deposited, request, debited, disputes, recovered, admitted,
                   placed, account, known, credited, booked, pending, proofs, connected,
                   round, quarter, roundJoined>>

LEMMA BlockIs ==
    ASSUME LedgerInv, Calm, InTime, NEW h \in Handlers, NEW k \in {0, 1}, NewBlock(h, k)
    PROVE  BlockComes(h, k)
<1>0. ChainOK /\ ClockOK /\ time \in Nat /\ MaxRound \in Nat
  BY ClockFacts, ClientAssumption DEF Calm
<1>1. /\ AllIdle /\ haltedAt = Never /\ ~haltDue /\ time' = time + k /\ time + k < 4 * (MaxRound + 1)
      /\ serverRound' = time' \div 4 /\ Notify(h, "askRound")
      /\ UNCHANGED <<haltedAt, deposited, request, debited, disputes, recovered, admitted,
                     placed, databaseVars, memoryVars>>
  BY DEF NewBlock, InTime, isHalted
<1>2. Passes(k) /\ serverRound' = Now'
  BY <1>0, <1>1 DEF Passes, Now
<1>3. /\ \A g \in Handlers : flow[g].pc = "idle"
      /\ flow[User].pc = "idle"
  BY <1>1, FlowsAre DEF AllIdle, At
<1>4. connected => round = Now /\ quarter = Part
  BY <1>0, <1>3 DEF ClockOK, Asking
<1>5. CASE connected
  <2>1. Go(h, "askRound")
    BY <1>1, <1>5 DEF Notify
  <2>2. /\ flow'[h] = [pc |-> "askRound", arg |-> flow[h].arg, got |-> flow[h].got,
                       then |-> flow[h].then]
        /\ flow'[User] = flow[User] /\ \A g \in Handlers \ {h} : flow'[g] = flow[g]
    BY <2>1, HandlerGone
  <2>3. flow'[h].pc = "askRound"
    BY <2>2
  <2> QED
    BY <1>1, <1>2, <1>3, <1>4, <1>5, <2>2, <2>3 DEF BlockComes, databaseVars, memoryVars
<1>6. CASE ~connected
  <2>1. flow' = flow
    BY <1>1, <1>6 DEF Notify
  <2> QED
    BY <1>1, <1>2, <1>3, <1>6, <2>1 DEF BlockComes, databaseVars, memoryVars
<1> QED
  BY <1>5, <1>6

\* With everyone idle, the fills of the rounds before are in and the audit is over.
LEMMA NothingIsPending ==
    ASSUME \A g \in Handlers : flow[g].pc = "idle"
    PROVE  /\ ~Behind /\ (AuditPending => Part = 0) /\ ~\E g \in Handlers : At(g, "confirm")
BY DEF Behind, AuditPending, Asking, Fetching, Auditing, At

LEMMA BlockChain ==
    ASSUME LedgerInv, Calm, NEW h \in Handlers, NEW k, BlockComes(h, k)
    PROVE  /\ ChainOK' /\ JoinOK' /\ JoinedOK' /\ ClockOK' /\ UserIsOK(flow[User])'
           /\ (\A g \in Handlers : HandlerOK(flow[g])')
           /\ AmountsAgree' /\ NothingBefore'
<1>0. /\ ChainOK /\ JoinOK /\ JoinedOK /\ AmountsAgree /\ NothingBefore /\ Now \in Nat
  BY ClockFacts DEF Calm
<1>1. /\ Now' \in Rounds /\ Now' \in Nat /\ Part' \in 0 .. 3 /\ Now' >= Now
      /\ Now' = Now \/ Now' = Now + 1
      /\ time' \in 0 .. 4 * MaxRound + 3
  BY <1>0, TimePasses DEF BlockComes, Passes
<1>2. ChainOK'
  <2>1. serverOpening(Now') >= 0 /\ Free(deposited, debited, placed, Now') >= 0
    <3>1. CASE Now' = Now
      BY <1>0, <3>1 DEF ChainOK
    <3>2. CASE Now' = Now + 1
      BY <1>0, <1>1, <3>2, NextOpening
    <3> QED
      BY <1>1, <3>1, <3>2
  <2>2. \A r \in 0 .. Now' : serverOpening(r) >= 0
    <3> SUFFICES ASSUME NEW r \in 0 .. Now' PROVE serverOpening(r) >= 0
      OBVIOUS
    <3>1. r = Now' \/ r \in 0 .. Now
      BY <1>0, <1>1
    <3> QED
      BY <1>0, <2>1, <3>1 DEF ChainOK
  <2>3. /\ serverOpening(Now)' >= 0 /\ Free(deposited, debited, placed, Now)' >= 0
        /\ (\A r \in 0 .. Now : serverOpening(r) >= 0)'
    BY <2>1, <2>2 DEF BlockComes, serverOpening
  <2>4. (\A o \in Orders :
          /\ placed[o].status \in {"none", "open", "filled", "canceled"}
          /\ placed[o].status # "none" => placed[o].round \in 0 .. Now)'
    BY <1>0, <1>1 DEF ChainOK, BlockComes
  <2>5. (\A r \in Rounds : r > Now => deposited[r] = 0 /\ debited[r] = 0)'
    BY <1>0, <1>1 DEF ChainOK, BlockComes, Rounds
  <2> QED
    BY <1>0, <1>1, <2>3, <2>4, <2>5 DEF ChainOK, BlockComes
<1>3. JoinOK' /\ JoinedOK'
  <2>1. JoinOK'
    BY <1>0 DEF JoinOK, BlockComes, At, Joining
  <2>2. JoinedOK'
    BY <1>0, <1>1 DEF JoinedOK, BlockComes, Joining
  <2> QED
    BY <2>1, <2>2
<1>4. ASSUME NEW g \in Handlers
      PROVE  HandlerOK(flow[g])'
  <2>1. \/ flow'[g].pc = "idle"
        \/ flow'[g].pc = "askRound" /\ connected'
    BY DEF BlockComes
  <2> QED
    BY <2>1 DEF HandlerOK, Asking, Fetching, Auditing, Claiming
<1>5. ClockOK'
  BY DEF BlockComes, ClockOK, Asking
<1>6. UserIsOK(flow[User])'
  <2>1. flow'[User].pc = "idle"
    BY DEF BlockComes
  <2> QED
    BY <2>1, PlainUserIsOK
<1>7. AmountsAgree'
  BY <1>0 DEF AmountsAgree, BlockComes, At
<1>8. NothingBefore'
  BY <1>0, NothingKept DEF BlockComes
<1> QED
  BY <1>2, <1>3, <1>4, <1>5, <1>6, <1>7, <1>8

LEMMA BlockOrders ==
    ASSUME LedgerInv, Calm, NEW h \in Handlers, NEW k, BlockComes(h, k)
    PROVE  OrdersAgree'
<1>0. ChainOK /\ JoinOK /\ OrdersAgree /\ Now \in Nat /\ ~Behind
  BY ClockFacts, NothingIsPending DEF Calm, BlockComes
<1>1. UNCHANGED <<known, placed, quarter, connected>> /\ flow[User].pc = "idle"
  BY DEF BlockComes
<1>2. \/ Now' = Now
      \/ Now' = Now + 1 /\ Part = 3 /\ Part' = 0
  BY <1>0, TimePasses DEF BlockComes
<1> SUFFICES ASSUME NEW o \in Orders
             PROVE  (/\ known[o].status \in {"none", "open", "filled", "canceled"}
                     /\ placed[o].status # "none" /\ known[o].status = "none" =>
                           At(User, "insertOrder") /\ flow[User].got = {o} /\ placed[o].round = Now
                     /\ placed[o].status = "filled" /\ known[o].status = "open" =>
                           placed[o].round = Now \/ (Behind /\ placed[o].round = Now - 1)
                     /\ placed[o].status = "canceled" /\ known[o].status # "canceled" =>
                           Canceling(flow[User], o) /\ placed[o].round = Now)'
  BY DEF OrdersAgree
<1>3. /\ known[o].status \in {"none", "open", "filled", "canceled"}
      /\ ~(placed[o].status # "none" /\ known[o].status = "none")
      /\ placed[o].status = "filled" /\ known[o].status = "open" => placed[o].round = Now
      /\ ~(placed[o].status = "canceled" /\ known[o].status # "canceled")
  <2>1. ~Canceling(flow[User], o)
    <3>1. flow[User].pc \in UserPlaces \ Fetching
      BY <1>1 DEF UserPlaces, Fetching
    <3> QED
      BY <3>1, NotCanceling
  <2> QED
    BY <1>0, <1>1, <2>1 DEF OrdersAgree, At
<1>4. placed[o].status = "filled" /\ known[o].status = "open" /\ Now' # Now =>
         Behind' /\ placed[o].round = Now' - 1
  <2>1. SUFFICES ASSUME placed[o].status = "filled", known[o].status = "open", Now' # Now
                 PROVE  Behind' /\ placed[o].round = Now' - 1
    OBVIOUS
  <2>2. connected
    BY <1>0, <2>1 DEF JoinOK
  <2>3. flow'[h].pc \in Asking /\ quarter' = 3
    BY <1>2, <2>1, <2>2 DEF BlockComes, Asking
  <2>4. Behind'
    BY <1>2, <2>1, <2>3 DEF Behind
  <2> QED
    BY <1>0, <1>2, <1>3, <2>1, <2>4
<1> QED
  BY <1>1, <1>3, <1>4

LEMMA BlockAudits ==
    ASSUME LedgerInv, Calm, NEW h \in Handlers, NEW k, BlockComes(h, k)
    PROVE  ProofsOK' /\ DisputesOK' /\ Audited' /\ ClaimsOK' /\ RecoversAll'
           /\ (recovered = "no" \/ haltedAt # Never)'
<1>0. /\ ChainOK /\ JoinOK /\ JoinedOK /\ ProofsOK /\ DisputesOK /\ Audited /\ ClaimsOK
      /\ Now \in Nat /\ Part \in 0 .. 3 /\ (recovered = "no" \/ haltedAt # Never)
      /\ time \in Nat /\ k \in {0, 1}
      /\ (AuditPending => Part = 0) /\ ~\E g \in Handlers : At(g, "confirm")
  BY ClockFacts, NothingIsPending DEF Calm, BlockComes, Passes
<1>1. /\ Now' \in Nat /\ Part' \in 0 .. 3 /\ Now' >= Now
      /\ \/ Now' = Now /\ Part' = Part + k
         \/ Now' = Now + 1 /\ Part = 3 /\ Part' = 0
      /\ time' = time + k
  BY <1>0, TimePasses DEF BlockComes, Passes
<1>2. UNCHANGED <<haltedAt, request, disputes, recovered, proofs, connected, quarter, roundJoined>>
  BY DEF BlockComes
<1>3. /\ \A r : serverOpening(r)' = serverOpening(r)
      /\ \A r : CheatedIn(r)' <=> CheatedIn(r)
  BY DEF BlockComes, CheatedIn, committedBalance, serverOpening
<1>4. connected /\ Part' \in {0, 1} => AuditPending' \/ Part = 1
  <2>1. connected /\ Part' = 1 => Part = 1 \/ (quarter' = 0 /\ flow'[h].pc \in Asking)
    BY <1>0, <1>1 DEF BlockComes, Asking
  <2> QED
    BY <2>1 DEF AuditPending
<1>5. ProofsOK'
  BY <1>0, <1>1, <1>2, <1>3 DEF ProofsOK, Rounds
<1>6. DisputesOK'
  <2>1. ASSUME NEW r \in disputes
        PROVE  CheatedIn(r) /\ time <= 4 * (r + 1) /\ r \in 1 .. Now
    BY <1>0 DEF DisputesOK, BlockComes, haltDue
  <2>2. ASSUME NEW r \in disputes PROVE CheatedIn(r)' /\ time' <= 4 * (r + 1) + 1 /\ r \in 1 .. Now'
    BY <1>0, <1>1, <1>3, <2>1
  <2> QED
    BY <1>2, <2>2 DEF DisputesOK
<1>7. Audited'
  <2> SUFFICES ASSUME connected, NEW r \in roundJoined + 1 .. Now'
               PROVE  \/ r = Now' /\ AuditPending'
                      \/ proofs[r] # Never
                      \/ CheatedIn(r) /\ r \in disputes
    BY <1>2, <1>3 DEF Audited
  <2>1. roundJoined \in 0 .. Now
    BY <1>0 DEF JoinedOK
  <2>2. CASE r = Now' /\ (Part' = 0 \/ (Part' = 1 /\ Part = 0))
    BY <1>4, <2>2 DEF AuditPending
  <2>3. CASE ~(r = Now' /\ (Part' = 0 \/ (Part' = 1 /\ Part = 0)))
    <3>1. r \in roundJoined + 1 .. Now /\ (r = Now => Part # 0)
      BY <1>0, <1>1, <2>1, <2>3
    <3> QED
      BY <1>0, <3>1 DEF Audited, BlockComes
  <2> QED
    BY <2>2, <2>3
<1>8. ClaimsOK'
  <2> SUFFICES ASSUME request # Never
               PROVE  /\ request \in roundJoined + 2 .. Now'
                      /\ haltedAt = Never /\ Now' >= 4 /\ request <= Now' - 2 =>
                            request = Now' - 2 /\ AuditPending'
    BY <1>2 DEF ClaimsOK
  <2>1. connected
    BY <1>0 DEF JoinOK
  <2>2. request \in roundJoined + 2 .. Now /\ roundJoined \in 0 .. Now
    BY <1>0, <2>1 DEF ClaimsOK, JoinedOK
  <2>0. request \in roundJoined + 2 .. Now'
    BY <1>0, <1>1, <2>2
  <2>3. SUFFICES ASSUME haltedAt = Never, Now' >= 4, request <= Now' - 2
                 PROVE  request = Now' - 2 /\ AuditPending'
    BY <2>0
  <2>4. CASE Now' = Now
    <3>1. request = Now - 2 /\ Part = 0
      BY <1>0, <2>3, <2>4 DEF ClaimsOK
    <3>2. Part' \in {0, 1}
      BY <1>0, <1>1, <2>4, <3>1
    <3> QED
      BY <1>4, <2>1, <2>4, <3>1, <3>2
  <2>5. CASE Now' = Now + 1 /\ Part = 3 /\ Part' = 0
    <3>1. ~(Now >= 4 /\ request <= Now - 2)
      BY <1>0, <2>3, <2>5 DEF ClaimsOK
    <3>2. request = Now' - 2
      BY <1>0, <2>2, <2>3, <2>5, <3>1
    <3>3. AuditPending'
      BY <2>5 DEF AuditPending
    <3> QED
      BY <3>2, <3>3
  <2> QED
    BY <1>1, <2>4, <2>5
<1>9. RecoversAll' /\ (recovered = "no" \/ haltedAt # Never)'
  <2>1. recovered = "no"
    BY <1>0 DEF BlockComes
  <2> QED
    BY <1>2, <2>1 DEF RecoversAll
<1> QED
  BY <1>5, <1>6, <1>7, <1>8, <1>9

LEMMA NewBlockCalm ==
    ASSUME LedgerInv, Calm, InTime, NEW h \in Handlers, NEW k \in {0, 1}, NewBlock(h, k)
    PROVE  Calm'
<1>1. BlockComes(h, k)
  BY BlockIs
<1> QED
  BY <1>1, BlockChain, BlockOrders, BlockAudits DEF Calm

(* The steps together. *)

LEMMA StutterCalm == ASSUME Calm, UNCHANGED clientVars PROVE Calm'
<1>1. /\ UNCHANGED <<time, haltedAt, deposited, request, debited, disputes, recovered,
                     serverRound, admitted, placed, account, known, credited, booked, pending,
                     proofs, connected, round, quarter, roundJoined>>
      /\ flow' = flow
  BY DEF clientVars, chainVars, serverVars, databaseVars, memoryVars
<1>2. /\ ChainOK /\ JoinOK /\ JoinedOK /\ UserIsOK(flow[User]) /\ AmountsAgree /\ OrdersAgree
      /\ NothingBefore
  BY DEF Calm
<1>3. Same /\ HandlersStay /\ ClientStays /\ FillsOf(placed, Now - 1)' = FillsOf(placed, Now - 1)
  BY <1>1, TablesSame, SameFacts DEF HandlersStay, ClientStays
<1>4. /\ ClockOK' /\ (\A h \in Handlers : HandlerOK(flow[h])')
      /\ ProofsOK' /\ DisputesOK' /\ Audited' /\ RecoversAll'
      /\ (recovered = "no" \/ haltedAt # Never)' /\ ClaimsOK'
      /\ (Behind' <=> Behind) /\ Now' = Now /\ Part' = Part
  BY <1>1, <1>3, UserFrame
<1>5. ChainOK' /\ AmountsAgree' /\ NothingBefore'
  <2>1. booked' \in [Rounds -> Nat]
    BY <1>1, <1>2 DEF ChainOK
  <2> QED
    BY <1>1, <1>2, <2>1, ChainKept, AmountsKept, NothingKept DEF At
<1>6. JoinOK' /\ JoinedOK'
  BY <1>1, <1>2, <1>4 DEF JoinOK, JoinedOK, At
<1>7. UserIsOK(flow[User])' /\ OrdersAgree'
  BY <1>1, <1>2, <1>4 DEF UserIsOK, OneNew, OrdersAgree, At
<1> QED
  BY <1>4, <1>5, <1>6, <1>7 DEF Calm

\* The places at which a user is not found that nothing has happened to.
LEMMA UserIsElsewhere ==
    ASSUME Calm,
           NEW pc \in {"askRound", "setRound", "askQuarter", "goToQuarter", "fetchProofs",
                       "checkProofs", "openDispute", "dispute", "recoverFunds", "syncFetch",
                       "synced"}
    PROVE  flow[User].pc # pc
<1>1. flow[User].pc \in UserPlaces \cup Orders
  BY DEF Calm, UserIsOK
<1>2. pc \notin UserPlaces
  BY DEF UserPlaces, Joining, Claiming, Fetching
<1>3. pc \notin Orders
  BY PlaceIsNoOrder DEF Places
<1> QED
  BY <1>1, <1>2, <1>3

LEMMA EnvironmentCalm ==
    ASSUME LedgerInv, LedgerInv', Calm, Undisturbed, Environment PROVE Calm'
<1>1. ~enterRound
  <2>1. serverRound = Now
    BY DEF Calm, ChainOK
  <2> QED
    BY <2>1 DEF enterRound, Now
<1>2. InTime
  BY DEF Undisturbed
<1>3. ASSUME NEW h \in Handlers, Halt(h) PROVE Calm'
  BY <1>3, HaltCalm
<1>4. ASSUME NEW h \in Handlers, NEW k \in {0, 1}, NewBlock(h, k) PROVE Calm'
  BY <1>2, <1>4, NewBlockCalm
<1>5. ASSUME NEW o \in Orders, fill(o) PROVE Calm'
  BY <1>5, FillCalm
<1> QED
  BY <1>1, <1>3, <1>4, <1>5 DEF Environment

LEMMA UserStepCalm ==
    ASSUME LedgerInv, LedgerInv', Calm, Undisturbed, UserStep PROVE Calm'
<1>1. InTime
  BY DEF Undisturbed
<1>2. ~syncFetch /\ ~synced
  BY UserIsElsewhere DEF syncFetch, synced, At
<1>3. CASE join \/ syncTime \/ admit \/ validateAuthorization
  BY <1>3, JoinCalm
<1>4. CASE connect \/ syncFills \/ syncProofs
  BY <1>4, ConnectCalm, SyncFillsCalm, SyncProofsCalm
<1>5. CASE depositsToken \/ creditDeposit
  BY <1>5, DepositsTokenCalm, CreditDepositCalm
<1>6. CASE userConfirms \/ withdraw \/ initiateWithdrawal \/ bookWithdrawal
  BY <1>1, <1>6, UserConfirmsCalm, WithdrawCalm, InitiateWithdrawalCalm, BookWithdrawalCalm
<1>7. ASSUME NEW o \in Orders, createOrder(o) \/ cancelOrder(o) \/ cancelApproval(o) PROVE Calm'
  BY <1>7, CreateOrderCalm, CancelOrderCalm, CancelApprovalCalm
<1>8. CASE sendOrder \/ insertOrder
  BY <1>8, SendOrderCalm, InsertOrderCalm
<1> QED
  BY <1>2, <1>3, <1>4, <1>5, <1>6, <1>7, <1>8 DEF UserStep

LEMMA FlowStepCalm ==
    ASSUME LedgerInv, LedgerInv', Calm, Undisturbed, NEW f \in Flows, FlowStep(f) PROVE Calm'
<1>1. CASE f \in Handlers
  <2>1. CASE askRound(f) \/ setRound(f) \/ askQuarter(f) \/ goToQuarter(f)
    BY <1>1, <2>1, AskingCalm, GoToQuarterCalm
  <2>2. CASE fetchFills(f) \/ fetchProofs(f) \/ openBalanceDispute(f)
    BY <1>1, <2>2, FetchingCalm
  <2>3. CASE insertFills(f) \/ checkProofs(f) \/ openDispute(f)
    BY <1>1, <2>3, InsertFillsCalm, CheckProofsCalm, OpenDisputeCalm
  <2>4. CASE confirmWithdrawal(f) \/ confirmWithdrawalAsync(f) \/ recoverFunds(f)
    BY <1>1, <2>4, ClaimCalm, PaidCalm, RecoverCalm
  <2> QED
    BY <2>1, <2>2, <2>3, <2>4 DEF FlowStep
<1>2. CASE f = User
  <2>1. /\ ~askRound(f) /\ ~setRound(f) /\ ~askQuarter(f) /\ ~goToQuarter(f)
        /\ ~fetchProofs(f) /\ ~checkProofs(f) /\ ~openBalanceDispute(f) /\ ~openDispute(f)
        /\ ~recoverFunds(f)
    BY <1>2, UserIsElsewhere DEF askRound, setRound, askQuarter, goToQuarter, fetchProofs,
       checkProofs, openBalanceDispute, openDispute, recoverFunds, At
  <2>2. CASE fetchFills(f)
    BY <1>2, <2>2, UserFetchesCalm
  <2>3. CASE insertFills(f)
    BY <1>2, <2>3, UserInsertsFillsCalm
  <2>4. CASE confirmWithdrawal(f) \/ confirmWithdrawalAsync(f)
    BY <1>2, <2>4, UserIsPaidCalm
  <2> QED
    BY <2>1, <2>2, <2>3, <2>4 DEF FlowStep
<1> QED
  BY <1>1, <1>2 DEF Flows

\* Faults are counted, and none is forgotten.
LEMMA FaultsAreCounted ==
    ASSUME [ClientNext]_clientVars
    PROVE  /\ faults' = faults \/ faults' = faults + 1
           /\ leave \/ crash => faults' = faults + 1
<1>1. CASE UNCHANGED clientVars
  <2>1. (~leave /\ ~crash) \/ faults' = faults + 1
    BY DEF leave, crash, Fault
  <2> QED
    BY <1>1, <2>1 DEF clientVars
<1>2. CASE Environment
  BY <1>2 DEF Environment, Halt, NewBlock, enterRound, fill, leave, crash, Fault
<1>3. CASE leave \/ crash
  BY <1>3 DEF leave, crash, Fault
<1>4. ASSUME UserStep PROVE faults' = faults \/ faults' = faults + 1
  <2>1. CASE join \/ syncTime \/ admit \/ validateAuthorization \/ connect
    BY <2>1 DEF join, syncTime, admit, validateAuthorization, connect, Answered, Refuse,
                Fault, NoFault, onlyMemory
  <2>2. CASE syncFills \/ syncFetch \/ syncProofs \/ synced
    BY <2>2 DEF syncFills, syncFetch, syncProofs, synced, FillsGiven, Refuse, Fault, NoFault,
                onlyMemory, onlyFlow
  <2>3. CASE depositsToken \/ creditDeposit
    BY <2>3 DEF depositsToken, creditDeposit
  <2>4. CASE userConfirms \/ withdraw \/ initiateWithdrawal \/ bookWithdrawal
    BY <2>4 DEF userConfirms, withdraw, initiateWithdrawal, bookWithdrawal, onlyFlow, onlyMemory,
                NoFault
  <2>5. ASSUME NEW o \in Orders, createOrder(o) \/ cancelOrder(o) \/ cancelApproval(o)
        PROVE  faults' = faults \/ faults' = faults + 1
    BY <2>5 DEF createOrder, cancelOrder, cancelApproval, Fault, NoFault, onlyFlow, onlyMemory
  <2>6. CASE sendOrder \/ insertOrder
    BY <2>6 DEF sendOrder, insertOrder, Answered, Refuse, Fault, NoFault
  <2> QED
    BY <1>4, <2>1, <2>2, <2>3, <2>4, <2>5, <2>6 DEF UserStep
<1>5. ASSUME NEW f \in Flows, FlowStep(f) PROVE faults' = faults \/ faults' = faults + 1
  <2>1. CASE askRound(f) \/ setRound(f) \/ askQuarter(f) \/ goToQuarter(f)
    BY <2>1 DEF askRound, setRound, askQuarter, goToQuarter, onlyFlow, onlyMemory, NoFault
  <2>2. CASE fetchFills(f) \/ insertFills(f)
    BY <2>2 DEF fetchFills, insertFills, FillsGiven, Refuse, Fault, NoFault
  <2>3. CASE fetchProofs(f) \/ checkProofs(f) \/ openBalanceDispute(f) \/ openDispute(f)
    BY <2>3 DEF fetchProofs, checkProofs, openBalanceDispute, openDispute, Refuse, Fault, NoFault,
                onlyFlow, onlyMemory
  <2>4. CASE confirmWithdrawal(f) \/ confirmWithdrawalAsync(f) \/ recoverFunds(f)
    BY <2>4 DEF confirmWithdrawal, confirmWithdrawalAsync, recoverFunds
  <2> QED
    BY <1>5, <2>1, <2>2, <2>3, <2>4 DEF FlowStep
<1>6. leave \/ crash => faults' = faults + 1
  BY DEF leave, crash, Fault
<1> QED
  BY <1>1, <1>2, <1>3, <1>4, <1>5, <1>6 DEF ClientNext

LEMMA CalmStep ==
    ASSUME InTime, LedgerInv, LedgerInv', CalmInv, [ClientNext]_clientVars PROVE CalmInv'
<1>1. faults \in Nat /\ (faults' = faults \/ faults' = faults + 1)
  BY FaultsAreCounted DEF CalmInv
<1>2. ASSUME faults' = 0 PROVE Calm'
  <2>1. faults = 0 /\ ~leave /\ ~crash
    BY <1>1, <1>2, FaultsAreCounted
  <2>2. Undisturbed /\ Calm
    BY <1>2, <2>1 DEF Undisturbed, CalmInv
  <2> QED
    BY <2>1, <2>2, StutterCalm, EnvironmentCalm, UserStepCalm, FlowStepCalm DEF ClientNext
<1> QED
  BY <1>1, <1>2 DEF CalmInv

LEMMA CalmInit == ASSUME ClientInit PROVE CalmInv
<1>1. /\ time = 0 /\ haltedAt = Never /\ request = Never /\ recovered = "no"
      /\ deposited = [r \in Rounds |-> 0] /\ debited = [r \in Rounds |-> 0]
      /\ disputes = {}
      /\ serverRound = 0 /\ admitted = Never /\ placed = [o \in Orders |-> NoOrder]
      /\ account = NoAccount /\ known = [o \in Orders |-> NoOrder]
      /\ credited = [r \in Rounds |-> 0] /\ booked = [r \in Rounds |-> 0]
      /\ pending = FALSE /\ proofs = [r \in Rounds |-> Never]
      /\ connected = FALSE /\ round = 0 /\ quarter = 0 /\ roundJoined = Never
      /\ flow = [f \in Flows |-> Idle] /\ faults = 0
  BY DEF ClientInit
<1>2. Now = 0 /\ Part = 0 /\ MaxRound \in Nat /\ 0 \in Rounds
  BY <1>1, ClientAssumption DEF Now, Part, Rounds
<1>3. /\ \A h \in Handlers : flow[h].pc = "idle"
      /\ flow[User].pc = "idle"
  BY <1>1, FlowsAre DEF Idle
<1>4. \A o \in Orders : placed[o].status = "none" /\ known[o].status = "none"
  BY <1>1 DEF NoOrder
<1>5. deposited \in [Rounds -> Nat] /\ debited \in [Rounds -> Nat] /\ booked \in [Rounds -> Nat]
  BY <1>1
<1>6. Balance(deposited, debited, placed, 0) = 0
  <2>1. Earlier(0) = {}
    BY DEF Earlier, Rounds
  <2> QED
    BY <2>1, BalanceIs, SumEmpty
<1>7. Free(deposited, debited, placed, 0) = 0
  <2>1. OrdersIn(placed, 0, {"open", "filled"}) = {}
    BY <1>4 DEF OrdersIn
  <2>2. Cardinality(OrdersIn(placed, 0, {"open", "filled"})) = 0
    BY <2>1, FS_EmptySet
  <2>3. deposited[0] = 0 /\ debited[0] = 0
    BY <1>1, <1>2
  <2> QED
    BY <1>2, <1>5, <1>6, <2>2, <2>3, FreeIs
<1>8. ChainOK
  <2>1. serverOpening(Now) >= 0 /\ Free(deposited, debited, placed, Now) >= 0
    BY <1>2, <1>6, <1>7 DEF serverOpening
  <2>2. \A r \in 0 .. Now : serverOpening(r) >= 0
    <3>1. \A r \in 0 .. Now : r = Now
      BY <1>2
    <3> QED
      BY <2>1, <3>1
  <2>3. \A r \in Rounds : deposited[r] = 0 /\ debited[r] = 0
    BY <1>1
  <2> QED
    BY <1>1, <1>2, <1>4, <1>5, <2>1, <2>2, <2>3 DEF ChainOK
<1>9. JoinOK /\ JoinedOK /\ ClockOK
  BY <1>1, <1>3, <1>4 DEF JoinOK, JoinedOK, ClockOK, At, Joining
<1>10. ASSUME NEW h \in Handlers PROVE HandlerOK(flow[h])
  BY <1>3 DEF HandlerOK, Asking, Fetching, Auditing, Claiming
<1>11. UserIsOK(flow[User])
  BY <1>3 DEF UserIsOK, UserPlaces, Fetching
<1>12. AmountsAgree /\ OrdersAgree
  BY <1>1, <1>3, <1>4 DEF AmountsAgree, OrdersAgree, At
<1>13. NothingBefore
  BY <1>1, <1>4 DEF NothingBefore, FillsOf
<1>14. ProofsOK /\ DisputesOK /\ Audited /\ ClaimsOK /\ RecoversAll
  BY <1>1 DEF ProofsOK, DisputesOK, Audited, ClaimsOK, RecoversAll
<1> QED
  BY <1>1, <1>8, <1>9, <1>10, <1>11, <1>12, <1>13, <1>14 DEF Calm, CalmInv

\* The inductive invariant of the client to which nothing has happened.
THEOREM CalmIsKept == InTime => (ClientSpec => []CalmInv)
<1> SUFFICES ASSUME InTime PROVE ClientSpec => []CalmInv
  OBVIOUS
<1>1. ClientInit => CalmInv
  BY CalmInit
<1>2. LedgerInv /\ LedgerInv' /\ CalmInv /\ [ClientNext]_clientVars => CalmInv'
  BY CalmStep
<1> QED
  BY <1>1, <1>2, LedgerIsInOrder, PTL DEF ClientSpec

\* Who has done all there is to do waits for the next block.
LEMMA SettledIs ==
    ASSUME Calm, Settled
    PROVE  /\ connected /\ round = Now /\ quarter = Part /\ ~Behind /\ (AuditPending => Part = 0)
           /\ \A h \in Handlers : flow[h].pc = "idle"
           /\ flow[User].pc = "idle" /\ \A o \in Orders : ~Canceling(flow[User], o)
           /\ ChainOK /\ OrdersAgree /\ Audited /\ ClaimsOK /\ DisputesOK /\ RecoversAll /\ JoinedOK
           /\ Now \in Nat /\ Part \in 0 .. 3 /\ Now \in Rounds /\ (isHalted <=> haltedAt # Never)
<1>1. /\ ChainOK /\ OrdersAgree /\ Audited /\ ClaimsOK /\ DisputesOK /\ RecoversAll /\ JoinedOK
  BY DEF Calm
<1>2. /\ getCurrentRound = Now /\ getCurrentQuarter = Part /\ Now \in Nat /\ Part \in 0 .. 3
      /\ Now \in Rounds /\ (isHalted <=> haltedAt # Never)
  BY <1>1, ClockFacts
<1>3. connected /\ round = Now /\ quarter = Part /\ AllIdle
  BY <1>2 DEF Settled
<1>4. /\ \A h \in Handlers : flow[h].pc = "idle"
      /\ flow[User].pc = "idle"
  BY <1>3, FlowsAre DEF AllIdle, At
<1>5. \A o \in Orders : ~Canceling(flow[User], o)
  <2>1. flow[User].pc \in UserPlaces \ Fetching
    BY <1>4 DEF UserPlaces, Fetching
  <2> QED
    BY <2>1, NotCanceling
<1> QED
  BY <1>1, <1>2, <1>3, <1>4, <1>5, NothingIsPending

\* The rounds are audited.
LEMMA CalmAudits ==
    ASSUME LedgerInv, Calm
    PROVE  DisputesAreRight /\ ProofsAreHeld /\ ClaimsArePaid
<1>1. OnlyCheatsAreDisputed
  BY DEF Calm, DisputesOK, OnlyCheatsAreDisputed
<1>2. CheatsAreDisputed
  <2> SUFFICES ASSUME Settled, quarter >= 1, round > roundJoined, CheatedIn(round), ~haltDue
               PROVE  round \in disputes
    BY DEF CheatsAreDisputed
  <2>1. /\ round = Now /\ connected /\ Audited /\ Now \in Nat /\ ~AuditPending
        /\ roundJoined \in 0 .. Now /\ ChainOK
    BY SettledIs DEF JoinedOK
  <2>2. Now \in roundJoined + 1 .. Now /\ CheatedIn(Now)
    BY <2>1
  <2>3. proofs[Now] = Never
    BY <2>1, <2>2, SettledIs DEF Calm, ProofsOK
  <2>4. Now \in disputes
    BY <2>1, <2>2, <2>3 DEF Audited
  <2> QED
    BY <2>1, <2>4
<1>3. ProofsAreHeld
  <2> SUFFICES ASSUME Settled, quarter >= 1, ~isHalted, NEW r \in roundJoined + 1 .. round
               PROVE  CheatedIn(r) \/ proofs[r] # Never
    BY DEF ProofsAreHeld
  <2>1. round = Now /\ connected /\ Audited /\ ~AuditPending
    BY SettledIs
  <2> QED
    BY <2>1 DEF Audited
<1>4. ClaimsArePaid
  <2> SUFFICES ASSUME Settled, quarter >= 1, round >= 4, ~isHalted, request # Never
               PROVE  request > round - 2
    BY DEF ClaimsArePaid
  <2>1. /\ round = Now /\ connected /\ ClaimsOK /\ ~AuditPending /\ haltedAt = Never
        /\ (\A h \in Handlers : flow[h].pc = "idle") /\ Now \in Nat /\ roundJoined \in 0 .. Now
    BY SettledIs DEF JoinedOK
  <2>2. ~(request <= Now - 2)
    BY <2>1 DEF ClaimsOK, At
  <2>3. request \in Int
    BY <2>1 DEF ClaimsOK
  <2> QED
    BY <2>1, <2>2, <2>3
<1> QED
  BY <1>1, <1>2, <1>3, <1>4 DEF DisputesAreRight

\* The two ledgers agree.
LEMMA CalmAgrees ==
    ASSUME LedgerInv, Calm
    PROVE  FillsRetrieved /\ LedgersAgree
<1>1. FillsRetrieved
  <2> SUFFICES ASSUME Settled, NEW r \in 0 .. round - 1
               PROVE  FillsOf(placed, r) \subseteq FillsOf(known, r)
    BY DEF FillsRetrieved
  <2>1. round = Now /\ ~Behind /\ OrdersAgree /\ ChainOK /\ Now \in Nat /\ Now \in Rounds
    BY SettledIs
  <2>2. r \in Rounds /\ r < Now
    <3>1. r \in 0 .. Now - 1 /\ Now <= MaxRound /\ MaxRound \in Nat
      BY <2>1, ClientAssumption DEF Rounds
    <3> QED
      BY <2>1, <3>1 DEF Rounds
  <2> QED
    BY <2>1, <2>2, FillsOfThePast
<1>2. LedgersAgree
  <2> SUFFICES ASSUME Settled
               PROVE  /\ Free(credited, booked, known, round) = Free(deposited, debited, placed, round)
                      /\ \A o \in Orders :
                            placed[o].status = "canceled" => known[o].status = "canceled"
    BY DEF LedgersAgree
  <2>1. /\ round = Now /\ ~Behind /\ OrdersAgree /\ flow[User].pc = "idle"
        /\ \A o \in Orders : ~Canceling(flow[User], o)
    BY SettledIs
  <2>2. Here = There
    BY <2>1, HereIsThere DEF At
  <2>3. Free(credited, booked, known, round) = Free(deposited, debited, placed, round)
    BY <2>1, <2>2 DEF Here, There
  <2>4. \A o \in Orders : placed[o].status = "canceled" => known[o].status = "canceled"
    BY <2>1 DEF OrdersAgree
  <2> QED
    BY <2>3, <2>4
<1> QED
  BY <1>1, <1>2

\* While the server answers and everyone is in time, whatever blocks come when and
\* whatever the user does: only cheats are disputed, and every cheat is
\* (L2Client.ts, audit to openBalanceDispute).
THEOREM DisputesAreRightUndisturbed ==
    InTime => (ClientSpec => [](faults = 0 => DisputesAreRight))
<1> SUFFICES ASSUME InTime PROVE ClientSpec => [](faults = 0 => DisputesAreRight)
  OBVIOUS
<1>1. LedgerInv /\ CalmInv => (faults = 0 => DisputesAreRight)
  BY CalmAudits DEF CalmInv
<1>2. ClientSpec => []CalmInv
  BY CalmIsKept
<1> QED
  BY <1>1, <1>2, LedgerIsInOrder, PTL

\* ... and a client that has done what there is to do has all fills, the balance of
\* the server, a proof of every round since it joined, and its withdrawals paid
\* (L2Client.ts, goToRound to confirmWithdrawal).
THEOREM UpToDateUndisturbed ==
    InTime => (ClientSpec => [](faults = 0 => UpToDate))
<1> SUFFICES ASSUME InTime PROVE ClientSpec => [](faults = 0 => UpToDate)
  OBVIOUS
<1>1. LedgerInv /\ CalmInv => (faults = 0 => UpToDate)
  BY CalmAudits, CalmAgrees DEF CalmInv, UpToDate, Calm
<1>2. ClientSpec => []CalmInv
  BY CalmIsKept
<1> QED
  BY <1>1, <1>2, LedgerIsInOrder, PTL
================================================================================
