--------------------------- MODULE ExchangeProofs ---------------------------
(***************************************************************************)
(* For any wallets, assets, orders, deposits and withdrawals, whatever is  *)
(* interleaved, cancelled, retried or lost in a crash: what is locked and  *)
(* what is booked as withdrawn is accounted for.  Without a crash, rounds  *)
(* do not mix.                                                             *)
(***************************************************************************)
EXTENDS ExchangeProperties, Sums, SequenceTheorems

(* Sets in order. *)

LEMMA InOrderIs ==
    ASSUME NEW S, NEW R
    PROVE  inOrder(S, R) = Ranking(S, R)
BY Zenon DEF inOrder, Ranking

LEMMA AscendingFacts ==
    ASSUME NEW S \in SUBSET Nat, IsFiniteSet(S)
    PROVE  Cardinality(S) \in Nat /\ Ascending(S) \in [1 .. Cardinality(S) -> S]
<1>1. Ascending(S) = Ranking(S, {x \in S \X S : x[1] < x[2]})
  BY InOrderIs DEF Ascending
<1> QED
  BY <1>1, NumbersRanked

(* The matching engine. *)

LEMMA SwapsFacts ==
    ASSUME NEW left, NEW rights, Len(rights) \in Nat
    PROVE  DOMAIN swapsOf(left, rights) \subseteq 1 .. Len(rights)
BY Zenon DEF swapsOf

\* What matchLeft returns, when nothing is fractional: swaps of something.
LEMMA MatchLeftFacts ==
    ASSUME NEW left, NEW rights, Len(rights) \in Nat,
           ~Contains(matchLeft(left, rights), Fractional)
    PROVE  \E k \in 0 .. Len(rights) :
              /\ DOMAIN matchLeft(left, rights) = 1 .. k
              /\ \A n \in 1 .. k : IsSwap(matchLeft(left, rights)[n])
<1> DEFINE swaps == swapsOf(left, rights)
           real == {n \in DOMAIN swaps : IsSwap(swaps[n])}
           kept == Ascending(real)
<1>1. ~Contains(swaps, Fractional)
  <2>1. Contains(<<Fractional>>, Fractional)
    BY DEF Contains
  <2> QED
    BY <2>1 DEF matchLeft
<1>2. matchLeft(left, rights) = [n \in DOMAIN kept |-> swaps[kept[n]]]
  BY <1>1 DEF matchLeft
<1>3. real \in SUBSET (1 .. Len(rights)) /\ real \in SUBSET Nat
  BY SwapsFacts
<1>4. IsFiniteSet(1 .. Len(rights)) /\ Cardinality(1 .. Len(rights)) = Len(rights)
  <2> DEFINE n == Len(rights)
  <2>1. n \in Nat
    OBVIOUS
  <2> HIDE DEF n
  <2>2. IsFiniteSet(1 .. n) /\ Cardinality(1 .. n) = IF 1 > n THEN 0 ELSE n - 1 + 1
    BY <2>1, FS_Interval
  <2>3. IsFiniteSet(1 .. n) /\ Cardinality(1 .. n) = n
    BY <2>1, <2>2
  <2> QED
    BY <2>3 DEF n
<1> HIDE DEF real
<1>5. IsFiniteSet(real) /\ Cardinality(real) <= Len(rights)
  BY <1>3, <1>4, FS_Subset
<1>6. Cardinality(real) \in Nat /\ kept \in [1 .. Cardinality(real) -> real]
  BY <1>3, <1>5, AscendingFacts
<1>7. Cardinality(real) \in 0 .. Len(rights)
  BY <1>5, <1>6
<1> HIDE DEF kept
<1>8. \A n \in 1 .. Cardinality(real) : IsSwap(swaps[kept[n]])
  BY <1>6 DEF real
<1> QED
  BY <1>2, <1>6, <1>7, <1>8

(* The order of the makers. *)

\* Makers that can be put in order.
Sortable(S) ==
    /\ IsFiniteSet(S)
    /\ \A m \in S : {m.buyAmount, m.sellAmount} \subseteq Nat \ {0} /\ m.priority \in Nat
    /\ \A a, b \in S : a.priority = b.priority => a = b

LEMMA SortFacts ==
    ASSUME NEW S, Sortable(S)
    PROVE  Cardinality(S) \in Nat /\ sort(S) \in [1 .. Cardinality(S) -> S]
<1> DEFINE R == {x \in S \X S : better(x[1], x[2])}
           p == [m \in S |-> m.buyAmount]
           q == [m \in S |-> m.sellAmount]
           age == [m \in S |-> m.priority]
<1>1. /\ \A m \in S : p[m] \in Nat \ {0} /\ q[m] \in Nat \ {0} /\ age[m] \in Nat
      /\ \A a, b \in S : age[a] = age[b] => a = b
  BY DEF Sortable
<1>2. ASSUME NEW a \in S, NEW b \in S
      PROVE  better(a, b) <=> (p[a] * q[b] < p[b] * q[a]
                               \/ (p[a] * q[b] = p[b] * q[a] /\ age[a] < age[b]))
  <2> DEFINE u == p[a] * q[b]
             v == p[b] * q[a]
  <2>1. u \in Int /\ v \in Int
    <3> HIDE DEF p, q, age
    <3> QED
      BY <1>1
  <2>2. better(a, b) <=> (u - v < 0 \/ (u - v = 0 /\ age[a] < age[b]))
    BY DEF better, comparePrice
  <2> HIDE DEF u, v, age
  <2>3. (u - v < 0 <=> u < v) /\ (u - v = 0 <=> u = v)
    BY <2>1
  <2>4. better(a, b) <=> (u < v \/ (u = v /\ age[a] < age[b]))
    BY <2>2, <2>3
  <2> QED
    BY <2>4 DEF u, v
<1> HIDE DEF p, q, age
<1>3. R = ByQuotient(S, p, q, age)
  <2>1. ASSUME NEW x \in S \X S PROVE x \in R <=> x \in ByQuotient(S, p, q, age)
    <3>1. x[1] \in S /\ x[2] \in S
      OBVIOUS
    <3> QED
      BY <1>2, <3>1 DEF ByQuotient
  <2>2. R \subseteq S \X S /\ ByQuotient(S, p, q, age) \subseteq S \X S
    BY DEF ByQuotient
  <2> HIDE DEF R
  <2> QED
    BY <2>1, <2>2
<1>4. IsStrictOrder(ByQuotient(S, p, q, age), S)
  BY <1>1, QuotientOrder
<1>5. IsFiniteSet(S)
  BY DEF Sortable
<1>6. Cardinality(S) \in Nat /\ Ranking(S, R) \in [1 .. Cardinality(S) -> S]
  <2> HIDE DEF R
  <2> QED
    BY <1>3, <1>4, <1>5, RankedFacts
<1> QED
  BY <1>6, InOrderIs DEF sort

TradesOf(left, S) ==
    [left : {left.id}, leftSell : Nat \ {0}, right : {m.id : m \in S},
     rightSell : Nat \ {0}, round : {left.round}]

\* Every trade is one of the taker with a maker that was let through, of something.
LEMMA CreateTradesFacts ==
    ASSUME NEW left, NEW rights, Sortable(filter(left, rights))
    PROVE  createTrades(left, rights) \in Seq(TradesOf(left, filter(left, rights)))
<1> DEFINE S == filter(left, rights)
           sorted == sort(S)
           swaps == matchLeft(left, sorted)
           T == TradesOf(left, S)
<1>1. Cardinality(S) \in Nat /\ sorted \in [1 .. Cardinality(S) -> S]
  BY SortFacts
<1>2. CASE Contains(swaps, Fractional)
  BY <1>2 DEF createTrades
<1>3. CASE ~Contains(swaps, Fractional)
  <2>1. sorted \in Seq(S) /\ Len(sorted) = Cardinality(S)
    <3> HIDE DEF S, sorted
    <3> QED
      BY <1>1
  <2>2. PICK k \in 0 .. Len(sorted) :
           DOMAIN swaps = 1 .. k /\ \A n \in 1 .. k : IsSwap(swaps[n])
    <3>1. Len(sorted) \in Nat
      BY <1>1, <2>1
    <3> HIDE DEF sorted
    <3> QED
      BY <1>3, <3>1, MatchLeftFacts
  <2>3. createTrades(left, rights) = [i \in 1 .. k |-> createTrade(left, sorted[i], swaps[i])]
    BY <1>3, <2>2 DEF createTrades
  <2> HIDE DEF S, sorted, swaps
  <2>4. ASSUME NEW i \in 1 .. k PROVE createTrade(left, sorted[i], swaps[i]) \in T
    <3>1. sorted[i] \in S
      BY <1>1, <2>1, <2>2
    <3>2. swaps[i].fromLeft \in Nat \ {0} /\ swaps[i].fromRight \in Nat \ {0}
      BY <2>2 DEF IsSwap
    <3> QED
      BY <3>1, <3>2 DEF createTrade, TradesOf
  <2> HIDE DEF T
  <2>5. [i \in 1 .. k |-> createTrade(left, sorted[i], swaps[i])] \in Seq(T)
    BY <2>2, <2>4
  <2> QED
    BY <2>3, <2>5 DEF T, S
<1> QED
  BY <1>2, <1>3

\* The fills of trades.
LEMMA FillsOfFacts ==
    ASSUME NEW left, NEW S, NEW trs \in Seq(TradesOf(left, S)), NEW I,
           left.id \in I, \A m \in S : m.id \in I
    PROVE  fillsOf(trs) \in Seq([approval : I, buy : Nat, sell : Nat, round : {left.round}])
<1> DEFINE F == [approval : I, buy : Nat, sell : Nat, round : {left.round}]
           n == Len(trs)
<1>1. n \in Nat /\ \A i \in 1 .. n : trs[i] \in TradesOf(left, S)
  OBVIOUS
<1>2. ASSUME NEW t \in TradesOf(left, S)
      PROVE  createFillParams(t)[1] \in F /\ createFillParams(t)[2] \in F
  BY DEF TradesOf, createFillParams
<1>3. \A k \in 1 .. 2 * n : (k + 1) \div 2 \in 1 .. n
  BY <1>1
<1>4. ASSUME NEW k \in 1 .. 2 * n
      PROVE  createFillParams(trs[(k + 1) \div 2])[IF k % 2 = 1 THEN 1 ELSE 2] \in F
  <2>1. trs[(k + 1) \div 2] \in TradesOf(left, S)
    BY <1>1, <1>3
  <2> QED
    BY <1>2, <2>1
<1> HIDE DEF F
<1>5. 2 * n \in Nat
  BY <1>1
<1>6. [k \in 1 .. 2 * n |-> createFillParams(trs[(k + 1) \div 2])[IF k % 2 = 1 THEN 1 ELSE 2]]
         \in Seq(F)
  <2> DEFINE e(k) == createFillParams(trs[(k + 1) \div 2])[IF k % 2 = 1 THEN 1 ELSE 2]
             N == 2 * n
  <2>1. N \in Nat /\ \A k \in 1 .. N : e(k) \in F
    BY <1>4, <1>5
  <2> HIDE DEF e, N
  <2>2. [k \in 1 .. N |-> e(k)] \in Seq(F)
    BY <2>1
  <2> QED
    BY <2>2 DEF e, N
<1> QED
  BY <1>6 DEF fillsOf, F

(* The approvals. *)

LEMMA FiniteImage ==
    ASSUME NEW S, IsFiniteSet(S), NEW f
    PROVE  IsFiniteSet({f[x] : x \in S})
<1> DEFINE T == {f[x] : x \in S}
           g == [x \in S |-> f[x]]
<1>1. g \in Surjection(S, T)
  BY DEF Surjection
<1> HIDE DEF g, T
<1>2. IsFiniteSet(T)
  BY <1>1, FS_Surjection
<1> QED
  BY <1>2 DEF T

Numbered(kind) == Nat \X {kind}

LEMMA OrderFacts ==
    ASSUME NEW o \in Orders
    PROVE  /\ o \in Order /\ o.id \in Numbered("order")
           /\ o.client \in Wallets \ {Operator} /\ o.round \in Rounds
           /\ o.buyAsset \in Assets /\ o.sellAsset \in Assets /\ o.buyAsset # o.sellAsset
           /\ o.buyAmount \in Nat \ {0} /\ o.sellAmount \in Nat \ {0}
<1>1. o \in Order /\ o.buyAsset # o.sellAsset
  BY ExchangeAssumption
<1> QED
  BY <1>1 DEF Order, Numbered

LEMMA Renamed ==
    ASSUME NEW old, NEW id \in Numbered(old), NEW kind
    PROVE  [id EXCEPT ![2] = kind] = <<id[1], kind>> /\ <<id[1], kind>> \in Numbered(kind)
BY DEF Numbered

LEMMA FeeFacts ==
    ASSUME NEW o \in Orders
    PROVE  LET fee == FeeOf(o)
           IN /\ fee.id = <<o.id[1], "fee">> /\ fee.id \in Numbered("fee")
              /\ fee.client = o.client /\ fee.round = o.round /\ fee.intent = FALSE
              /\ fee.buyAsset = FeeAsset /\ fee.buyAmount = 0
              /\ fee.sellAsset = FeeAsset /\ fee.sellAmount = FeeAmount
              /\ DOMAIN fee = DOMAIN o
<1>1. o \in Order /\ o.id \in Numbered("order")
  BY OrderFacts
<1>2. [o.id EXCEPT ![2] = "fee"] = <<o.id[1], "fee">> /\ <<o.id[1], "fee">> \in Numbered("fee")
  BY <1>1, Renamed
<1>3. DOMAIN o = {"id", "client", "round", "intent", "buyAsset", "buyAmount",
                  "sellAsset", "sellAmount"}
  BY <1>1 DEF Order
<1>4. FeeOf(o).id = [o.id EXCEPT ![2] = "fee"]
  BY <1>3 DEF FeeOf
<1>5. /\ FeeOf(o).client = o.client /\ FeeOf(o).round = o.round /\ FeeOf(o).intent = FALSE
      /\ FeeOf(o).buyAsset = FeeAsset /\ FeeOf(o).buyAmount = 0
      /\ FeeOf(o).sellAsset = FeeAsset /\ FeeOf(o).sellAmount = FeeAmount
      /\ DOMAIN FeeOf(o) = DOMAIN o
  BY <1>3 DEF FeeOf
<1> QED
  BY <1>2, <1>4, <1>5

LEMMA OwnFacts ==
    ASSUME NEW o \in Orders
    PROVE  LET own == OwnApproval(o)
           IN /\ own.id = <<o.id[1], "operator">> /\ own.id \in Numbered("operator")
              /\ own.client = Operator /\ own.round = o.round /\ own.intent = TRUE
              /\ own.buyAsset = FeeAsset /\ own.buyAmount = FeeAmount
              /\ own.sellAsset = FeeAsset /\ own.sellAmount = 0
<1> DEFINE fee == FeeOf(o)
           own == operatorApprovalForFee(fee)
<1>1. /\ fee.id = <<o.id[1], "fee">> /\ fee.id \in Numbered("fee")
      /\ fee.client = o.client /\ fee.round = o.round /\ fee.intent = FALSE
      /\ fee.buyAsset = FeeAsset /\ fee.buyAmount = 0
      /\ fee.sellAsset = FeeAsset /\ fee.sellAmount = FeeAmount
      /\ DOMAIN fee = {"id", "client", "round", "intent", "buyAsset", "buyAmount",
                       "sellAsset", "sellAmount"}
  BY FeeFacts, OrderFacts DEF Order
<1> HIDE DEF fee
<1>2. /\ [fee.id EXCEPT ![2] = "operator"] = <<fee.id[1], "operator">>
      /\ <<fee.id[1], "operator">> \in Numbered("operator") /\ fee.id[1] = o.id[1]
  BY <1>1, Renamed
<1>3. own.id = [fee.id EXCEPT ![2] = "operator"]
  BY <1>1 DEF operatorApprovalForFee
<1>4. /\ own.client = Operator /\ own.round = fee.round /\ own.intent = ~fee.intent
      /\ own.buyAsset = fee.sellAsset /\ own.buyAmount = fee.sellAmount
      /\ own.sellAsset = fee.buyAsset /\ own.sellAmount = fee.buyAmount
  BY <1>1 DEF operatorApprovalForFee
<1> HIDE DEF own
<1>5. own = OwnApproval(o)
  BY DEF own, fee, OwnApproval
<1>6. own.id = <<o.id[1], "operator">> /\ own.id \in Numbered("operator")
  BY <1>2, <1>3
<1>7. /\ own.client = Operator /\ own.round = o.round /\ own.intent = TRUE
      /\ own.buyAsset = FeeAsset /\ own.buyAmount = FeeAmount
      /\ own.sellAsset = FeeAsset /\ own.sellAmount = 0
  BY <1>1, <1>4
<1> QED
  BY <1>5, <1>6, <1>7

\* Every approval is an order, the fee of one, or the operator's side of a fee.
LEMMA ApprovalKinds ==
    ASSUME NEW p \in Approvals
    PROVE  p \in Orders \/ \E o \in Orders : p = FeeOf(o) \/ p = OwnApproval(o)
BY ExchangeAssumption DEF Fees, OwnApproval

LEMMA ApprovalFacts ==
    ASSUME NEW p \in Approvals
    PROVE  /\ p.client \in Wallets /\ p.round \in Rounds
           /\ p.buyAsset \in Assets /\ p.sellAsset \in Assets
           /\ p.buyAmount \in Nat /\ p.sellAmount \in Nat /\ p.id \in Ids
           /\ p.buyAsset # p.sellAsset => p \in Orders
<1>1. Operator \in Wallets /\ FeeAsset \in Assets /\ FeeAmount \in Nat
  BY ExchangeAssumption
<1>2. p.id \in Ids
  BY DEF Ids
<1>3. CASE p \in Orders
  BY <1>2, <1>3, OrderFacts
<1>4. ASSUME NEW o \in Orders, p = FeeOf(o)
      PROVE  /\ p.client \in Wallets /\ p.round \in Rounds
             /\ p.buyAsset = FeeAsset /\ p.sellAsset = FeeAsset
             /\ p.buyAmount \in Nat /\ p.sellAmount \in Nat
  <2>1. o.client \in Wallets /\ o.round \in Rounds
    BY OrderFacts
  <2>2. /\ p.client = o.client /\ p.round = o.round
        /\ p.buyAsset = FeeAsset /\ p.buyAmount = 0
        /\ p.sellAsset = FeeAsset /\ p.sellAmount = FeeAmount
    BY <1>4, FeeFacts
  <2> QED
    BY <1>1, <2>1, <2>2
<1>5. ASSUME NEW o \in Orders, p = OwnApproval(o)
      PROVE  /\ p.client \in Wallets /\ p.round \in Rounds
             /\ p.buyAsset = FeeAsset /\ p.sellAsset = FeeAsset
             /\ p.buyAmount \in Nat /\ p.sellAmount \in Nat
  <2>1. o.round \in Rounds
    BY OrderFacts
  <2>2. /\ p.client = Operator /\ p.round = o.round
        /\ p.buyAsset = FeeAsset /\ p.buyAmount = FeeAmount
        /\ p.sellAsset = FeeAsset /\ p.sellAmount = 0
    BY <1>5, OwnFacts
  <2> QED
    BY <1>1, <2>1, <2>2
<1> QED
  BY <1>1, <1>2, <1>3, <1>4, <1>5, ApprovalKinds

\* An id names one approval, and the approvals of an order are three.
LEMMA ApprovalsDiffer ==
    ASSUME NEW o \in Orders, NEW q \in Orders
    PROVE  /\ o # FeeOf(q) /\ o # OwnApproval(q) /\ FeeOf(o) # OwnApproval(q)
           /\ FeeOf(o) = FeeOf(q) => o = q
           /\ OwnApproval(o) = OwnApproval(q) => o = q
<1>1. /\ o.id = <<o.id[1], "order">> /\ q.id = <<q.id[1], "order">>
  BY OrderFacts DEF Numbered
<1>2. /\ FeeOf(o).id = <<o.id[1], "fee">> /\ FeeOf(q).id = <<q.id[1], "fee">>
      /\ OwnApproval(o).id = <<o.id[1], "operator">> /\ OwnApproval(q).id = <<q.id[1], "operator">>
  BY FeeFacts, OwnFacts
<1>3. o.id = q.id => o = q
  BY ExchangeAssumption
<1> QED
  BY <1>1, <1>2, <1>3

LEMMA ApprovalsHere ==
    ASSUME NEW o \in Orders
    PROVE  o \in Approvals /\ FeeOf(o) \in Approvals /\ OwnApproval(o) \in Approvals
BY ExchangeAssumption DEF Fees, OwnApproval

LEMMA ApprovalsFinite == IsFiniteSet(Approvals)
<1> DEFINE fees == [o \in Orders |-> FeeOf(o)]
           owns == [f \in Fees |-> operatorApprovalForFee(f)]
<1>1. IsFiniteSet(Orders)
  <2>1. IsFiniteSet({OrderOf[r] : r \in Requests})
    BY ExchangeAssumption, FiniteImage
  <2> QED
    BY <2>1 DEF Orders
<1>2. IsFiniteSet(Fees)
  <2> DEFINE T == {fees[o] : o \in Orders}
  <2>1. IsFiniteSet(T)
    <3> HIDE DEF fees
    <3> QED
      BY <1>1, FiniteImage
  <2> QED
    BY <2>1 DEF Fees
<1>3. IsFiniteSet({operatorApprovalForFee(f) : f \in Fees})
  <2> DEFINE T == {owns[f] : f \in Fees}
  <2>1. IsFiniteSet(T)
    <3> HIDE DEF owns
    <3> QED
      BY <1>2, FiniteImage
  <2>2. T = {operatorApprovalForFee(f) : f \in Fees}
    OBVIOUS
  <2> QED
    BY <2>1, <2>2
<1>4. IsFiniteSet(Orders \cup Fees \cup {operatorApprovalForFee(f) : f \in Fees})
  BY <1>1, <1>2, <1>3, FS_Union
<1> QED
  BY <1>4, ExchangeAssumption

LEMMA ApprovalOfId ==
    ASSUME NEW id \in Ids
    PROVE  ApprovalWithId(id) \in Approvals /\ ApprovalWithId(id).id = id
BY DEF Ids, ApprovalWithId

\* The id of an approval says which one it is.
LEMMA IdIsOwn ==
    ASSUME NEW p \in Approvals
    PROVE  ApprovalWithId(p.id) = p
<1>1. ASSUME NEW a \in Approvals, NEW b \in Approvals, a.id = b.id PROVE a = b
  <2>1. ASSUME NEW o \in Orders
        PROVE  /\ o.id = <<o.id[1], "order">>
               /\ FeeOf(o).id = <<o.id[1], "fee">>
               /\ OwnApproval(o).id = <<o.id[1], "operator">>
    <3>1. o.id = <<o.id[1], "order">>
      BY OrderFacts DEF Numbered
    <3>2. FeeOf(o).id = <<o.id[1], "fee">>
      BY FeeFacts
    <3>3. OwnApproval(o).id = <<o.id[1], "operator">>
      BY OwnFacts
    <3> QED
      BY <3>1, <3>2, <3>3
  <2>2. PICK o \in Orders : a = o \/ a = FeeOf(o) \/ a = OwnApproval(o)
    BY ApprovalKinds
  <2>3. PICK q \in Orders : b = q \/ b = FeeOf(q) \/ b = OwnApproval(q)
    BY ApprovalKinds
  <2>4. o.id[1] = q.id[1]
    BY <1>1, <2>1, <2>2, <2>3
  <2>5. o = q
    BY <2>1, <2>4, ExchangeAssumption
  <2> QED
    BY <1>1, <2>1, <2>2, <2>3, <2>5
<1>2. ApprovalWithId(p.id) \in Approvals /\ ApprovalWithId(p.id).id = p.id
  BY ApprovalOfId DEF Ids
<1> QED
  BY <1>1, <1>2

(* The accounts. *)

Fields == {"deposited", "withdrawn", "bought", "sold", "locked"}
Books == [Rounds -> [Assets -> [Wallets -> Account]]]

\* n is b with x more in one field of one account.
BookedIn(n, b, r, a, w, field, x) ==
    /\ n \in Books
    /\ \A q \in Rounds, c \in Assets, v \in Wallets, g \in Fields :
          n[q][c][v][g] = IF q = r /\ c = a /\ v = w /\ g = field
                          THEN b[r][a][w][field] + x ELSE b[q][c][v][g]

LEMMA BookIs ==
    ASSUME NEW b \in Books, NEW r \in Rounds, NEW a \in Assets, NEW w \in Wallets,
           NEW field \in Fields, NEW x \in Int
    PROVE  BookedIn(Book(b, r, a, w, field, x), b, r, a, w, field, x)
<1> DEFINE old == b[r][a][w]
           new == [old EXCEPT ![field] = old[field] + x]
           after == [b EXCEPT ![r][a][w] = new]
<1>1. old \in Account /\ DOMAIN old = Fields /\ old[field] \in Int
  BY DEF Books, Account, Fields
<1>2. new \in Account /\ new[field] = old[field] + x
      /\ \A g \in Fields \ {field} : new[g] = old[g]
  <2> HIDE DEF old
  <2>1. DOMAIN new = Fields /\ \A g \in Fields :
           new[g] = IF g = field THEN old[field] + x ELSE old[g]
    BY <1>1
  <2>2. new = [deposited |-> new["deposited"], withdrawn |-> new["withdrawn"],
               bought |-> new["bought"], sold |-> new["sold"], locked |-> new["locked"]]
    <3>1. new = [g \in Fields |-> new[g]]
      BY <2>1
    <3> HIDE DEF new
    <3> QED
      BY <3>1 DEF Fields
  <2>3. \A g \in Fields : new[g] \in Int
    BY <1>1, <2>1 DEF Account, Fields
  <2>4. new \in Account
    <3> HIDE DEF new
    <3> QED
      BY <2>2, <2>3 DEF Account, Fields
  <2> QED
    BY <2>1, <2>4
<1>3. Book(b, r, a, w, field, x) = after
  BY DEF Book
<1> HIDE DEF new, old
<1>4. after \in Books /\ \A q \in Rounds, c \in Assets, v \in Wallets :
         after[q][c][v] = IF q = r /\ c = a /\ v = w THEN new ELSE b[q][c][v]
  BY <1>2 DEF Books
<1> HIDE DEF after
<1>5. ASSUME NEW q \in Rounds, NEW c \in Assets, NEW v \in Wallets, NEW g \in Fields
      PROVE  after[q][c][v][g] = IF q = r /\ c = a /\ v = w /\ g = field
                                 THEN b[r][a][w][field] + x ELSE b[q][c][v][g]
  <2>1. after[q][c][v] = IF q = r /\ c = a /\ v = w THEN new ELSE b[q][c][v]
    BY <1>4
  <2>2. CASE q = r /\ c = a /\ v = w
    <3>1. new[g] = IF g = field THEN old[field] + x ELSE old[g]
      BY <1>2
    <3> QED
      BY <2>1, <2>2, <3>1, Zenon DEF old
  <2>3. CASE ~(q = r /\ c = a /\ v = w)
    BY <2>1, <2>3, Zenon
  <2> QED
    BY <2>2, <2>3, Zenon
<1>6. BookedIn(after, b, r, a, w, field, x)
  BY <1>4, <1>5 DEF BookedIn
<1> QED
  BY <1>3, <1>6, Zenon

LEMMA BookFacts ==
    ASSUME NEW b \in Books, NEW r \in Rounds, NEW a \in Assets, NEW w \in Wallets,
           NEW field \in Fields, NEW x \in Int
    PROVE  /\ Book(b, r, a, w, field, x) \in Books
           /\ \A q \in Rounds, c \in Assets, v \in Wallets, g \in Fields :
                 Book(b, r, a, w, field, x)[q][c][v][g] =
                    IF q = r /\ c = a /\ v = w /\ g = field
                    THEN b[r][a][w][field] + x ELSE b[q][c][v][g]
<1>1. BookedIn(Book(b, r, a, w, field, x), b, r, a, w, field, x)
  BY BookIs
<1> QED
  BY <1>1, Zenon DEF BookedIn

\* In each account, a field is the sum of what belongs to it.
Accounted(b, field, f, S, Key) ==
    \A r \in Rounds, a \in Assets, w \in Wallets :
        b[r][a][w][field] = SumFunctionOnSet(f, {x \in S : Key[x] = <<r, a, w>>})

\* g is f with x more at y.
Adds(f, g, S, y, x) ==
    /\ y \in S /\ x \in Int /\ \A z \in S : f[z] \in Int
    /\ g[y] = f[y] + x /\ \A z \in S \ {y} : g[z] = f[z]

LEMMA SumAdds ==
    ASSUME NEW S, IsFiniteSet(S), NEW f, NEW g, NEW y, NEW x, Adds(f, g, S, y, x)
    PROVE  SumFunctionOnSet(g, S) = SumFunctionOnSet(f, S) + x
<1>0. f[y] \in Int /\ x \in Int /\ g[y] = f[y] + x
  BY DEF Adds
<1>1. y \in S /\ g[y] \in Int /\ \A z \in S : f[z] \in Int
  BY <1>0 DEF Adds
<1>2. \A z \in S \ {y} : g[z] = f[z]
  BY DEF Adds
<1>3. SumFunctionOnSet(g, S) = SumFunctionOnSet(f, S) - f[y] + g[y]
  BY <1>1, <1>2, SumChange
<1>4. SumFunctionOnSet(f, S) \in Int
  BY <1>1, SumInt
<1> QED
  BY <1>0, <1>3, <1>4

LEMMA AccountChange ==
    ASSUME NEW b \in Books, NEW r \in Rounds, NEW a \in Assets, NEW w \in Wallets,
           NEW field \in Fields, NEW x \in Int,
           NEW S, IsFiniteSet(S), NEW Key, NEW f, NEW y \in S, Key[y] = <<r, a, w>>,
           NEW g, Adds(f, g, S, y, x), Accounted(b, field, f, S, Key)
    PROVE  Accounted(Book(b, r, a, w, field, x), field, g, S, Key)
<1> DEFINE of(q, c, v) == {z \in S : Key[z] = <<q, c, v>>}
           new == Book(b, r, a, w, field, x)
<1>1. \A q \in Rounds, c \in Assets, v \in Wallets :
         new[q][c][v][field] = IF q = r /\ c = a /\ v = w
                               THEN b[r][a][w][field] + x ELSE b[q][c][v][field]
  <2>1. \A q \in Rounds, c \in Assets, v \in Wallets, h \in Fields :
           new[q][c][v][h] = IF q = r /\ c = a /\ v = w /\ h = field
                             THEN b[r][a][w][field] + x ELSE b[q][c][v][h]
    BY BookFacts
  <2> QED
    BY <2>1
<1> HIDE DEF new
<1>2. ASSUME NEW q \in Rounds, NEW c \in Assets, NEW v \in Wallets
      PROVE  new[q][c][v][field] = SumFunctionOnSet(g, of(q, c, v))
  <2> DEFINE T == of(q, c, v)
  <2>1. IsFiniteSet(T)
    <3>1. T \in SUBSET S
      OBVIOUS
    <3> HIDE DEF T
    <3> QED
      BY <3>1, FS_Subset
  <2>2. b[q][c][v][field] = SumFunctionOnSet(f, T)
    BY DEF Accounted
  <2>3. CASE q = r /\ c = a /\ v = w
    <3>1. Adds(f, g, T, y, x)
      BY <2>3 DEF Adds
    <3> HIDE DEF T
    <3>2. SumFunctionOnSet(g, T) = SumFunctionOnSet(f, T) + x
      BY <2>1, <3>1, SumAdds
    <3>3. new[q][c][v][field] = SumFunctionOnSet(g, T)
      BY <1>1, <2>2, <2>3, <3>2
    <3> QED
      BY <3>3 DEF T
  <2>4. CASE ~(q = r /\ c = a /\ v = w)
    <3>1. \A z \in T : f[z] \in Int /\ f[z] = g[z]
      BY <2>4 DEF Adds
    <3> HIDE DEF T
    <3>2. SumFunctionOnSet(f, T) = SumFunctionOnSet(g, T)
      BY <2>1, <3>1, SumEqual
    <3>3. new[q][c][v][field] = b[q][c][v][field]
      BY <1>1, <2>4
    <3> QED
      BY <2>2, <3>2, <3>3 DEF T
  <2> QED
    BY <2>3, <2>4
<1> QED
  BY <1>2 DEF Accounted, new

LEMMA AccountOther ==
    ASSUME NEW b \in Books, NEW r \in Rounds, NEW a \in Assets, NEW w \in Wallets,
           NEW field \in Fields, NEW other \in Fields, other # field, NEW x \in Int,
           NEW S, NEW Key, NEW f, Accounted(b, field, f, S, Key)
    PROVE  Accounted(Book(b, r, a, w, other, x), field, f, S, Key)
<1>1. \A q \in Rounds, c \in Assets, v \in Wallets, g \in Fields :
         Book(b, r, a, w, other, x)[q][c][v][g] =
            IF q = r /\ c = a /\ v = w /\ g = other
            THEN b[r][a][w][other] + x ELSE b[q][c][v][g]
  BY BookFacts
<1> DEFINE new == Book(b, r, a, w, other, x)
<1>2. \A q \in Rounds, c \in Assets, v \in Wallets : new[q][c][v][field] = b[q][c][v][field]
  BY <1>1
<1> HIDE DEF new
<1>3. ASSUME NEW q \in Rounds, NEW c \in Assets, NEW v \in Wallets
      PROVE  new[q][c][v][field] = SumFunctionOnSet(f, {z \in S : Key[z] = <<q, c, v>>})
  <2> DEFINE T == {z \in S : Key[z] = <<q, c, v>>}
  <2>1. b[q][c][v][field] = SumFunctionOnSet(f, T)
    BY DEF Accounted
  <2> HIDE DEF T
  <2>2. new[q][c][v][field] = SumFunctionOnSet(f, T)
    BY <1>2, <2>1
  <2> QED
    BY <2>2 DEF T
<1> QED
  BY <1>3 DEF Accounted, new

LEMMA AccountSame ==
    ASSUME NEW b, NEW field, NEW S, IsFiniteSet(S), NEW Key,
           NEW f, NEW g, \A z \in S : f[z] \in Int /\ f[z] = g[z],
           Accounted(b, field, f, S, Key)
    PROVE  Accounted(b, field, g, S, Key)
<1> SUFFICES ASSUME NEW r \in Rounds, NEW a \in Assets, NEW w \in Wallets
             PROVE  b[r][a][w][field] = SumFunctionOnSet(g, {z \in S : Key[z] = <<r, a, w>>})
  BY DEF Accounted
<1> DEFINE T == {z \in S : Key[z] = <<r, a, w>>}
<1>1. T \in SUBSET S /\ \A z \in T : f[z] \in Int /\ f[z] = g[z]
  OBVIOUS
<1>2. b[r][a][w][field] = SumFunctionOnSet(f, T)
  BY DEF Accounted
<1> HIDE DEF T
<1>3. IsFiniteSet(T)
  BY <1>1, FS_Subset
<1>4. SumFunctionOnSet(f, T) = SumFunctionOnSet(g, T)
  BY <1>1, <1>3, SumEqual
<1> QED
  BY <1>2, <1>4 DEF T

\* One more that has nothing.
LEMMA AccountMore ==
    ASSUME NEW b, NEW field, NEW S, IsFiniteSet(S), NEW Key, NEW f,
           NEW y, y \notin S, NEW More, \A z \in S : More[z] = Key[z],
           NEW g, g[y] = 0, \A z \in S : f[z] \in Int /\ g[z] = f[z],
           Accounted(b, field, f, S, Key)
    PROVE  Accounted(b, field, g, S \cup {y}, More)
<1> SUFFICES ASSUME NEW r \in Rounds, NEW a \in Assets, NEW w \in Wallets
             PROVE  b[r][a][w][field] =
                       SumFunctionOnSet(g, {z \in S \cup {y} : More[z] = <<r, a, w>>})
  BY DEF Accounted
<1> DEFINE T == {z \in S : Key[z] = <<r, a, w>>}
           U == {z \in S \cup {y} : More[z] = <<r, a, w>>}
<1>1. /\ T \in SUBSET S /\ (\A z \in T : f[z] \in Int /\ f[z] = g[z]) /\ U \ {y} = T
      /\ U \in SUBSET (S \cup {y}) /\ \A z \in U : g[z] \in Int
  OBVIOUS
<1>2. b[r][a][w][field] = SumFunctionOnSet(f, T)
  BY DEF Accounted
<1> HIDE DEF T, U
<1>3. IsFiniteSet(S \cup {y})
  BY FS_AddElement
<1>4. IsFiniteSet(T) /\ IsFiniteSet(U)
  BY <1>1, <1>3, FS_Subset
<1>5. SumFunctionOnSet(f, T) = SumFunctionOnSet(g, T)
  BY <1>1, <1>4, SumEqual
<1>6. SumFunctionOnSet(g, U) = SumFunctionOnSet(g, T)
  <2>1. CASE y \in U
    <3>1. SumFunctionOnSet(g, U) = g[y] + SumFunctionOnSet(g, U \ {y})
      BY <1>1, <1>4, <2>1, SumTakeOut
    <3>2. SumFunctionOnSet(g, T) \in Int
      <4>1. \A z \in T : g[z] \in Int
        BY <1>1
      <4> QED
        BY <1>4, <4>1, SumInt
    <3> QED
      BY <1>1, <3>1, <3>2
  <2>2. CASE y \notin U
    <3>1. U = T
      BY <1>1, <2>2
    <3> QED
      BY <3>1
  <2> QED
    BY <2>1, <2>2
<1> QED
  BY <1>2, <1>5, <1>6 DEF T, U

LockKey == [p \in Approvals |-> <<p.round, p.sellAsset, p.client>>]
KeyOf(W) == [i \in DOMAIN W |-> <<W[i].round, W[i].asset, W[i].wallet>>]
TakingOf(W) == [i \in DOMAIN W |-> IF Booked(W[i]) THEN W[i].amount ELSE 0]

\* Accounts b go with what the approvals lock, f, and with the withdrawals W.
Sound(b, f, W) ==
    /\ b \in Books
    /\ Accounted(b, "locked", f, Approvals, LockKey)
    /\ Accounted(b, "withdrawn", TakingOf(W), DOMAIN W, KeyOf(W))

LEMMA SoundIs ==
    /\ Sound(accounts, Locking, withdrawals)
          <=> accounts \in Books /\ LocksAccounted /\ WithdrawalsBooked
    /\ Sound(accounts', Locking', withdrawals')
          <=> accounts' \in Books /\ LocksAccounted' /\ WithdrawalsBooked'
<1>1. \A r \in Rounds, a \in Assets, w \in Wallets :
         ApprovalsFor(r, a, w) = {p \in Approvals : LockKey[p] = <<r, a, w>>}
  BY DEF ApprovalsFor, LockKey
<1>2. \A r \in Rounds, a \in Assets, w \in Wallets :
         /\ WithdrawalsFrom(r, a, w) =
               {i \in DOMAIN withdrawals : KeyOf(withdrawals)[i] = <<r, a, w>>}
         /\ WithdrawalsFrom(r, a, w)' =
               {i \in DOMAIN withdrawals' : KeyOf(withdrawals')[i] = <<r, a, w>>}
  BY DEF WithdrawalsFrom, KeyOf
<1>3. Taking = TakingOf(withdrawals) /\ Taking' = TakingOf(withdrawals')
  BY DEF Taking, TakingOf
<1>4. \A r \in Rounds, a \in Assets, w \in Wallets :
         /\ accounts[r][a][w].locked = accounts[r][a][w]["locked"]
         /\ accounts'[r][a][w].locked = accounts'[r][a][w]["locked"]
         /\ accounts[r][a][w].withdrawn = accounts[r][a][w]["withdrawn"]
         /\ accounts'[r][a][w].withdrawn = accounts'[r][a][w]["withdrawn"]
  OBVIOUS
<1> DEFINE mine(r, a, w) == {p \in Approvals : LockKey[p] = <<r, a, w>>}
           its(r, a, w) == {i \in DOMAIN withdrawals : KeyOf(withdrawals)[i] = <<r, a, w>>}
           then(r, a, w) == {i \in DOMAIN withdrawals' : KeyOf(withdrawals')[i] = <<r, a, w>>}
           t == TakingOf(withdrawals)
           u == TakingOf(withdrawals')
<1>5. /\ LocksAccounted <=> \A r \in Rounds, a \in Assets, w \in Wallets :
            accounts[r][a][w]["locked"] = SumFunctionOnSet(Locking, mine(r, a, w))
      /\ LocksAccounted' <=> \A r \in Rounds, a \in Assets, w \in Wallets :
            accounts'[r][a][w]["locked"] = SumFunctionOnSet(Locking', mine(r, a, w))
  <2> HIDE DEF mine
  <2>1. \A r \in Rounds, a \in Assets, w \in Wallets : ApprovalsFor(r, a, w) = mine(r, a, w)
    BY <1>1 DEF mine
  <2> QED
    BY <1>4, <2>1 DEF LocksAccounted
<1>6. /\ WithdrawalsBooked <=> \A r \in Rounds, a \in Assets, w \in Wallets :
            accounts[r][a][w]["withdrawn"] = SumFunctionOnSet(t, its(r, a, w))
      /\ WithdrawalsBooked' <=> \A r \in Rounds, a \in Assets, w \in Wallets :
            accounts'[r][a][w]["withdrawn"] = SumFunctionOnSet(u, then(r, a, w))
  <2> HIDE DEF its, then
  <2>1. \A r \in Rounds, a \in Assets, w \in Wallets :
           /\ WithdrawalsFrom(r, a, w) = its(r, a, w)
           /\ WithdrawalsFrom(r, a, w)' = then(r, a, w)
    BY <1>2 DEF its, then
  <2> HIDE DEF t, u
  <2>2. Taking = t /\ Taking' = u
    BY <1>3 DEF t, u
  <2> QED
    BY <1>4, <2>1, <2>2 DEF WithdrawalsBooked
<1> QED
  BY <1>5, <1>6 DEF Sound, Accounted

LEMMA SoundLock ==
    ASSUME NEW b, NEW f, NEW W, Sound(b, f, W), NEW p \in Approvals,
           NEW g, NEW x, Adds(f, g, Approvals, p, x)
    PROVE  Sound(Book(b, p.round, p.sellAsset, p.client, "locked", x), g, W)
<1> DEFINE new == Book(b, p.round, p.sellAsset, p.client, "locked", x)
<1>1. /\ p.round \in Rounds /\ p.sellAsset \in Assets /\ p.client \in Wallets
      /\ LockKey[p] = <<p.round, p.sellAsset, p.client>>
      /\ "locked" \in Fields /\ "withdrawn" \in Fields /\ x \in Int
  BY ApprovalFacts DEF LockKey, Fields, Adds
<1>2. b \in Books /\ Accounted(b, "locked", f, Approvals, LockKey)
      /\ Accounted(b, "withdrawn", TakingOf(W), DOMAIN W, KeyOf(W))
  BY DEF Sound
<1>3. new \in Books
  BY <1>1, <1>2, BookFacts
<1>4. Accounted(new, "locked", g, Approvals, LockKey)
  BY <1>1, <1>2, AccountChange, ApprovalsFinite
<1>5. Accounted(new, "withdrawn", TakingOf(W), DOMAIN W, KeyOf(W))
  BY <1>1, <1>2, AccountOther
<1> QED
  BY <1>3, <1>4, <1>5 DEF Sound

LEMMA SoundOther ==
    ASSUME NEW b, NEW f, NEW W, Sound(b, f, W), NEW r \in Rounds, NEW a \in Assets,
           NEW w \in Wallets, NEW field \in {"deposited", "bought", "sold"}, NEW x \in Int
    PROVE  Sound(Book(b, r, a, w, field, x), f, W)
<1> DEFINE new == Book(b, r, a, w, field, x)
<1>1. /\ "locked" \in Fields /\ "withdrawn" \in Fields /\ field \in Fields
      /\ field # "locked" /\ field # "withdrawn"
  BY DEF Fields
<1>2. b \in Books /\ Accounted(b, "locked", f, Approvals, LockKey)
      /\ Accounted(b, "withdrawn", TakingOf(W), DOMAIN W, KeyOf(W))
  BY DEF Sound
<1>3. new \in Books
  BY <1>1, <1>2, BookFacts
<1>4. Accounted(new, "locked", f, Approvals, LockKey)
  BY <1>1, <1>2, AccountOther
<1>5. Accounted(new, "withdrawn", TakingOf(W), DOMAIN W, KeyOf(W))
  BY <1>1, <1>2, AccountOther
<1> QED
  BY <1>3, <1>4, <1>5 DEF Sound

LEMMA SoundLocking ==
    ASSUME NEW b, NEW f, NEW W, Sound(b, f, W),
           NEW g, \A p \in Approvals : f[p] \in Int /\ f[p] = g[p]
    PROVE  Sound(b, g, W)
<1>1. Accounted(b, "locked", f, Approvals, LockKey)
  BY DEF Sound
<1>2. Accounted(b, "locked", g, Approvals, LockKey)
  BY <1>1, ApprovalsFinite, AccountSame
<1> QED
  BY <1>2 DEF Sound

(* The withdrawals. *)

WithStatus(W, i, s) == [W EXCEPT ![i].status = s]
Statuses == {"unchecked", "pending", "confirmed", "canceled"}

LEMMA StatusFacts ==
    ASSUME NEW W \in Seq(Withdrawal), NEW i \in DOMAIN W, NEW s \in Statuses
    PROVE  /\ WithStatus(W, i, s) \in Seq(Withdrawal)
           /\ DOMAIN WithStatus(W, i, s) = DOMAIN W
           /\ KeyOf(WithStatus(W, i, s)) = KeyOf(W)
           /\ WithStatus(W, i, s)[i].status = s
           /\ \A j \in DOMAIN W \ {i} : WithStatus(W, i, s)[j] = W[j]
           /\ W[i].amount \in Nat
           /\ TakingOf(WithStatus(W, i, s))[i] =
                 IF s \in {"pending", "confirmed"} THEN W[i].amount ELSE 0
<1> DEFINE w == W[i]
           new == [w EXCEPT !.status = s]
           after == [W EXCEPT ![i] = new]
<1>1. w \in Withdrawal
  OBVIOUS
<1>2. /\ new \in Withdrawal /\ new.status = s /\ new.amount = w.amount
      /\ new.round = w.round /\ new.asset = w.asset /\ new.wallet = w.wallet /\ w.amount \in Nat
  BY <1>1 DEF Withdrawal, Statuses
<1>3. WithStatus(W, i, s) = after
  BY DEF WithStatus
<1> HIDE DEF new
<1>4. /\ after \in Seq(Withdrawal) /\ DOMAIN after = DOMAIN W /\ after[i] = new
      /\ \A j \in DOMAIN W \ {i} : after[j] = W[j]
  BY <1>2
<1> HIDE DEF after
<1>5. KeyOf(after) = KeyOf(W)
  <2>1. \A j \in DOMAIN W : <<after[j].round, after[j].asset, after[j].wallet>>
                               = <<W[j].round, W[j].asset, W[j].wallet>>
    BY <1>2, <1>4
  <2> QED
    BY <1>4, <2>1 DEF KeyOf
<1>6. TakingOf(after)[i] = IF s \in {"pending", "confirmed"} THEN w.amount ELSE 0
  BY <1>2, <1>4 DEF TakingOf, Booked
<1> QED
  BY <1>2, <1>3, <1>4, <1>5, <1>6

LEMMA TakingFacts ==
    ASSUME NEW W \in Seq(Withdrawal)
    PROVE  /\ IsFiniteSet(DOMAIN W)
           /\ \A i \in DOMAIN W :
                 /\ TakingOf(W)[i] \in Int
                 /\ KeyOf(W)[i] = <<W[i].round, W[i].asset, W[i].wallet>>
                 /\ W[i].round \in Rounds /\ W[i].asset \in Assets /\ W[i].wallet \in Wallets
                 /\ W[i].amount \in Nat /\ W[i].status \in Statuses
<1>1. IsFiniteSet(DOMAIN W)
  <2> DEFINE n == Len(W)
  <2>1. n \in Nat /\ DOMAIN W = 1 .. n
    OBVIOUS
  <2> HIDE DEF n
  <2>2. IsFiniteSet(1 .. n)
    BY <2>1, FS_Interval
  <2> QED
    BY <2>1, <2>2
<1>2. \A i \in DOMAIN W : W[i] \in Withdrawal
  OBVIOUS
<1>3. \A i \in DOMAIN W : /\ W[i].round \in Rounds /\ W[i].asset \in Assets
                          /\ W[i].wallet \in Wallets /\ W[i].amount \in Nat
                          /\ W[i].status \in Statuses
  BY <1>2 DEF Withdrawal, Statuses
<1>4. \A i \in DOMAIN W : TakingOf(W)[i] \in Int
  BY <1>3 DEF TakingOf
<1> QED
  BY <1>1, <1>3, <1>4 DEF KeyOf

\* A withdrawal that changes what it takes, and is booked.
LEMMA SoundWithdraw ==
    ASSUME NEW b, NEW f, NEW W \in Seq(Withdrawal), Sound(b, f, W),
           NEW i \in DOMAIN W, NEW s \in Statuses, NEW x \in Int,
           TakingOf(WithStatus(W, i, s))[i] = TakingOf(W)[i] + x
    PROVE  Sound(Book(b, W[i].round, W[i].asset, W[i].wallet, "withdrawn", x), f,
                 WithStatus(W, i, s))
<1> DEFINE new == Book(b, W[i].round, W[i].asset, W[i].wallet, "withdrawn", x)
           V == WithStatus(W, i, s)
           t == TakingOf(W)
           u == TakingOf(V)
<1>1. /\ "locked" \in Fields /\ "withdrawn" \in Fields
      /\ W[i].round \in Rounds /\ W[i].asset \in Assets /\ W[i].wallet \in Wallets
      /\ KeyOf(W)[i] = <<W[i].round, W[i].asset, W[i].wallet>> /\ IsFiniteSet(DOMAIN W)
  BY TakingFacts DEF Fields
<1>2. /\ DOMAIN V = DOMAIN W /\ KeyOf(V) = KeyOf(W) /\ \A j \in DOMAIN W \ {i} : V[j] = W[j]
  BY StatusFacts
<1>3. Adds(t, u, DOMAIN W, i, x)
  <2>1. \A j \in DOMAIN W : t[j] \in Int
    BY TakingFacts
  <2>2. \A j \in DOMAIN W \ {i} : u[j] = t[j]
    BY <1>2 DEF TakingOf
  <2> QED
    BY <2>1, <2>2 DEF Adds
<1>4. b \in Books /\ Accounted(b, "locked", f, Approvals, LockKey)
      /\ Accounted(b, "withdrawn", t, DOMAIN W, KeyOf(W))
  BY DEF Sound
<1> HIDE DEF t, u, V
<1>5. new \in Books
  BY <1>1, <1>4, BookFacts
<1>6. Accounted(new, "locked", f, Approvals, LockKey)
  BY <1>1, <1>4, AccountOther
<1>7. Accounted(new, "withdrawn", u, DOMAIN W, KeyOf(W))
  BY <1>1, <1>3, <1>4, AccountChange
<1> QED
  BY <1>2, <1>5, <1>6, <1>7 DEF Sound, u, V

\* One that goes on taking what it took.
LEMMA SoundStatus ==
    ASSUME NEW b, NEW f, NEW W \in Seq(Withdrawal), Sound(b, f, W),
           NEW i \in DOMAIN W, NEW s \in Statuses,
           TakingOf(WithStatus(W, i, s))[i] = TakingOf(W)[i]
    PROVE  Sound(b, f, WithStatus(W, i, s))
<1> DEFINE V == WithStatus(W, i, s)
           t == TakingOf(W)
           u == TakingOf(V)
<1>1. DOMAIN V = DOMAIN W /\ KeyOf(V) = KeyOf(W) /\ \A j \in DOMAIN W \ {i} : V[j] = W[j]
  BY StatusFacts
<1>2. IsFiniteSet(DOMAIN W) /\ \A j \in DOMAIN W : t[j] \in Int
  BY TakingFacts
<1>3. \A j \in DOMAIN W : t[j] \in Int /\ t[j] = u[j]
  <2>1. \A j \in DOMAIN W \ {i} : u[j] = t[j]
    BY <1>1 DEF TakingOf
  <2> QED
    BY <1>2, <2>1
<1>4. Accounted(b, "withdrawn", t, DOMAIN W, KeyOf(W))
  BY DEF Sound
<1> HIDE DEF t, u
<1>5. Accounted(b, "withdrawn", u, DOMAIN W, KeyOf(W))
  BY <1>2, <1>3, <1>4, AccountSame
<1> QED
  BY <1>1, <1>5 DEF Sound, u

\* A new one, which takes nothing yet.
LEMMA SoundAppend ==
    ASSUME NEW b, NEW f, NEW W \in Seq(Withdrawal), Sound(b, f, W),
           NEW w \in Withdrawal, w.status = "unchecked"
    PROVE  Sound(b, f, Append(W, w))
<1> DEFINE V == Append(W, w)
           n == Len(W) + 1
           t == TakingOf(W)
           u == TakingOf(V)
<1>1. n \notin DOMAIN W /\ DOMAIN V = DOMAIN W \cup {n} /\ V[n] = w
      /\ \A j \in DOMAIN W : V[j] = W[j]
  BY AppendProperties
<1>2. IsFiniteSet(DOMAIN W) /\ \A j \in DOMAIN W : t[j] \in Int
  BY TakingFacts
<1>3. \A j \in DOMAIN W : t[j] \in Int /\ u[j] = t[j]
  BY <1>1, <1>2 DEF TakingOf
<1>4. u[n] = 0
  BY <1>1 DEF TakingOf, Booked
<1>5. \A j \in DOMAIN W : KeyOf(V)[j] = KeyOf(W)[j]
  BY <1>1 DEF KeyOf
<1>6. Accounted(b, "withdrawn", t, DOMAIN W, KeyOf(W))
  BY DEF Sound
<1> HIDE DEF t, u, n, V
<1>7. Accounted(b, "withdrawn", u, DOMAIN W \cup {n}, KeyOf(V))
  BY <1>1, <1>2, <1>3, <1>4, <1>5, <1>6, AccountMore
<1> QED
  BY <1>1, <1>7 DEF Sound, u, V

(* The rows of the approvals. *)

Rows == [Approvals -> Row]
LockedIn(row, p) == IF row.status \in {"open", "closed"} THEN p.sellAmount - row.filledSell ELSE 0
LockingOf(R) == [p \in Approvals |-> LockedIn(R[p], p)]
WithRow(R, p, row) == [R EXCEPT ![p] = row]

PlacedIn(R) == {p \in Approvals : R[p].status # "none"}
Count(R) == Cardinality(PlacedIn(R))
IdsOK(R) ==
    /\ \A p \in PlacedIn(R) : R[p].priority \in 1 .. Count(R)
    /\ \A p, q \in PlacedIn(R) : R[p].priority = R[q].priority => p = q

\* The next approval comes into the table.
Put(R, p) == WithRow(R, p, NewRow(Count(R) + 1))

LEMMA LockingIs ==
    /\ Locking = LockingOf(rows) /\ Locking' = LockingOf(rows')
    /\ RowIds <=> IdsOK(rows)
    /\ RowIds' <=> IdsOK(rows')
    /\ NextRowId = Count(rows) + 1
<1>1. Locking = LockingOf(rows) /\ Locking' = LockingOf(rows')
  BY DEF Locking, LockingOf, LockedIn, Live
<1>2. RowIds <=> IdsOK(rows)
  BY DEF RowIds, IdsOK, PlacedIn, Count, Placed
<1>3. RowIds' <=> IdsOK(rows')
  BY DEF RowIds, IdsOK, PlacedIn, Count, Placed
<1>4. NextRowId = Count(rows) + 1
  BY DEF NextRowId, Count, PlacedIn
<1> QED
  BY <1>1, <1>2, <1>3, <1>4

LEMMA LockingInt ==
    ASSUME NEW R \in Rows, NEW p \in Approvals
    PROVE  LockingOf(R)[p] \in Int /\ LockingOf(R)[p] = LockedIn(R[p], p)
<1>1. p.sellAmount \in Nat
  BY ApprovalFacts
<1>2. R[p] \in Row
  BY DEF Rows
<1> QED
  BY <1>1, <1>2 DEF LockingOf, LockedIn, Row

\* The row of an approval changes, and what the approval locks with it.
LEMMA ChangeRow ==
    ASSUME NEW R \in Rows, NEW b, NEW W, Sound(b, LockingOf(R), W),
           NEW p \in Approvals, NEW row \in Row, NEW x \in Int,
           LockedIn(row, p) = LockedIn(R[p], p) + x
    PROVE  /\ WithRow(R, p, row) \in Rows /\ WithRow(R, p, row)[p] = row
           /\ \A q \in Approvals \ {p} : WithRow(R, p, row)[q] = R[q]
           /\ Sound(Book(b, p.round, p.sellAsset, p.client, "locked", x),
                    LockingOf(WithRow(R, p, row)), W)
<1> DEFINE S == WithRow(R, p, row)
           f == LockingOf(R)
           g == LockingOf(S)
<1>1. S \in Rows /\ S[p] = row /\ \A q \in Approvals \ {p} : S[q] = R[q]
  BY DEF WithRow, Rows
<1> HIDE DEF S
<1>2. \A q \in Approvals : f[q] \in Int /\ f[q] = LockedIn(R[q], q) /\ g[q] = LockedIn(S[q], q)
  BY <1>1, LockingInt
<1>3. g[p] = f[p] + x /\ \A q \in Approvals \ {p} : g[q] = f[q]
  BY <1>1, <1>2
<1> HIDE DEF f, g
<1>4. Adds(f, g, Approvals, p, x)
  BY <1>2, <1>3 DEF Adds
<1>5. Sound(b, f, W)
  BY DEF f
<1>6. Sound(Book(b, p.round, p.sellAsset, p.client, "locked", x), g, W)
  BY <1>4, <1>5, SoundLock
<1> QED
  BY <1>1, <1>6 DEF S, g

LEMMA CountFacts ==
    ASSUME NEW R
    PROVE  IsFiniteSet(PlacedIn(R)) /\ Count(R) \in Nat
<1>1. PlacedIn(R) \in SUBSET Approvals
  BY DEF PlacedIn
<1>2. IsFiniteSet(PlacedIn(R))
  BY <1>1, ApprovalsFinite, FS_Subset
<1> QED
  BY <1>2, FS_CardinalityType DEF Count

LEMMA NewRowFacts ==
    ASSUME NEW id \in Nat
    PROVE  /\ NewRow(id) \in Row /\ NewRow(id).status = "open"
           /\ NewRow(id).filledSell = 0 /\ NewRow(id).priority = id
BY DEF NewRow, NoRow, Row

LEMMA PutFacts ==
    ASSUME NEW R \in Rows, NEW b, NEW W, Sound(b, LockingOf(R), W), IdsOK(R),
           NEW p \in Approvals, R[p].status = "none"
    PROVE  /\ Put(R, p) \in Rows /\ Count(Put(R, p)) = Count(R) + 1 /\ IdsOK(Put(R, p))
           /\ Put(R, p)[p].status = "open" /\ \A q \in Approvals \ {p} : Put(R, p)[q] = R[q]
           /\ Sound(Lock(b, p), LockingOf(Put(R, p)), W)
<1> DEFINE n == Count(R)
           row == NewRow(n + 1)
           S == Put(R, p)
<1>1. n \in Nat /\ n + 1 \in Nat /\ IsFiniteSet(PlacedIn(R))
  BY CountFacts
<1>2. row \in Row /\ row.status = "open" /\ row.filledSell = 0 /\ row.priority = n + 1
  BY <1>1, NewRowFacts
<1>3. p.sellAmount \in Nat
  BY ApprovalFacts
<1>4. LockedIn(R[p], p) = 0 /\ LockedIn(row, p) = p.sellAmount
  BY <1>2, <1>3 DEF LockedIn
<1> HIDE DEF row
<1>5. /\ WithRow(R, p, row) \in Rows /\ WithRow(R, p, row)[p] = row
      /\ \A q \in Approvals \ {p} : WithRow(R, p, row)[q] = R[q]
      /\ Sound(Book(b, p.round, p.sellAsset, p.client, "locked", p.sellAmount),
               LockingOf(WithRow(R, p, row)), W)
  <2> DEFINE x == p.sellAmount
  <2>1. x \in Int /\ LockedIn(row, p) = LockedIn(R[p], p) + x
    BY <1>3, <1>4
  <2> HIDE DEF x
  <2>2. /\ WithRow(R, p, row) \in Rows /\ WithRow(R, p, row)[p] = row
        /\ \A q \in Approvals \ {p} : WithRow(R, p, row)[q] = R[q]
        /\ Sound(Book(b, p.round, p.sellAsset, p.client, "locked", x),
                 LockingOf(WithRow(R, p, row)), W)
    BY <1>2, <2>1, ChangeRow
  <2> QED
    BY <2>2 DEF x
<1>6. S = WithRow(R, p, row)
  BY DEF Put, row
<1> HIDE DEF S
<1>7. PlacedIn(S) = PlacedIn(R) \cup {p} /\ p \notin PlacedIn(R)
  BY <1>2, <1>5, <1>6 DEF PlacedIn
<1>8. Count(S) = n + 1
  <2>1. Cardinality(PlacedIn(R) \cup {p}) = Cardinality(PlacedIn(R)) + 1
    BY <1>1, <1>7, FS_AddElement
  <2> QED
    BY <1>7, <2>1 DEF Count
<1>9. IdsOK(S)
  <2>1. \A q \in PlacedIn(R) : S[q] = R[q] /\ R[q].priority \in 1 .. n
    BY <1>5, <1>6, <1>7 DEF IdsOK, PlacedIn
  <2>2. S[p].priority = n + 1
    BY <1>2, <1>5, <1>6
  <2> HIDE DEF n
  <2>3. \A q \in PlacedIn(S) : S[q].priority \in 1 .. n + 1
    BY <1>1, <1>7, <2>1, <2>2
  <2>4. ASSUME NEW q \in PlacedIn(S), NEW u \in PlacedIn(S), S[q].priority = S[u].priority
        PROVE  q = u
    <3>1. CASE q = p \/ u = p
      <4>1. \A z \in PlacedIn(R) : S[z].priority # n + 1
        BY <1>1, <2>1
      <4> QED
        BY <1>7, <2>2, <2>4, <3>1, <4>1
    <3>2. CASE q # p /\ u # p
      <4>1. q \in PlacedIn(R) /\ u \in PlacedIn(R) /\ R[q].priority = R[u].priority
        BY <1>7, <2>1, <2>4, <3>2
      <4> QED
        BY <4>1 DEF IdsOK
    <3> QED
      BY <3>1, <3>2
  <2> QED
    BY <1>8, <2>3, <2>4 DEF IdsOK
<1> QED
  BY <1>2, <1>5, <1>6, <1>8, <1>9 DEF Lock, S

\* An approval that stays in the table keeps its number.
LEMMA KeepIds ==
    ASSUME NEW R, NEW S, IdsOK(R),
           \A q \in Approvals : /\ S[q].status = "none" <=> R[q].status = "none"
                                /\ S[q].priority = R[q].priority
    PROVE  IdsOK(S)
<1>1. PlacedIn(S) = PlacedIn(R)
  BY DEF PlacedIn
<1>2. Count(S) = Count(R)
  BY <1>1 DEF Count
<1>3. \A q \in PlacedIn(S) : q \in Approvals /\ q \in PlacedIn(R)
  BY <1>1 DEF PlacedIn
<1> QED
  BY <1>2, <1>3 DEF IdsOK

(* What the methods of the ledger keep. *)

Kept ==
    /\ rows \in Rows /\ IdsOK(rows) /\ withdrawals \in Seq(Withdrawal)
    /\ Sound(accounts, LockingOf(rows), withdrawals)

SamePlaces == \A p \in Approvals : rows'[p].status = "none" <=> rows[p].status = "none"

LEMMA KeptFrame ==
    ASSUME Kept, UNCHANGED <<accounts, rows, withdrawals>>
    PROVE  Kept' /\ SamePlaces
BY DEF Kept, SamePlaces

LEMMA InsertOrderKeeps ==
    ASSUME Kept, NEW o \in Orders, insertOrder(o, FeeOf(o)), UNCHANGED withdrawals
    PROVE  /\ Kept' /\ ~Placed(o) /\ rows'[o].status # "none"
           /\ \A p \in Approvals \ {o, FeeOf(o)} : rows'[p] = rows[p]
<1> DEFINE fee == FeeOf(o)
           mid == Put(rows, o)
           end == Put(mid, fee)
<1>1. o \in Approvals /\ fee \in Approvals /\ o # fee
  BY ApprovalsHere, ApprovalsDiffer
<1>2. /\ rows \in Rows /\ IdsOK(rows) /\ withdrawals \in Seq(Withdrawal)
      /\ Sound(accounts, LockingOf(rows), withdrawals)
  BY DEF Kept
<1>3. /\ rows[o].status = "none" /\ rows[fee].status = "none"
      /\ accounts' = Lock(Lock(accounts, o), fee)
      /\ rows' = [rows EXCEPT ![o] = NewRow(NextRowId), ![fee] = NewRow(NextRowId + 1)]
  BY DEF insertOrder
<1> HIDE DEF fee
<1>4. /\ mid \in Rows /\ Count(mid) = Count(rows) + 1 /\ IdsOK(mid)
      /\ mid[o].status = "open" /\ \A q \in Approvals \ {o} : mid[q] = rows[q]
      /\ Sound(Lock(accounts, o), LockingOf(mid), withdrawals)
  BY <1>1, <1>2, <1>3, PutFacts
<1> HIDE DEF mid
<1>5. mid[fee].status = "none"
  BY <1>1, <1>3, <1>4
<1>6. /\ end \in Rows /\ IdsOK(end)
      /\ \A q \in Approvals \ {fee} : end[q] = mid[q]
      /\ Sound(Lock(Lock(accounts, o), fee), LockingOf(end), withdrawals)
  BY <1>1, <1>4, <1>5, PutFacts
<1>7. rows' = end
  <2>1. NextRowId = Count(rows) + 1
    BY LockingIs
  <2>2. end = [mid EXCEPT ![fee] = NewRow(Count(mid) + 1)]
    BY DEF Put, WithRow
  <2>3. mid = [rows EXCEPT ![o] = NewRow(Count(rows) + 1)]
    BY DEF mid, Put, WithRow
  <2> QED
    BY <1>3, <1>4, <2>1, <2>2, <2>3
<1> HIDE DEF end
<1>8. Kept'
  BY <1>2, <1>3, <1>6, <1>7 DEF Kept
<1>9. \A p \in Approvals \ {o, fee} : rows'[p] = rows[p]
  BY <1>4, <1>6, <1>7
<1>10. ~Placed(o) /\ rows'[o].status # "none"
  BY <1>1, <1>3, <1>4, <1>6, <1>7 DEF Placed
<1> QED
  BY <1>8, <1>9, <1>10 DEF fee

LEMMA InsertApprovalKeeps ==
    ASSUME Kept, NEW p \in Approvals, ~Placed(p), insertApproval(p), UNCHANGED withdrawals
    PROVE  Kept' /\ \A q \in Approvals \ {p} : rows'[q] = rows[q]
<1>1. /\ rows \in Rows /\ IdsOK(rows) /\ withdrawals \in Seq(Withdrawal)
      /\ Sound(accounts, LockingOf(rows), withdrawals)
  BY DEF Kept
<1>2. rows[p].status = "none"
  BY DEF Placed
<1>3. /\ Put(rows, p) \in Rows /\ IdsOK(Put(rows, p))
      /\ \A q \in Approvals \ {p} : Put(rows, p)[q] = rows[q]
      /\ Sound(Lock(accounts, p), LockingOf(Put(rows, p)), withdrawals)
  BY <1>1, <1>2, PutFacts
<1>4. accounts' = Lock(accounts, p) /\ rows' = Put(rows, p)
  BY LockingIs DEF insertApproval, Put, WithRow
<1> QED
  BY <1>1, <1>3, <1>4 DEF Kept

\* One row changes, of an approval that stays in the table.
LEMMA RowKeeps ==
    ASSUME NEW b, Kept, Sound(b, LockingOf(rows), withdrawals), NEW p \in Approvals,
           NEW row \in Row, NEW x \in Int,
           LockedIn(row, p) = LockedIn(rows[p], p) + x,
           rows[p].status # "none", row.status # "none", row.priority = rows[p].priority,
           accounts' = Book(b, p.round, p.sellAsset, p.client, "locked", x),
           rows' = WithRow(rows, p, row), UNCHANGED withdrawals
    PROVE  Kept' /\ SamePlaces
<1>1. rows \in Rows /\ IdsOK(rows) /\ withdrawals \in Seq(Withdrawal)
  BY DEF Kept
<1>2. /\ WithRow(rows, p, row) \in Rows /\ WithRow(rows, p, row)[p] = row
      /\ \A q \in Approvals \ {p} : WithRow(rows, p, row)[q] = rows[q]
      /\ Sound(Book(b, p.round, p.sellAsset, p.client, "locked", x),
               LockingOf(WithRow(rows, p, row)), withdrawals)
  BY <1>1, ChangeRow
<1>3. /\ rows' \in Rows /\ rows'[p] = row /\ \A q \in Approvals \ {p} : rows'[q] = rows[q]
      /\ Sound(accounts', LockingOf(rows'), withdrawals)
  BY <1>2
<1>4. \A q \in Approvals : /\ rows'[q].status = "none" <=> rows[q].status = "none"
                           /\ rows'[q].priority = rows[q].priority
  BY <1>3
<1>5. IdsOK(rows')
  BY <1>1, <1>4, KeepIds
<1> QED
  BY <1>1, <1>3, <1>4, <1>5 DEF Kept, SamePlaces

LEMMA FilledRowFacts ==
    ASSUME Kept, NEW p \in Approvals, NEW buy \in Nat, NEW sell \in Nat
    PROVE  /\ FilledRow(p, buy, sell) \in Row
           /\ FilledRow(p, buy, sell).status \in {"open", "closed"}
           /\ FilledRow(p, buy, sell).filledSell = rows[p].filledSell + sell
           /\ FilledRow(p, buy, sell).priority = rows[p].priority
           /\ rows[p] \in Row
<1> DEFINE old == rows[p]
           bought == old.filledBuy + buy
           sold == old.filledSell + sell
           row == [old EXCEPT !.filledBuy = bought, !.filledSell = sold]
           filled == IF p.intent THEN row.filledBuy >= p.buyAmount
                                 ELSE row.filledSell >= p.sellAmount
           s == IF filled THEN "closed" ELSE "open"
           new == [row EXCEPT !.status = s]
<1>1. old \in Row
  BY DEF Kept, Rows
<1> HIDE DEF old
<1>2. row \in Row /\ row.filledSell = sold /\ row.priority = old.priority
  <2>1. bought \in Nat /\ sold \in Nat
    BY <1>1 DEF Row
  <2> HIDE DEF bought, sold
  <2> QED
    BY <1>1, <2>1 DEF Row
<1>3. FilledRow(p, buy, sell) = new
  BY DEF FilledRow, old
<1>4. s \in {"open", "closed"}
  OBVIOUS
<1> HIDE DEF row, s
<1>5. new \in Row /\ new.status = s /\ new.filledSell = row.filledSell
      /\ new.priority = row.priority
  BY <1>2, <1>4 DEF Row
<1> HIDE DEF new
<1> QED
  BY <1>1, <1>2, <1>3, <1>4, <1>5 DEF old

LEMMA InsertFillKeeps ==
    ASSUME Kept, NEW id, NEW p \in Approvals, NEW buy \in Nat, NEW sell \in Nat, NEW r,
           insertFill(id, p, buy, sell, r), UNCHANGED withdrawals
    PROVE  Kept' /\ SamePlaces
<1> DEFINE sold == Book(accounts, p.round, p.sellAsset, p.client, "sold", sell)
           unlocked == Book(sold, p.round, p.sellAsset, p.client, "locked", -sell)
           row == FilledRow(p, buy, sell)
           after == WithRow(rows, p, row)
<1>1. /\ rows[p].status = "open" /\ p.round = r
      /\ accounts' = Book(unlocked, p.round, p.buyAsset, p.client, "bought", buy)
      /\ rows' = after
  BY DEF insertFill, FillAccepted, WithRow
<1>2. /\ p.round \in Rounds /\ p.sellAsset \in Assets /\ p.buyAsset \in Assets
      /\ p.client \in Wallets /\ p.sellAmount \in Nat
  BY ApprovalFacts
<1>3. /\ rows \in Rows /\ IdsOK(rows) /\ withdrawals \in Seq(Withdrawal)
      /\ Sound(accounts, LockingOf(rows), withdrawals)
  BY DEF Kept
<1>4. Sound(sold, LockingOf(rows), withdrawals)
  BY <1>2, <1>3, SoundOther
<1>5. /\ row \in Row /\ row.status \in {"open", "closed"} /\ row.priority = rows[p].priority
      /\ row.filledSell = rows[p].filledSell + sell /\ rows[p] \in Row
  BY FilledRowFacts
<1> HIDE DEF sold, row
<1>6. -sell \in Int /\ LockedIn(row, p) = LockedIn(rows[p], p) + (-sell)
  <2>1. rows[p].filledSell \in Nat
    BY <1>5 DEF Row
  <2> QED
    BY <1>1, <1>2, <1>5, <2>1 DEF LockedIn
<1>7. /\ after \in Rows /\ after[p] = row /\ \A q \in Approvals \ {p} : after[q] = rows[q]
      /\ Sound(unlocked, LockingOf(after), withdrawals)
  <2> DEFINE x == -sell
  <2>1. x \in Int /\ LockedIn(row, p) = LockedIn(rows[p], p) + x
    BY <1>6
  <2> HIDE DEF x
  <2>2. /\ WithRow(rows, p, row) \in Rows /\ WithRow(rows, p, row)[p] = row
        /\ \A q \in Approvals \ {p} : WithRow(rows, p, row)[q] = rows[q]
        /\ Sound(Book(sold, p.round, p.sellAsset, p.client, "locked", x),
                 LockingOf(WithRow(rows, p, row)), withdrawals)
    BY <1>3, <1>4, <1>5, <2>1, ChangeRow
  <2> QED
    BY <2>2 DEF x
<1> HIDE DEF unlocked, after
<1>8. Sound(accounts', LockingOf(rows'), withdrawals)
  <2>1. Sound(Book(unlocked, p.round, p.buyAsset, p.client, "bought", buy), LockingOf(after),
              withdrawals)
    BY <1>2, <1>7, SoundOther
  <2> QED
    BY <1>1, <2>1
<1>9. \A q \in Approvals : /\ rows'[q].status = "none" <=> rows[q].status = "none"
                           /\ rows'[q].priority = rows[q].priority
  BY <1>1, <1>5, <1>7
<1>10. IdsOK(rows')
  BY <1>3, <1>9, KeepIds
<1> QED
  BY <1>1, <1>3, <1>7, <1>8, <1>9, <1>10 DEF Kept, SamePlaces

LEMMA CancelKeeps ==
    ASSUME Kept, NEW p \in Approvals, cancelApproval(p), UNCHANGED withdrawals
    PROVE  Kept' /\ SamePlaces
<1> DEFINE old == rows[p]
           row == [old EXCEPT !.status = "canceled"]
           rest == p.sellAmount - old.filledSell
           x == -rest
<1>1. /\ old.status = "open" /\ rows' = WithRow(rows, p, row)
      /\ accounts' = Book(accounts, p.round, p.sellAsset, p.client, "locked", x)
  BY DEF cancelApproval, WithRow
<1>2. old \in Row /\ p.sellAmount \in Nat
  BY ApprovalFacts DEF Kept, Rows
<1> HIDE DEF old
<1>3. row \in Row /\ row.status = "canceled" /\ row.priority = old.priority
  BY <1>2 DEF Row
<1>4. x \in Int /\ LockedIn(row, p) = LockedIn(old, p) + x
  BY <1>1, <1>2, <1>3 DEF LockedIn, Row
<1>5. Sound(accounts, LockingOf(rows), withdrawals)
  BY DEF Kept
<1> HIDE DEF x, row
<1> QED
  BY <1>1, <1>3, <1>4, <1>5, RowKeeps DEF old

LEMMA CreditKeeps ==
    ASSUME Kept, NEW r \in Rounds, NEW a \in Assets, NEW w \in Wallets, NEW x \in Nat,
           creditDeposit(a, w, x, r), UNCHANGED <<rows, withdrawals>>
    PROVE  Kept' /\ SamePlaces
<1>1. accounts' = Book(accounts, r, a, w, "deposited", x)
  BY DEF creditDeposit
<1>2. Sound(accounts, LockingOf(rows), withdrawals)
  BY DEF Kept
<1>3. Sound(accounts', LockingOf(rows), withdrawals)
  BY <1>1, <1>2, SoundOther
<1> QED
  BY <1>3 DEF Kept, SamePlaces

LEMMA InsertWithdrawalKeeps ==
    ASSUME Kept, NEW w \in Withdrawal, insertWithdrawal(w), UNCHANGED <<accounts, rows>>
    PROVE  /\ Kept' /\ SamePlaces
           /\ \A i \in DOMAIN withdrawals :
                 i \in DOMAIN withdrawals' /\ withdrawals'[i] = withdrawals[i]
<1> DEFINE new == [w EXCEPT !.status = "unchecked"]
<1>1. withdrawals' = Append(withdrawals, new)
  BY DEF insertWithdrawal
<1>2. new \in Withdrawal /\ new.status = "unchecked"
  BY DEF Withdrawal
<1> HIDE DEF new
<1>3. withdrawals \in Seq(Withdrawal) /\ Sound(accounts, LockingOf(rows), withdrawals)
  BY DEF Kept
<1>4. Sound(accounts, LockingOf(rows), Append(withdrawals, new))
  BY <1>2, <1>3, SoundAppend
<1>5. /\ Append(withdrawals, new) \in Seq(Withdrawal)
      /\ \A i \in DOMAIN withdrawals :
            i \in DOMAIN Append(withdrawals, new) /\ Append(withdrawals, new)[i] = withdrawals[i]
  BY <1>2, <1>3, AppendProperties
<1> QED
  BY <1>1, <1>4, <1>5 DEF Kept, SamePlaces

LEMMA ApproveWithdrawalKeeps ==
    ASSUME Kept, NEW i \in DOMAIN withdrawals, withdrawals[i].status = "unchecked",
           approveWithdrawal(i), UNCHANGED rows
    PROVE  /\ Kept' /\ SamePlaces /\ DOMAIN withdrawals' = DOMAIN withdrawals
           /\ \A j \in DOMAIN withdrawals \ {i} : withdrawals'[j] = withdrawals[j]
<1> DEFINE w == withdrawals[i]
           x == w.amount
<1>1. /\ withdrawals' = WithStatus(withdrawals, i, "pending")
      /\ accounts' = Book(accounts, w.round, w.asset, w.wallet, "withdrawn", x)
  BY DEF approveWithdrawal, WithStatus
<1>2. withdrawals \in Seq(Withdrawal) /\ Sound(accounts, LockingOf(rows), withdrawals)
  BY DEF Kept
<1>3. "pending" \in Statuses /\ "pending" \in {"pending", "confirmed"}
  BY DEF Statuses
<1>4. /\ WithStatus(withdrawals, i, "pending") \in Seq(Withdrawal)
      /\ DOMAIN WithStatus(withdrawals, i, "pending") = DOMAIN withdrawals
      /\ \A j \in DOMAIN withdrawals \ {i} :
            WithStatus(withdrawals, i, "pending")[j] = withdrawals[j]
      /\ x \in Nat /\ TakingOf(WithStatus(withdrawals, i, "pending"))[i] = x
  BY <1>2, <1>3, StatusFacts
<1>5. TakingOf(withdrawals)[i] = 0
  BY DEF TakingOf, Booked
<1>6. Sound(accounts', LockingOf(rows), withdrawals')
  <2>1. x \in Int /\ TakingOf(WithStatus(withdrawals, i, "pending"))[i] = TakingOf(withdrawals)[i] + x
    BY <1>4, <1>5
  <2>2. Sound(Book(accounts, withdrawals[i].round, withdrawals[i].asset, withdrawals[i].wallet,
                   "withdrawn", x),
              LockingOf(rows), WithStatus(withdrawals, i, "pending"))
    <3> HIDE DEF x
    <3> QED
      BY <1>2, <1>3, <2>1, SoundWithdraw
  <2> QED
    BY <1>1, <2>2
<1> QED
  BY <1>1, <1>4, <1>6 DEF Kept, SamePlaces

LEMMA FirstOfFacts ==
    ASSUME NEW w, NEW states, NEW i \in FirstOf(w, states)
    PROVE  /\ i \in DOMAIN withdrawals /\ withdrawals[i].status \in states
           /\ \A j \in DOMAIN withdrawals :
                 withdrawals[j].asset = w.asset /\ withdrawals[j].wallet = w.wallet
                 /\ withdrawals[j].status \in states => i <= j
<1> DEFINE S == {j \in DOMAIN withdrawals : /\ withdrawals[j].asset = w.asset
                                            /\ withdrawals[j].wallet = w.wallet
                                            /\ withdrawals[j].status \in states}
<1>1. i \in {k \in S : \A j \in S : k <= j}
  BY DEF FirstOf
<1>2. i \in S /\ \A j \in S : i <= j
  BY <1>1
<1>3. i \in DOMAIN withdrawals /\ withdrawals[i].status \in states
  BY <1>2
<1>4. ASSUME NEW j \in DOMAIN withdrawals, withdrawals[j].asset = w.asset,
             withdrawals[j].wallet = w.wallet, withdrawals[j].status \in states
      PROVE  i <= j
  <2>1. j \in S
    BY <1>4
  <2> HIDE DEF S
  <2> QED
    BY <1>2, <2>1
<1> QED
  BY <1>3, <1>4

LEMMA CancelWithdrawalKeeps ==
    ASSUME Kept, NEW w, NEW cached, cancelWithdrawalAsync(cached, w), UNCHANGED rows
    PROVE  /\ Kept' /\ SamePlaces /\ DOMAIN withdrawals' = DOMAIN withdrawals
           /\ \E i \in FirstOf(w, {"pending", "unchecked"}) :
                 \A j \in DOMAIN withdrawals \ {i} : withdrawals'[j] = withdrawals[j]
<1>1. PICK i \in FirstOf(w, {"pending", "unchecked"}) :
         /\ withdrawals' = WithStatus(withdrawals, i, "canceled")
         /\ IF withdrawals[i].status = "pending"
            THEN accounts' = Book(accounts, withdrawals[i].round, withdrawals[i].asset,
                                  withdrawals[i].wallet, "withdrawn", -withdrawals[i].amount)
            ELSE UNCHANGED accounts
  BY DEF cancelWithdrawalAsync, WithStatus
<1>2. /\ i \in DOMAIN withdrawals /\ withdrawals[i].status \in {"pending", "unchecked"}
  BY FirstOfFacts
<1>3. withdrawals \in Seq(Withdrawal) /\ Sound(accounts, LockingOf(rows), withdrawals)
  BY DEF Kept
<1> DEFINE V == WithStatus(withdrawals, i, "canceled")
           x == -withdrawals[i].amount
<1>4. "canceled" \in Statuses
  BY DEF Statuses
<1>5. /\ V \in Seq(Withdrawal) /\ DOMAIN V = DOMAIN withdrawals
      /\ \A j \in DOMAIN withdrawals \ {i} : V[j] = withdrawals[j]
      /\ withdrawals[i].amount \in Nat /\ TakingOf(V)[i] = 0
  BY <1>2, <1>3, <1>4, StatusFacts
<1>6. Sound(accounts', LockingOf(rows), V)
  <2>1. CASE withdrawals[i].status = "pending"
    <3>1. x \in Int /\ TakingOf(V)[i] = TakingOf(withdrawals)[i] + x
      BY <1>2, <1>5, <2>1 DEF TakingOf, Booked
    <3> HIDE DEF x
    <3>2. Sound(Book(accounts, withdrawals[i].round, withdrawals[i].asset,
                     withdrawals[i].wallet, "withdrawn", x), LockingOf(rows), V)
      BY <1>2, <1>3, <1>4, <3>1, SoundWithdraw
    <3> QED
      BY <1>1, <2>1, <3>2 DEF x
  <2>2. CASE withdrawals[i].status = "unchecked"
    <3>1. TakingOf(V)[i] = TakingOf(withdrawals)[i]
      BY <1>2, <1>5, <2>2 DEF TakingOf, Booked
    <3>2. Sound(accounts, LockingOf(rows), V)
      BY <1>2, <1>3, <1>4, <3>1, SoundStatus
    <3> QED
      BY <1>1, <2>2, <3>2
  <2> QED
    BY <1>2, <2>1, <2>2
<1> HIDE DEF V
<1>7. withdrawals' = V
  BY <1>1 DEF V
<1> QED
  BY <1>5, <1>6, <1>7 DEF Kept, SamePlaces

LEMMA ConfirmWithdrawalKeeps ==
    ASSUME Kept, NEW w, confirmWithdrawalAsync(w), UNCHANGED <<accounts, rows>>
    PROVE  /\ Kept' /\ SamePlaces /\ DOMAIN withdrawals' = DOMAIN withdrawals
           /\ \A j \in DOMAIN withdrawals :
                 withdrawals[j].status # "pending" => withdrawals'[j] = withdrawals[j]
<1>1. PICK i \in FirstOf(w, {"pending"}) : withdrawals' = WithStatus(withdrawals, i, "confirmed")
  BY DEF confirmWithdrawalAsync, WithStatus
<1>2. i \in DOMAIN withdrawals /\ withdrawals[i].status = "pending"
  BY FirstOfFacts
<1>3. withdrawals \in Seq(Withdrawal) /\ Sound(accounts, LockingOf(rows), withdrawals)
  BY DEF Kept
<1> DEFINE V == WithStatus(withdrawals, i, "confirmed")
<1>4. "confirmed" \in Statuses /\ "confirmed" \in {"pending", "confirmed"}
  BY DEF Statuses
<1>5. /\ V \in Seq(Withdrawal) /\ DOMAIN V = DOMAIN withdrawals
      /\ \A j \in DOMAIN withdrawals \ {i} : V[j] = withdrawals[j]
      /\ TakingOf(V)[i] = withdrawals[i].amount
  BY <1>2, <1>3, <1>4, StatusFacts
<1>6. TakingOf(V)[i] = TakingOf(withdrawals)[i]
  BY <1>2, <1>5 DEF TakingOf, Booked
<1>7. Sound(accounts, LockingOf(rows), V)
  BY <1>2, <1>3, <1>4, <1>6, SoundStatus
<1> HIDE DEF V
<1>8. withdrawals' = V
  BY <1>1 DEF V
<1> QED
  BY <1>2, <1>5, <1>7, <1>8 DEF Kept, SamePlaces

\* The request that is moderated next is one that is still to be moderated.
LEMMA RequestIn ==
    ASSUME withdrawals \in Seq(Withdrawal), StillUnchecked,
           operatorPc \in {"moderate", "validate", "approve"}
    PROVE  /\ request \in moderating /\ request \in DOMAIN withdrawals
           /\ withdrawals[request].status = "unchecked"
           /\ \A i \in moderating : i \in Nat /\ request <= i
<1>1. moderating # {} /\ moderating \in SUBSET DOMAIN withdrawals
  BY DEF StillUnchecked
<1>2. moderating \in SUBSET Nat
  BY <1>1
<1>3. request \in moderating /\ \A i \in moderating : request <= i
  BY <1>1, <1>2, LeastIsIn DEF request
<1> QED
  BY <1>1, <1>2, <1>3 DEF StillUnchecked

(* The matching of an order with those in the book. *)

LEMMA MatchFields ==
    ASSUME NEW o \in Orders, NEW rest, NEW number
    PROVE  LET m == mkMatch(o, rest, number)
           IN /\ m.id = o.id /\ m.round = o.round
              /\ m.buyAsset = o.buyAsset /\ m.sellAsset = o.sellAsset
              /\ m.buyAmount = o.buyAmount /\ m.sellAmount = o.sellAmount
              /\ m.priority = number
<1>1. DOMAIN o = {"id", "client", "round", "intent", "buyAsset", "buyAmount",
                  "sellAsset", "sellAmount"}
  BY OrderFacts DEF Order
<1> DEFINE m == mkMatch(o, rest, number)
<1>2. \A x \in DOMAIN o : m[x] = o[x]
  BY <1>1 DEF mkMatch
<1>3. m["priority"] = number
  BY DEF mkMatch
<1> HIDE DEF m
<1>4. /\ m.id = o.id /\ m.round = o.round
      /\ m.buyAsset = o.buyAsset /\ m.sellAsset = o.sellAsset
      /\ m.buyAmount = o.buyAmount /\ m.sellAmount = o.sellAmount
      /\ m.priority = number
  BY <1>1, <1>2, <1>3
<1> QED
  BY <1>4 DEF m

Taker(o) == mkMatch(o, Side(o), rows[o].priority)

\* The makers that are let through are orders of the round that are in the table.
LEMMA MakersAreOrders ==
    ASSUME NEW o \in Orders, NEW m \in filter(Taker(o), MakersFor(o))
    PROVE  \E x \in Orders : /\ m = mkMatch(x, Remaining(x), rows[x].priority)
                             /\ rows[x].status = "open" /\ x.round = round
<1>1. m \in MakersFor(o)
  BY DEF filter
<1>2. PICK x \in Approvals : /\ m = mkMatch(x, Remaining(x), rows[x].priority)
                             /\ rows[x].status = "open" /\ x.round = round
                             /\ x.buyAsset = o.sellAsset /\ x.sellAsset = o.buyAsset
  BY <1>1 DEF MakersFor
<1>3. o.buyAsset # o.sellAsset
  BY OrderFacts
<1>4. x \in Orders
  BY <1>2, <1>3, ApprovalFacts
<1> QED
  BY <1>2, <1>4

LEMMA MakersSortable ==
    ASSUME rows \in Rows, IdsOK(rows), NEW o \in Orders
    PROVE  Sortable(filter(Taker(o), MakersFor(o)))
<1> DEFINE M == MakersFor(o)
           S == filter(Taker(o), M)
           made(x) == mkMatch(x, Remaining(x), rows[x].priority)
<1>1. IsFiniteSet(S)
  <2> DEFINE open == {x \in Approvals : /\ rows[x].status = "open" /\ x.round = round
                                        /\ x.buyAsset = o.sellAsset /\ x.sellAsset = o.buyAsset
                                        /\ priceMatch(o, x)}
             f == [x \in open |-> made(x)]
             T == {f[x] : x \in open}
  <2>1. IsFiniteSet(open)
    <3>1. open \in SUBSET Approvals
      OBVIOUS
    <3> HIDE DEF open
    <3> QED
      BY <3>1, ApprovalsFinite, FS_Subset
  <2>2. M = T
    BY DEF MakersFor
  <2>3. IsFiniteSet(T)
    <3> HIDE DEF f, open
    <3> QED
      BY <2>1, FiniteImage
  <2> HIDE DEF T
  <2>4. S \in SUBSET T
    BY <2>2 DEF filter
  <2> HIDE DEF S
  <2> QED
    BY <2>3, <2>4, FS_Subset
<1>2. ASSUME NEW m \in S
      PROVE  \E x \in Orders : /\ m = made(x) /\ m.priority = rows[x].priority
                               /\ x \in PlacedIn(rows)
                               /\ m.buyAmount \in Nat \ {0} /\ m.sellAmount \in Nat \ {0}
  <2>1. PICK x \in Orders : m = made(x) /\ rows[x].status = "open" /\ x.round = round
    BY MakersAreOrders
  <2>2. m.priority = rows[x].priority /\ m.buyAmount = x.buyAmount /\ m.sellAmount = x.sellAmount
    BY <2>1, MatchFields
  <2>3. x.buyAmount \in Nat \ {0} /\ x.sellAmount \in Nat \ {0}
    BY OrderFacts
  <2>4. x \in PlacedIn(rows)
    BY <2>1, ApprovalsHere DEF PlacedIn
  <2> QED
    BY <2>1, <2>2, <2>3, <2>4
<1> HIDE DEF S, made
<1>3. ASSUME NEW m \in S
      PROVE  {m.buyAmount, m.sellAmount} \subseteq Nat \ {0} /\ m.priority \in Nat
  <2>1. PICK x \in Orders : /\ m.priority = rows[x].priority /\ x \in PlacedIn(rows)
                            /\ m.buyAmount \in Nat \ {0} /\ m.sellAmount \in Nat \ {0}
    BY <1>2
  <2>2. rows[x] \in Row
    BY <2>1 DEF PlacedIn, Rows
  <2> QED
    BY <2>1, <2>2 DEF Row
<1>4. ASSUME NEW a \in S, NEW b \in S, a.priority = b.priority PROVE a = b
  <2>1. PICK x \in Orders : a = made(x) /\ a.priority = rows[x].priority /\ x \in PlacedIn(rows)
    BY <1>2
  <2>2. PICK y \in Orders : b = made(y) /\ b.priority = rows[y].priority /\ y \in PlacedIn(rows)
    BY <1>2
  <2>3. x = y
    BY <1>4, <2>1, <2>2 DEF IdsOK
  <2> QED
    BY <2>1, <2>2, <2>3
<1> QED
  BY <1>1, <1>3, <1>4 DEF Sortable, S

\* What a matching makes: fills of its order and of orders of the round, all with
\* the round of its order.
LEMMA MatchingFacts ==
    ASSUME rows \in Rows, IdsOK(rows), NEW o \in Orders
    PROVE  LET new == createTrades(Taker(o), MakersFor(o))
           IN /\ fillsOf(new) \in Seq(Fill)
              /\ \A k \in DOMAIN fillsOf(new) : fillsOf(new)[k].round = o.round
              /\ \A t \in ToSet(new) : /\ ApprovalWithId(t.left) = o
                                       /\ ApprovalWithId(t.right).round = round
                                       /\ ApprovalWithId(t.right) \in PlacedIn(rows)
<1> DEFINE S == filter(Taker(o), MakersFor(o))
           new == createTrades(Taker(o), MakersFor(o))
           F == [approval : Ids, buy : Nat, sell : Nat, round : {Taker(o).round}]
<1>1. new \in Seq(TradesOf(Taker(o), S))
  BY MakersSortable, CreateTradesFacts
<1>2. Taker(o).id = o.id /\ Taker(o).round = o.round
  BY MatchFields DEF Taker
<1>3. o.id \in Ids /\ o.round \in Rounds /\ ApprovalWithId(o.id) = o
  <2>1. o \in Approvals
    BY ApprovalsHere
  <2>2. o.id \in Ids /\ o.round \in Rounds
    BY <2>1, ApprovalFacts
  <2> QED
    BY <2>1, <2>2, IdIsOwn
<1>4. ASSUME NEW m \in S
      PROVE  /\ m.id \in Ids /\ ApprovalWithId(m.id).round = round
             /\ ApprovalWithId(m.id) \in PlacedIn(rows)
  <2>1. PICK x \in Orders : /\ m = mkMatch(x, Remaining(x), rows[x].priority)
                            /\ x.round = round /\ rows[x].status = "open"
    BY MakersAreOrders
  <2>2. m.id = x.id
    BY <2>1, MatchFields
  <2>3. x \in Approvals
    BY ApprovalsHere
  <2>4. x.id \in Ids
    BY <2>3 DEF Ids
  <2>5. ApprovalWithId(x.id) = x
    BY <2>3, IdIsOwn
  <2>6. x \in PlacedIn(rows)
    BY <2>1, <2>3 DEF PlacedIn
  <2> QED
    BY <2>1, <2>2, <2>4, <2>5, <2>6
<1> HIDE DEF S, new
<1>5. fillsOf(new) \in Seq(F)
  BY <1>1, <1>2, <1>3, <1>4, FillsOfFacts
<1>6. \A f \in F : f \in Fill /\ f.round = o.round
  BY <1>2, <1>3 DEF Fill
<1> HIDE DEF F
<1> DEFINE fs == fillsOf(new)
<1>7. fs \in Seq(Fill) /\ \A k \in DOMAIN fs : fs[k].round = o.round
  <2>1. fs \in Seq(F)
    BY <1>5
  <2> HIDE DEF fs
  <2> QED
    BY <1>6, <2>1
<1>8. ASSUME NEW t \in ToSet(new)
      PROVE  /\ ApprovalWithId(t.left) = o /\ ApprovalWithId(t.right).round = round
             /\ ApprovalWithId(t.right) \in PlacedIn(rows)
  <2>1. PICK k \in DOMAIN new : t = new[k]
    BY DEF ToSet
  <2>2. t \in TradesOf(Taker(o), S)
    BY <1>1, <2>1
  <2>3. t.left = Taker(o).id /\ \E m \in S : t.right = m.id
    BY <2>2 DEF TradesOf
  <2> QED
    BY <1>2, <1>3, <1>4, <2>3
<1> QED
  BY <1>7, <1>8 DEF new, fs

(***************************************************************************)
(* BooksInv is inductive.                                                  *)
(***************************************************************************)
Running ==
    /\ pc \in [Requests -> Places] /\ matchLock \in Requests \cup {NoOne}
    /\ todo \in [Requests -> Seq(Fill)] /\ LockIsHeld /\ FeesComeOnce

Operating ==
    /\ round \in Rounds /\ blockRound \in Rounds
    /\ operatorPc \in {"idle", "moderate", "validate", "approve", "commit"}
    /\ StillUnchecked

LEMMA BooksIs ==
    /\ BooksInv <=> Kept /\ Running /\ Operating
    /\ BooksInv' <=> Kept' /\ Running' /\ Operating'
<1>1. /\ LocksAccounted /\ WithdrawalsBooked /\ accounts \in Books
            <=> Sound(accounts, LockingOf(rows), withdrawals)
      /\ LocksAccounted' /\ WithdrawalsBooked' /\ accounts' \in Books
            <=> Sound(accounts', LockingOf(rows'), withdrawals')
  BY SoundIs, LockingIs
<1>2. /\ RowIds <=> IdsOK(rows)
      /\ RowIds' <=> IdsOK(rows')
  BY LockingIs
<1>3. BooksInv <=> Kept /\ Running /\ Operating
  BY <1>1, <1>2 DEF BooksInv, BooksTypeOK, Kept, Running, Operating, Books, Rows
<1>4. BooksInv' <=> Kept' /\ Running' /\ Operating'
  BY <1>1, <1>2 DEF BooksInv, BooksTypeOK, Kept, Running, Operating, Books, Rows
<1> QED
  BY <1>3, <1>4

\* The hub starts with its books in order: no rows, no locks, no request under way.
\* (MetaLedger.ts:87)
THEOREM BooksInit == ExchangeInit => BooksInv
<1> SUFFICES ASSUME ExchangeInit PROVE BooksInv
  OBVIOUS
<1>1. /\ accounts = [r \in Rounds |-> [a \in Assets |-> [w \in Wallets |-> NoAccount]]]
      /\ rows = [p \in Approvals |-> NoRow] /\ withdrawals = <<>>
      /\ pc = [r \in Requests |-> "new"] /\ matchLock = NoOne
      /\ todo = [r \in Requests |-> <<>>]
      /\ round = 0 /\ blockRound = 0 /\ operatorPc = "idle" /\ moderating = {}
  BY DEF ExchangeInit, LedgerInit
<1>2. NoAccount \in Account /\ NoAccount["locked"] = 0 /\ NoAccount["withdrawn"] = 0
      /\ NoRow \in Row /\ NoRow.status = "none"
  BY DEF NoAccount, Account, NoRow, Row
<1>3. /\ accounts \in Books /\ rows \in Rows /\ withdrawals \in Seq(Withdrawal)
      /\ \A p \in Approvals : rows[p].status = "none"
  BY <1>1, <1>2 DEF Books, Rows
<1>4. IdsOK(rows)
  <2>1. PlacedIn(rows) = {}
    BY <1>3 DEF PlacedIn
  <2> QED
    BY <2>1 DEF IdsOK
<1>5. Sound(accounts, LockingOf(rows), withdrawals)
  <2> DEFINE f == LockingOf(rows)
             W == withdrawals
             g == TakingOf(W)
  <2>1. \A p \in Approvals : f[p] = 0
    BY <1>3 DEF LockingOf, LockedIn
  <2>2. DOMAIN W = {}
    BY <1>1
  <2> HIDE DEF f, g, W
  <2>3. ASSUME NEW r \in Rounds, NEW a \in Assets, NEW w \in Wallets
        PROVE  /\ accounts[r][a][w]["locked"] =
                    SumFunctionOnSet(f, {p \in Approvals : LockKey[p] = <<r, a, w>>})
               /\ accounts[r][a][w]["withdrawn"] =
                    SumFunctionOnSet(g, {i \in DOMAIN W : KeyOf(W)[i] = <<r, a, w>>})
    <3> DEFINE T == {p \in Approvals : LockKey[p] = <<r, a, w>>}
               U == {i \in DOMAIN W : KeyOf(W)[i] = <<r, a, w>>}
    <3>1. accounts[r][a][w]["locked"] = 0 /\ accounts[r][a][w]["withdrawn"] = 0
      BY <1>1, <1>2
    <3>2. T \in SUBSET Approvals /\ \A p \in T : f[p] = 0
      BY <2>1
    <3>3. U = {}
      BY <2>2
    <3> HIDE DEF T, U
    <3>4. IsFiniteSet(T)
      BY <3>2, ApprovalsFinite, FS_Subset
    <3>5. SumFunctionOnSet(f, T) = 0
      BY <3>2, <3>4, SumZero
    <3>6. SumFunctionOnSet(g, U) = 0
      BY <3>3, SumEmpty
    <3> QED
      BY <3>1, <3>5, <3>6 DEF T, U
  <2> QED
    BY <1>3, <2>3 DEF Sound, Accounted, f, g, W
<1>6. Running
  <2>1. <<>> \in Seq(Fill)
    OBVIOUS
  <2>2. /\ pc \in [Requests -> Places] /\ matchLock \in Requests \cup {NoOne}
        /\ todo \in [Requests -> Seq(Fill)] /\ LockIsHeld
    BY <1>1, <2>1 DEF Places, LockIsHeld
  <2>3. FeesComeOnce
    BY <1>1, <1>3, ApprovalsHere DEF FeesComeOnce, Placed
  <2> QED
    BY <2>2, <2>3 DEF Running
<1>7. Operating
  BY <1>1, ExchangeAssumption DEF Operating, Rounds, StillUnchecked
<1> QED
  BY <1>3, <1>4, <1>5, <1>6, <1>7, BooksIs DEF Kept

(* Frames. *)

LEMMA RunFrame ==
    ASSUME Running, SamePlaces, UNCHANGED <<pc, matchLock, todo>>
    PROVE  Running'
<1>1. /\ pc' \in [Requests -> Places] /\ matchLock' \in Requests \cup {NoOne}
      /\ todo' \in [Requests -> Seq(Fill)] /\ LockIsHeld'
  BY DEF Running, LockIsHeld
<1>2. \A p \in Approvals : Placed(p)' <=> Placed(p)
  BY DEF SamePlaces, Placed
<1>3. \A r \in Requests : OrderOf[r] \in Orders
  BY DEF Orders
<1>4. FeesComeOnce'
  BY <1>2, <1>3, ApprovalsHere DEF Running, FeesComeOnce
<1> QED
  BY <1>1, <1>4 DEF Running

LEMMA OperatingFrame ==
    ASSUME Operating, UNCHANGED <<round, blockRound, operatorPc, moderating, withdrawals>>
    PROVE  Operating'
BY DEF Operating, StillUnchecked

\* A request goes on: it has the lock, or had the lock and has ended.
LEMMA RunStep ==
    ASSUME Running, NEW r \in Requests, NEW place \in Places, Goto(r, place),
           pc[r] \notin Ended, pc[r] = "new" => matchLock = NoOne,
           matchLock' = r \/ (place \in Ended /\ matchLock' = NoOne),
           todo' \in [Requests -> Seq(Fill)],
           \A o \in Orders : Placed(OwnApproval(o))' => Placed(o)',
           place = "fee" => Placed(OrderOf[r])' /\ ~Placed(OwnApproval(OrderOf[r]))'
    PROVE  Running'
<1>1. /\ pc \in [Requests -> Places] /\ NoOne \notin Requests
      /\ \A q \in Requests : pc[q] \notin Ended \cup {"new"} => matchLock = q
  BY ExchangeAssumption DEF Running, LockIsHeld
<1>2. pc' \in [Requests -> Places] /\ pc'[r] = place /\ \A q \in Requests \ {r} : pc'[q] = pc[q]
  BY <1>1 DEF Goto
<1>3. \A q \in Requests \ {r} : pc[q] \in Ended \cup {"new"}
  BY <1>1
<1>4. "fee" \notin Ended \cup {"new"}
  BY DEF Ended
<1>5. LockIsHeld'
  BY <1>2, <1>3 DEF LockIsHeld
<1>6. FeesComeOnce'
  BY <1>2, <1>3, <1>4 DEF FeesComeOnce
<1> QED
  BY <1>2, <1>5, <1>6 DEF Running

(* Requests. *)

LEMMA PlaceNames ==
    /\ {"check", "insert", "fee", "feeFills", "match", "tradeFills"} \cap (Ended \cup {"new"}) = {}
    /\ {"check", "insert", "fee", "feeFills", "match", "tradeFills"} \subseteq Places
    /\ Ended \subseteq Places /\ "new" \notin Ended
    /\ {"rejected", "unmatched", "done"} \subseteq Ended
BY DEF Ended, Places

LEMMA TodoStep ==
    ASSUME Running, NEW r \in Requests, NEW fs \in Seq(Fill), todo' = [todo EXCEPT ![r] = fs]
    PROVE  todo' \in [Requests -> Seq(Fill)]
BY DEF Running

\* An order that is handled is known, and what places others is known, too.
LEMMA PlacesStay ==
    ASSUME Running, SamePlaces
    PROVE  \A o \in Orders : Placed(OwnApproval(o))' => Placed(o)'
<1>1. \A p \in Approvals : Placed(p)' <=> Placed(p)
  BY DEF SamePlaces, Placed
<1> QED
  BY <1>1, ApprovalsHere DEF Running, FeesComeOnce

LEMMA FinishStep ==
    ASSUME Running, NEW r \in Requests, NEW place \in {"rejected", "unmatched", "done"},
           Finish(r, place), pc[r] \notin Ended \cup {"new"},
           \A o \in Orders : Placed(OwnApproval(o))' => Placed(o)'
    PROVE  Running'
<1>1. place \in Ended /\ place \in Places /\ pc[r] \notin Ended /\ pc[r] # "new" /\ place # "fee"
  BY PlaceNames DEF Ended
<1>2. todo' = [todo EXCEPT ![r] = <<>>] /\ Goto(r, place) /\ matchLock' = NoOne
  BY DEF Finish
<1>3. todo' \in [Requests -> Seq(Fill)]
  <2>1. <<>> \in Seq(Fill)
    OBVIOUS
  <2> QED
    BY <1>2, <2>1, TodoStep
<1> QED
  BY <1>1, <1>2, <1>3, RunStep

\* One that goes on with the lock.
LEMMA GoOnStep ==
    ASSUME Running, NEW r \in Requests, NEW place \in Places, Goto(r, place), place # "fee",
           pc[r] \notin Ended \cup {"new"}, UNCHANGED matchLock,
           todo' \in [Requests -> Seq(Fill)],
           \A o \in Orders : Placed(OwnApproval(o))' => Placed(o)'
    PROVE  Running'
<1>1. matchLock' = r /\ pc[r] \notin Ended /\ pc[r] # "new"
  BY DEF Running, LockIsHeld
<1> QED
  BY <1>1, RunStep

LEMMA LockKeeps ==
    ASSUME BooksInv, NEW r \in Requests, lock(r)
    PROVE  BooksInv'
<1>1. Kept /\ Running /\ Operating
  BY BooksIs
<1>2. /\ pc[r] = "new" /\ matchLock = NoOne /\ matchLock' = r /\ Goto(r, "check")
      /\ UNCHANGED <<accounts, rows, withdrawals, todo>>
      /\ UNCHANGED <<round, blockRound, operatorPc, moderating, withdrawals>>
  BY DEF lock, ledgerVars, tables, operatorVars
<1>3. Kept' /\ SamePlaces
  BY <1>1, <1>2, KeptFrame
<1>4. Running'
  <2>1. \A o \in Orders : Placed(OwnApproval(o))' => Placed(o)'
    BY <1>1, <1>3, PlacesStay
  <2>2. todo' \in [Requests -> Seq(Fill)]
    BY <1>1, <1>2 DEF Running
  <2>3. "check" \in Places /\ pc[r] \notin Ended /\ "check" # "fee"
    BY <1>2, PlaceNames
  <2> QED
    BY <1>1, <1>2, <2>1, <2>2, <2>3, RunStep
<1>5. Operating'
  BY <1>1, <1>2, OperatingFrame
<1> QED
  BY <1>3, <1>4, <1>5, BooksIs

LEMMA CheckKeeps ==
    ASSUME BooksInv, NEW r \in Requests, checkApproval(r)
    PROVE  BooksInv'
<1>1. Kept /\ Running /\ Operating
  BY BooksIs
<1>2. /\ pc[r] = "check" /\ UNCHANGED <<accounts, rows, withdrawals>>
      /\ (Goto(r, "insert") /\ UNCHANGED <<matchLock, todo>>) \/ Finish(r, "rejected")
      /\ UNCHANGED <<round, blockRound, operatorPc, moderating, withdrawals>>
  BY DEF checkApproval, ledgerVars, tables, operatorVars
<1>3. Kept' /\ SamePlaces
  BY <1>1, <1>2, KeptFrame
<1>4. Running'
  <2>1. \A o \in Orders : Placed(OwnApproval(o))' => Placed(o)'
    BY <1>1, <1>3, PlacesStay
  <2>2. pc[r] \notin Ended \cup {"new"}
    BY <1>2, PlaceNames
  <2>3. CASE Goto(r, "insert") /\ UNCHANGED <<matchLock, todo>>
    <3>1. todo' \in [Requests -> Seq(Fill)] /\ UNCHANGED matchLock
      BY <1>1, <2>3 DEF Running
    <3>2. "insert" \in Places /\ "insert" # "fee"
      BY PlaceNames
    <3> QED
      BY <1>1, <2>1, <2>2, <2>3, <3>1, <3>2, GoOnStep
  <2>4. CASE Finish(r, "rejected")
    BY <1>1, <2>1, <2>2, <2>4, FinishStep
  <2> QED
    BY <1>2, <2>3, <2>4
<1>5. Operating'
  BY <1>1, <1>2, OperatingFrame
<1> QED
  BY <1>3, <1>4, <1>5, BooksIs

LEMMA StoreOrderKeeps ==
    ASSUME BooksInv, NEW r \in Requests, storeOrder(r)
    PROVE  BooksInv'
<1> DEFINE o == OrderOf[r]
<1>1. Kept /\ Running /\ Operating /\ o \in Orders
  BY BooksIs DEF Orders
<1>2. /\ pc[r] = "insert" /\ UNCHANGED withdrawals
      /\ UNCHANGED <<round, blockRound, operatorPc, moderating, withdrawals>>
      /\ \/ insertOrder(o, FeeOf(o)) /\ Goto(r, "fee") /\ UNCHANGED <<matchLock, todo>>
         \/ Finish(r, "rejected") /\ UNCHANGED <<accounts, rows>>
  BY DEF storeOrder, operatorVars
<1> HIDE DEF o
<1>3. pc[r] \notin Ended \cup {"new"}
  BY <1>2, PlaceNames
<1>4. CASE insertOrder(o, FeeOf(o)) /\ Goto(r, "fee") /\ UNCHANGED <<matchLock, todo>>
  <2>1. /\ Kept' /\ ~Placed(o) /\ rows'[o].status # "none"
        /\ \A p \in Approvals \ {o, FeeOf(o)} : rows'[p] = rows[p]
    BY <1>1, <1>2, <1>4, InsertOrderKeeps
  <2>2. Placed(o)' /\ ~Placed(OwnApproval(o))
    BY <1>1, <2>1 DEF Placed, Running, FeesComeOnce
  <2>3. \A q \in Orders : OwnApproval(q) \in Approvals \ {o, FeeOf(o)}
    BY <1>1, ApprovalsHere, ApprovalsDiffer
  <2>4. \A q \in Orders : Placed(OwnApproval(q))' <=> Placed(OwnApproval(q))
    BY <2>1, <2>3 DEF Placed
  <2>5. \A q \in Orders \ {o} : Placed(q)' <=> Placed(q)
    <3>1. \A q \in Orders \ {o} : q \in Approvals \ {o, FeeOf(o)}
      BY <1>1, ApprovalsHere, ApprovalsDiffer
    <3> QED
      BY <2>1, <3>1 DEF Placed
  <2>6. \A q \in Orders : Placed(OwnApproval(q))' => Placed(q)'
    BY <1>1, <2>2, <2>4, <2>5 DEF Running, FeesComeOnce
  <2>7. matchLock' = r /\ todo' \in [Requests -> Seq(Fill)]
    BY <1>1, <1>3, <1>4 DEF Running, LockIsHeld
  <2>8. "fee" \in Places /\ pc[r] \notin Ended /\ pc[r] # "new"
    BY <1>3, PlaceNames
  <2>9. Placed(OrderOf[r])' /\ ~Placed(OwnApproval(OrderOf[r]))'
    BY <1>1, <2>2, <2>4 DEF o
  <2>10. Running'
    BY <1>1, <1>4, <2>6, <2>7, <2>8, <2>9, RunStep
  <2>11. Operating'
    BY <1>1, <1>2, OperatingFrame
  <2> QED
    BY <2>1, <2>10, <2>11, BooksIs
<1>5. CASE Finish(r, "rejected") /\ UNCHANGED <<accounts, rows>>
  <2>1. Kept' /\ SamePlaces
    BY <1>1, <1>2, <1>5, KeptFrame
  <2>2. \A q \in Orders : Placed(OwnApproval(q))' => Placed(q)'
    BY <1>1, <2>1, PlacesStay
  <2>3. Running'
    BY <1>1, <1>3, <1>5, <2>2, FinishStep
  <2>4. Operating'
    BY <1>1, <1>2, OperatingFrame
  <2> QED
    BY <2>1, <2>3, <2>4, BooksIs
<1> QED
  BY <1>2, <1>4, <1>5

LEMMA FillOfIn ==
    ASSUME NEW p \in Approvals
    PROVE  FillOf(p) \in Fill /\ FillOf(p).round = p.round
<1>1. p.id \in Ids /\ p.buyAmount \in Nat /\ p.sellAmount \in Nat /\ p.round \in Rounds
  BY ApprovalFacts
<1> QED
  BY <1>1 DEF FillOf, Fill

LEMMA StoreOperatorApprovalKeeps ==
    ASSUME BooksInv, NEW r \in Requests, storeOperatorApproval(r)
    PROVE  BooksInv'
<1> DEFINE o == OrderOf[r]
           fee == FeeOf(o)
           own == OwnApproval(o)
           fs == <<FillOf(fee), FillOf(own)>>
<1>1. Kept /\ Running /\ Operating /\ o \in Orders
  BY BooksIs DEF Orders
<1>2. /\ pc[r] = "fee" /\ UNCHANGED withdrawals
      /\ UNCHANGED <<round, blockRound, operatorPc, moderating, withdrawals>>
      /\ \/ /\ insertApproval(own) /\ Goto(r, "feeFills") /\ UNCHANGED matchLock
            /\ todo' = [todo EXCEPT ![r] = fs]
         \/ Finish(r, "rejected") /\ UNCHANGED <<accounts, rows>>
  BY DEF storeOperatorApproval, operatorVars, OwnApproval
<1> HIDE DEF o
<1>3. pc[r] \notin Ended \cup {"new"}
  BY <1>2, PlaceNames
<1>4. /\ own \in Approvals /\ fee \in Approvals /\ fs \in Seq(Fill)
  <2>1. own \in Approvals /\ fee \in Approvals
    BY <1>1, ApprovalsHere
  <2>2. FillOf(fee) \in Fill /\ FillOf(own) \in Fill
    BY <2>1, FillOfIn
  <2> QED
    BY <2>1, <2>2
<1>5. Placed(o) /\ ~Placed(own)
  BY <1>1, <1>2 DEF Running, FeesComeOnce, o
<1> HIDE DEF fs
<1>6. CASE /\ insertApproval(own) /\ Goto(r, "feeFills") /\ UNCHANGED matchLock
           /\ todo' = [todo EXCEPT ![r] = fs]
  <2>1. Kept' /\ \A q \in Approvals \ {own} : rows'[q] = rows[q]
    BY <1>1, <1>2, <1>4, <1>5, <1>6, InsertApprovalKeeps
  <2>2. \A q \in Orders : Placed(q)' <=> Placed(q)
    <3>1. \A q \in Orders : q \in Approvals \ {own}
      BY <1>1, ApprovalsHere, ApprovalsDiffer
    <3> QED
      BY <2>1, <3>1 DEF Placed
  <2>3. \A q \in Orders \ {o} : Placed(OwnApproval(q))' <=> Placed(OwnApproval(q))
    <3>1. \A q \in Orders \ {o} : OwnApproval(q) \in Approvals \ {own}
      BY <1>1, ApprovalsHere, ApprovalsDiffer
    <3> QED
      BY <2>1, <3>1 DEF Placed
  <2>4. \A q \in Orders : Placed(OwnApproval(q))' => Placed(q)'
    BY <1>1, <1>5, <2>2, <2>3 DEF Running, FeesComeOnce
  <2>5. todo' \in [Requests -> Seq(Fill)]
    BY <1>1, <1>4, <1>6, TodoStep
  <2>6. "feeFills" \in Places /\ "feeFills" # "fee"
    BY PlaceNames
  <2>7. Running'
    BY <1>1, <1>3, <1>6, <2>4, <2>5, <2>6, GoOnStep
  <2>8. Operating'
    BY <1>1, <1>2, OperatingFrame
  <2> QED
    BY <2>1, <2>7, <2>8, BooksIs
<1>7. CASE Finish(r, "rejected") /\ UNCHANGED <<accounts, rows>>
  <2>1. Kept' /\ SamePlaces
    BY <1>1, <1>2, <1>7, KeptFrame
  <2>2. \A q \in Orders : Placed(OwnApproval(q))' => Placed(q)'
    BY <1>1, <2>1, PlacesStay
  <2>3. Running'
    BY <1>1, <1>3, <1>7, <2>2, FinishStep
  <2>4. Operating'
    BY <1>1, <1>2, OperatingFrame
  <2> QED
    BY <2>1, <2>3, <2>4, BooksIs
<1> QED
  BY <1>2, <1>6, <1>7

LEMMA ReadFillIdKeeps ==
    ASSUME BooksInv, NEW r \in Requests, readFillId(r)
    PROVE  BooksInv'
<1>1. Kept /\ Running /\ Operating
  BY BooksIs
<1>2. /\ UNCHANGED <<accounts, rows, withdrawals>> /\ UNCHANGED <<pc, matchLock, todo>>
      /\ UNCHANGED <<round, blockRound, operatorPc, moderating, withdrawals>>
  BY DEF readFillId, ledgerVars, tables, operatorVars
<1>3. Kept' /\ SamePlaces
  BY <1>1, <1>2, KeptFrame
<1>4. Running' /\ Operating'
  BY <1>1, <1>2, <1>3, RunFrame, OperatingFrame
<1> QED
  BY <1>3, <1>4, BooksIs

LEMMA AddFillKeeps ==
    ASSUME BooksInv, NEW r \in Requests, addFill(r)
    PROVE  BooksInv'
<1> DEFINE fill == Head(todo[r])
           p == ApprovalWithId(fill.approval)
           rest == Tail(todo[r])
<1>1. Kept /\ Running /\ Operating
  BY BooksIs
<1>2. /\ pc[r] \in {"feeFills", "tradeFills"} /\ todo[r] # <<>> /\ UNCHANGED withdrawals
      /\ UNCHANGED <<round, blockRound, operatorPc, moderating, withdrawals>>
      /\ \/ /\ insertFill(fillId[r], p, fill.buy, fill.sell, fill.round)
            /\ \/ Finish(r, "done")
               \/ /\ todo' = [todo EXCEPT ![r] = rest] /\ UNCHANGED matchLock
                  /\ \E place \in {"match", pc[r]} : Goto(r, place)
         \/ /\ UNCHANGED <<accounts, rows>>
            /\ \E place \in {"rejected", "unmatched"} : Finish(r, place)
  BY DEF addFill, operatorVars, Goto
<1>3. pc[r] \notin Ended \cup {"new"} /\ pc[r] \in Places /\ "match" \in Places /\ pc[r] # "fee"
  BY <1>2, PlaceNames
<1>4. todo[r] \in Seq(Fill) /\ fill \in Fill /\ rest \in Seq(Fill)
  BY <1>1, <1>2 DEF Running
<1> HIDE DEF fill, rest
<1>5. p \in Approvals /\ fill.buy \in Nat /\ fill.sell \in Nat
  BY <1>4, ApprovalOfId DEF Fill
<1> HIDE DEF p
<1>6. Kept' /\ SamePlaces
  <2>1. CASE insertFill(fillId[r], p, fill.buy, fill.sell, fill.round)
    BY <1>1, <1>2, <1>5, <2>1, InsertFillKeeps
  <2>2. CASE UNCHANGED <<accounts, rows>>
    BY <1>1, <1>2, <2>2, KeptFrame
  <2> QED
    BY <1>2, <2>1, <2>2
<1>7. \A o \in Orders : Placed(OwnApproval(o))' => Placed(o)'
  BY <1>1, <1>6, PlacesStay
<1>8. Running'
  <2>1. CASE \E place \in {"rejected", "unmatched", "done"} : Finish(r, place)
    BY <1>1, <1>3, <1>7, <2>1, FinishStep
  <2>2. CASE /\ todo' = [todo EXCEPT ![r] = rest] /\ UNCHANGED matchLock
             /\ \E place \in {"match", pc[r]} : Goto(r, place)
    <3>1. PICK place \in {"match", pc[r]} : Goto(r, place)
      BY <2>2
    <3>2. place \in Places /\ place # "fee"
      BY <1>3
    <3>3. todo' \in [Requests -> Seq(Fill)]
      BY <1>1, <1>4, <2>2, TodoStep
    <3>4. UNCHANGED matchLock
      BY <2>2
    <3> QED
      BY <1>1, <1>3, <1>7, <3>1, <3>2, <3>3, <3>4, GoOnStep
  <2> QED
    BY <1>2, <2>1, <2>2
<1>9. Operating'
  BY <1>1, <1>2, OperatingFrame
<1> QED
  BY <1>6, <1>8, <1>9, BooksIs

LEMMA CreateTradesKeeps ==
    ASSUME BooksInv, NEW r \in Requests, createTradesForApproval(r)
    PROVE  BooksInv'
<1> DEFINE o == OrderOf[r]
           new == createTrades(Taker(o), MakersFor(o))
           fs == fillsOf(new)
<1>1. Kept /\ Running /\ Operating /\ o \in Orders
  BY BooksIs DEF Orders
<1>2. /\ pc[r] = "match" /\ UNCHANGED <<accounts, rows, withdrawals>>
      /\ UNCHANGED <<round, blockRound, operatorPc, moderating, withdrawals>>
      /\ \/ Finish(r, "unmatched") \/ Finish(r, "done")
         \/ /\ Goto(r, "tradeFills") /\ UNCHANGED matchLock
            /\ todo' = [todo EXCEPT ![r] = fs]
  BY DEF createTradesForApproval, operatorVars, Taker
<1>3. fs \in Seq(Fill)
  BY <1>1, MatchingFacts DEF Kept
<1> HIDE DEF fs
<1>4. pc[r] \notin Ended \cup {"new"} /\ "tradeFills" \in Places /\ "tradeFills" # "fee"
  BY <1>2, PlaceNames
<1>5. Kept' /\ SamePlaces
  BY <1>1, <1>2, KeptFrame
<1>6. \A q \in Orders : Placed(OwnApproval(q))' => Placed(q)'
  BY <1>1, <1>5, PlacesStay
<1>7. Running'
  <2>1. CASE \E place \in {"rejected", "unmatched", "done"} : Finish(r, place)
    BY <1>1, <1>4, <1>6, <2>1, FinishStep
  <2>2. CASE /\ Goto(r, "tradeFills") /\ UNCHANGED matchLock
             /\ todo' = [todo EXCEPT ![r] = fs]
    <3>1. todo' \in [Requests -> Seq(Fill)]
      BY <1>1, <1>3, <2>2, TodoStep
    <3>2. UNCHANGED matchLock
      BY <2>2
    <3> QED
      BY <1>1, <1>4, <1>6, <2>2, <3>1, <3>2, GoOnStep
  <2> QED
    BY <1>2, <2>1, <2>2
<1>8. Operating'
  BY <1>1, <1>2, OperatingFrame
<1> QED
  BY <1>5, <1>7, <1>8, BooksIs

(* Clients. *)

LEMMA CancelOrderKeeps ==
    ASSUME BooksInv, NEW p \in Cancellable, cancelOrder(p)
    PROVE  BooksInv'
<1>1. Kept /\ Running /\ Operating
  BY BooksIs
<1>2. /\ UNCHANGED withdrawals /\ UNCHANGED <<pc, matchLock, todo>>
      /\ UNCHANGED <<round, blockRound, operatorPc, moderating, withdrawals>>
      /\ cancelApproval(p) \/ UNCHANGED <<accounts, rows>>
  BY DEF cancelOrder, requestVars, operatorVars
<1>3. p \in Approvals
  BY ExchangeAssumption
<1>4. Kept' /\ SamePlaces
  BY <1>1, <1>2, <1>3, CancelKeeps, KeptFrame
<1>5. Running' /\ Operating'
  BY <1>1, <1>2, <1>4, RunFrame, OperatingFrame
<1> QED
  BY <1>4, <1>5, BooksIs

\* Steps that change nothing that BooksInv is about.
LEMMA BooksFrame ==
    ASSUME BooksInv,
           UNCHANGED <<accounts, rows, withdrawals>>, UNCHANGED <<pc, matchLock, todo>>,
           UNCHANGED <<round, blockRound, operatorPc, moderating, withdrawals>>
    PROVE  BooksInv'
<1>1. Kept /\ Running /\ Operating
  BY BooksIs
<1>2. Kept' /\ SamePlaces
  BY <1>1, KeptFrame
<1>3. Running' /\ Operating'
  BY <1>1, <1>2, RunFrame, OperatingFrame
<1> QED
  BY <1>2, <1>3, BooksIs

LEMMA AsideKeeps ==
    ASSUME BooksInv,
           \/ \E w \in Wallets : admit(w) \/ storeWallet(w)
           \/ \E p \in Cancellable : findForCancel(p)
           \/ \E q \in Queries : balances(q)
           \/ \E i \in DOMAIN withdrawals : confirmWithdrawal(i)
           \/ UNCHANGED exchangeVars
    PROVE  BooksInv'
<1>1. /\ UNCHANGED <<accounts, rows, withdrawals>> /\ UNCHANGED <<pc, matchLock, todo>>
      /\ UNCHANGED <<round, blockRound, operatorPc, moderating, withdrawals>>
  BY DEF admit, storeWallet, findForCancel, balances, confirmWithdrawal, exchangeVars,
         ledgerVars, tables, requestVars, operatorVars
<1> QED
  BY <1>1, BooksFrame

(* The operator. *)

\* A step that leaves the accounts, the rows and the requests alone.
LEMMA OperatorAside ==
    ASSUME BooksInv, UNCHANGED <<accounts, rows, withdrawals>>, UNCHANGED <<pc, matchLock, todo>>,
           Operating'
    PROVE  BooksInv'
<1>1. Kept /\ Running
  BY BooksIs
<1>2. Kept' /\ SamePlaces
  BY <1>1, KeptFrame
<1>3. Running'
  BY <1>1, <1>2, RunFrame
<1> QED
  BY <1>2, <1>3, BooksIs

LEMMA TurnKeeps ==
    ASSUME BooksInv,
           \/ nextRound \/ onNewQuarter \/ moderateWithdrawalRequest \/ validateWithdrawal
           \/ moderationThrows \/ readAccount
    PROVE  BooksInv'
<1>1. Operating
  BY BooksIs
<1>2. UNCHANGED <<accounts, rows, withdrawals>> /\ UNCHANGED <<pc, matchLock, todo>>
  BY DEF nextRound, onNewQuarter, moderateWithdrawalRequest, validateWithdrawal, Validate,
         moderationThrows, readAccount, ledgerVars, tables, requestVars
<1>3. CASE nextRound
  <2>1. UNCHANGED <<round, operatorPc, moderating, withdrawals>>
    BY <1>2, <1>3 DEF nextRound
  <2>2. blockRound' \in Rounds
    BY <1>1, <1>3, ExchangeAssumption DEF nextRound, Operating, Rounds
  <2> QED
    BY <1>1, <1>2, <2>1, <2>2, OperatorAside DEF Operating, StillUnchecked
<1>4. CASE onNewQuarter
  <2>1. /\ round' = blockRound /\ moderating' = Unchecked /\ UNCHANGED blockRound
        /\ operatorPc' = IF Unchecked # {} THEN "moderate" ELSE AfterModeration(round # blockRound)
    BY <1>4 DEF onNewQuarter
  <2>2. operatorPc' \in {"moderate", "commit", "idle"} /\ (operatorPc' = "moderate" => Unchecked # {})
    BY <2>1 DEF AfterModeration
  <2>3. StillUnchecked'
    BY <1>2, <2>1, <2>2 DEF StillUnchecked, Unchecked
  <2> QED
    BY <1>1, <1>2, <2>1, <2>2, <2>3, OperatorAside DEF Operating
<1>5. CASE moderateWithdrawalRequest \/ validateWithdrawal
  <2>1. /\ operatorPc \in {"moderate", "validate"} /\ operatorPc' \in {"validate", "approve"}
        /\ UNCHANGED <<round, blockRound, moderating, withdrawals>>
    BY <1>2, <1>5 DEF moderateWithdrawalRequest, validateWithdrawal, Validate
  <2> QED
    BY <1>1, <1>2, <2>1, OperatorAside DEF Operating, StillUnchecked
<1>6. CASE moderationThrows
  <2>1. operatorPc' = "idle" /\ moderating' = {} /\ UNCHANGED <<round, blockRound>>
    BY <1>6 DEF moderationThrows
  <2> QED
    BY <1>1, <1>2, <2>1, OperatorAside DEF Operating, StillUnchecked
<1>7. CASE readAccount
  <2>1. operatorPc' \in {"idle", "commit"} /\ UNCHANGED <<round, blockRound, moderating, withdrawals>>
    BY <1>2, <1>7 DEF readAccount
  <2> QED
    BY <1>1, <1>2, <2>1, OperatorAside DEF Operating, StillUnchecked
<1> QED
  BY <1>3, <1>4, <1>5, <1>6, <1>7

LEMMA DepositKeeps ==
    ASSUME BooksInv, NEW d \in Deposits, onDeposit(d)
    PROVE  BooksInv'
<1>1. Kept /\ Running /\ Operating
  BY BooksIs
<1>2. /\ creditDeposit(d.asset, d.wallet, d.amount, blockRound) /\ UNCHANGED <<rows, withdrawals>>
      /\ UNCHANGED <<pc, matchLock, todo>>
      /\ UNCHANGED <<round, blockRound, operatorPc, moderating, withdrawals>>
  BY DEF onDeposit, requestVars
<1>3. /\ d.asset \in Assets /\ d.wallet \in Wallets /\ d.amount \in Nat /\ blockRound \in Rounds
  BY <1>1, ExchangeAssumption DEF Operating
<1>4. Kept' /\ SamePlaces
  <2> DEFINE a == d.asset
             w == d.wallet
             x == d.amount
  <2>1. a \in Assets /\ w \in Wallets /\ x \in Nat /\ creditDeposit(a, w, x, blockRound)
    BY <1>2, <1>3
  <2> HIDE DEF a, w, x
  <2> QED
    BY <1>1, <1>2, <1>3, <2>1, CreditKeeps
<1>5. Running' /\ Operating'
  BY <1>1, <1>2, <1>4, RunFrame, OperatingFrame
<1> QED
  BY <1>4, <1>5, BooksIs

LEMMA InitiateKeeps ==
    ASSUME BooksInv, NEW w \in Asked, onInitiateWithdrawal(w)
    PROVE  BooksInv'
<1> DEFINE new == [asset |-> w.asset, wallet |-> w.wallet, amount |-> w.amount,
                   round |-> blockRound, status |-> "unchecked"]
<1>1. Kept /\ Running /\ Operating
  BY BooksIs
<1>2. /\ insertWithdrawal(new) /\ UNCHANGED <<accounts, rows>> /\ UNCHANGED <<pc, matchLock, todo>>
      /\ UNCHANGED <<round, blockRound, operatorPc, moderating>>
  BY DEF onInitiateWithdrawal, requestVars
<1>3. new \in Withdrawal
  BY <1>1, ExchangeAssumption DEF Withdrawal, Operating
<1> HIDE DEF new
<1>4. /\ Kept' /\ SamePlaces
      /\ \A i \in DOMAIN withdrawals :
            i \in DOMAIN withdrawals' /\ withdrawals'[i] = withdrawals[i]
  BY <1>1, <1>2, <1>3, InsertWithdrawalKeeps
<1>5. Running'
  BY <1>1, <1>2, <1>4, RunFrame
<1>6. StillUnchecked'
  BY <1>1, <1>2, <1>4 DEF Operating, StillUnchecked
<1>7. Operating'
  BY <1>1, <1>2, <1>6 DEF Operating
<1> QED
  BY <1>4, <1>5, <1>7, BooksIs

LEMMA ConfirmKeeps ==
    ASSUME BooksInv, NEW i \in DOMAIN withdrawals, onConfirmWithdrawal(i)
    PROVE  BooksInv'
<1>1. Kept /\ Running /\ Operating
  BY BooksIs
<1>2. /\ UNCHANGED <<accounts, rows>> /\ UNCHANGED <<pc, matchLock, todo>>
      /\ UNCHANGED <<round, blockRound, operatorPc, moderating>>
      /\ confirmWithdrawalAsync(withdrawals[i]) \/ UNCHANGED withdrawals
  BY DEF onConfirmWithdrawal, requestVars
<1>3. CASE confirmWithdrawalAsync(withdrawals[i])
  <2>1. /\ Kept' /\ SamePlaces /\ DOMAIN withdrawals' = DOMAIN withdrawals
        /\ \A j \in DOMAIN withdrawals :
              withdrawals[j].status # "pending" => withdrawals'[j] = withdrawals[j]
    BY <1>1, <1>2, <1>3, ConfirmWithdrawalKeeps
  <2>2. Running'
    BY <1>1, <1>2, <2>1, RunFrame
  <2>3. StillUnchecked'
    BY <1>1, <1>2, <2>1 DEF Operating, StillUnchecked
  <2>4. Operating'
    BY <1>1, <1>2, <2>3 DEF Operating
  <2> QED
    BY <2>1, <2>2, <2>4, BooksIs
<1>4. CASE UNCHANGED withdrawals
  BY <1>2, <1>4, BooksFrame
<1> QED
  BY <1>2, <1>3, <1>4

LEMMA EndModerationFacts ==
    ASSUME EndModeration
    PROVE  /\ moderating' = moderating \ {request}
           /\ operatorPc' \in {"moderate", "commit", "idle"}
           /\ operatorPc' = "moderate" => moderating' # {}
BY DEF EndModeration, AfterModeration

LEMMA ApproveKeeps ==
    ASSUME BooksInv, approve
    PROVE  BooksInv'
<1>1. Kept /\ Running /\ Operating
  BY BooksIs
<1>2. /\ operatorPc = "approve" /\ approveWithdrawal(request) /\ EndModeration
      /\ UNCHANGED rows /\ UNCHANGED <<pc, matchLock, todo>> /\ UNCHANGED <<round, blockRound>>
  BY DEF approve, requestVars
<1>3. request \in DOMAIN withdrawals /\ withdrawals[request].status = "unchecked"
  BY <1>1, <1>2, RequestIn DEF Kept, Operating
<1>4. /\ Kept' /\ SamePlaces /\ DOMAIN withdrawals' = DOMAIN withdrawals
      /\ \A j \in DOMAIN withdrawals \ {request} : withdrawals'[j] = withdrawals[j]
  <2> DEFINE i == request
  <2>1. i \in DOMAIN withdrawals /\ withdrawals[i].status = "unchecked" /\ approveWithdrawal(i)
    BY <1>2, <1>3
  <2> HIDE DEF i
  <2>2. /\ Kept' /\ SamePlaces /\ DOMAIN withdrawals' = DOMAIN withdrawals
        /\ \A j \in DOMAIN withdrawals \ {i} : withdrawals'[j] = withdrawals[j]
    BY <1>1, <1>2, <2>1, ApproveWithdrawalKeeps
  <2> QED
    BY <2>2 DEF i
<1>5. Running'
  BY <1>1, <1>2, <1>4, RunFrame
<1>6. /\ moderating' = moderating \ {request}
      /\ operatorPc' \in {"moderate", "commit", "idle"}
      /\ operatorPc' = "moderate" => moderating' # {}
  BY <1>2, EndModerationFacts
<1>7. StillUnchecked'
  BY <1>1, <1>4, <1>6 DEF Operating, StillUnchecked
<1>8. Operating'
  BY <1>1, <1>2, <1>6, <1>7 DEF Operating
<1> QED
  BY <1>4, <1>5, <1>8, BooksIs

LEMMA CancelInvalidKeeps ==
    ASSUME BooksInv, cancelInvalid
    PROVE  BooksInv'
<1>1. Kept /\ Running /\ Operating
  BY BooksIs
<1>2. /\ operatorPc = "moderate" /\ EndModeration
      /\ UNCHANGED rows /\ UNCHANGED <<pc, matchLock, todo>> /\ UNCHANGED <<round, blockRound>>
      /\ \/ cancelWithdrawalAsync(SeenFor(Moderated), Moderated)
         \/ UNCHANGED <<accounts, withdrawals>>
  BY DEF cancelInvalid, requestVars
<1>3. /\ request \in moderating /\ request \in DOMAIN withdrawals
      /\ withdrawals[request].status = "unchecked"
      /\ \A i \in moderating : i \in Nat /\ request <= i
  BY <1>1, <1>2, RequestIn DEF Kept, Operating
<1>4. /\ moderating' = moderating \ {request}
      /\ operatorPc' \in {"moderate", "commit", "idle"}
      /\ operatorPc' = "moderate" => moderating' # {}
  BY <1>2, EndModerationFacts
<1>5. /\ Kept' /\ SamePlaces /\ DOMAIN withdrawals' = DOMAIN withdrawals
      /\ \A j \in moderating' : withdrawals'[j] = withdrawals[j]
  <2>1. CASE UNCHANGED <<accounts, withdrawals>>
    BY <1>1, <1>2, <2>1, KeptFrame
  <2>2. CASE cancelWithdrawalAsync(SeenFor(Moderated), Moderated)
    <3>1. /\ Kept' /\ SamePlaces /\ DOMAIN withdrawals' = DOMAIN withdrawals
          /\ \E i \in FirstOf(Moderated, {"pending", "unchecked"}) :
                \A j \in DOMAIN withdrawals \ {i} : withdrawals'[j] = withdrawals[j]
      BY <1>1, <1>2, <2>2, CancelWithdrawalKeeps
    <3>2. PICK i \in FirstOf(Moderated, {"pending", "unchecked"}) :
             \A j \in DOMAIN withdrawals \ {i} : withdrawals'[j] = withdrawals[j]
      BY <3>1
    <3>3. i \in DOMAIN withdrawals /\ i <= request
      BY <1>3, FirstOfFacts DEF Moderated
    <3>4. withdrawals \in Seq(Withdrawal)
      BY <1>1 DEF Kept
    <3>5. i \in Nat /\ request \in Nat
      BY <1>3, <3>3, <3>4
    <3>6. i \notin moderating'
      BY <1>3, <1>4, <3>3, <3>5
    <3>7. moderating' \subseteq DOMAIN withdrawals
      BY <1>1, <1>4 DEF Operating, StillUnchecked
    <3> QED
      BY <3>1, <3>2, <3>6, <3>7
  <2> QED
    BY <1>2, <2>1, <2>2
<1>6. Running'
  BY <1>1, <1>2, <1>5, RunFrame
<1>7. StillUnchecked'
  BY <1>1, <1>4, <1>5 DEF Operating, StillUnchecked
<1>8. Operating'
  BY <1>1, <1>2, <1>4, <1>7 DEF Operating
<1> QED
  BY <1>5, <1>6, <1>8, BooksIs

LEMMA RestartKeeps ==
    ASSUME BooksInv, Restart
    PROVE  BooksInv'
<1>1. Kept /\ Running /\ Operating
  BY BooksIs
<1>2. /\ UNCHANGED <<accounts, rows, withdrawals>> /\ UNCHANGED blockRound
      /\ pc' = [r \in Requests |-> IF pc[r] \in Ended \cup {"new"} THEN pc[r] ELSE "lost"]
      /\ matchLock' = NoOne /\ todo' = [r \in Requests |-> <<>>]
      /\ round' = 0 /\ operatorPc' = "idle" /\ moderating' = {}
  BY DEF Restart, tables
<1>3. Kept' /\ SamePlaces
  BY <1>1, <1>2, KeptFrame
<1>4. \A p \in Approvals : Placed(p)' <=> Placed(p)
  BY <1>3 DEF SamePlaces, Placed
<1>5. /\ pc' \in [Requests -> Places] /\ \A r \in Requests : pc'[r] \in Ended \cup {"new"}
      /\ todo' \in [Requests -> Seq(Fill)]
  <2>1. <<>> \in Seq(Fill) /\ "lost" \in Ended /\ Ended \cup {"new"} \subseteq Places
    BY DEF Ended, Places
  <2> QED
    BY <1>1, <1>2, <2>1 DEF Running
<1>6. LockIsHeld'
  BY <1>5 DEF LockIsHeld
<1>7. FeesComeOnce'
  <2>1. "fee" \notin Ended \cup {"new"}
    BY PlaceNames
  <2> QED
    BY <1>1, <1>4, <1>5, <2>1, ApprovalsHere DEF Running, FeesComeOnce
<1>8. Running'
  BY <1>2, <1>5, <1>6, <1>7 DEF Running
<1>9. Operating'
  BY <1>1, <1>2, ExchangeAssumption DEF Operating, Rounds, StillUnchecked
<1> QED
  BY <1>3, <1>8, <1>9, BooksIs

\* Every await of an order, a cancellation or the operator, and a restart, keeps the
\* books. (Exchange.ts:152, Operator.ts:557, MetaLedger.ts:484)
THEOREM BooksStep == BooksInv /\ [ExchangeNext]_exchangeVars => BooksInv'
<1> SUFFICES ASSUME BooksInv, [ExchangeNext]_exchangeVars PROVE BooksInv'
  OBVIOUS
<1>1. ASSUME NEW r \in Requests, addOrder(r) PROVE BooksInv'
  BY <1>1, LockKeeps, CheckKeeps, StoreOrderKeeps, StoreOperatorApprovalKeeps, ReadFillIdKeeps,
     AddFillKeeps, CreateTradesKeeps DEF addOrder
<1>2. CASE OperatorStep
  BY <1>2, TurnKeeps, DepositKeeps, InitiateKeeps, ConfirmKeeps, ApproveKeeps,
     CancelInvalidKeeps, AsideKeeps DEF OperatorStep
<1> QED
  BY <1>1, <1>2, AsideKeeps, CancelOrderKeeps, RestartKeeps DEF ExchangeNext

\* The books are kept, whatever is interleaved, cancelled, retried or lost.
THEOREM BooksAreKept == ExchangeSpec => []BooksInv
BY BooksInit, BooksStep, PTL DEF ExchangeSpec

\* What an account has locked is what its orders have still to sell.
\* (MetaLedger.ts:390, 484, 562)
THEOREM LocksAreAccounted == ExchangeSpec => []LocksAccounted
<1>1. BooksInv => LocksAccounted
  BY DEF BooksInv
<1> QED
  BY <1>1, BooksAreKept, PTL

\* What an account has booked as withdrawn is what its approved requests ask for.
\* (MetaLedger.ts:834, 897)
THEOREM WithdrawalsAreBooked == ExchangeSpec => []WithdrawalsBooked
<1>1. BooksInv => WithdrawalsBooked
  BY DEF BooksInv
<1> QED
  BY <1>1, BooksAreKept, PTL

(***************************************************************************)
(* RoundsInv is inductive relative to BooksInv.                            *)
(***************************************************************************)
LEMMA RoundNumbers ==
    ASSUME BooksInv
    PROVE  /\ round \in Nat /\ blockRound \in Nat
           /\ \A p \in Approvals : p.round \in Nat
           /\ \A r \in Requests : OrderOf[r] \in Orders /\ OrderOf[r].round \in Nat
<1>1. round \in Rounds /\ blockRound \in Rounds
  BY BooksIs DEF Operating
<1>2. \A p \in Approvals : p.round \in Rounds
  BY ApprovalFacts
<1>3. \A r \in Requests : OrderOf[r] \in Orders /\ OrderOf[r].round \in Rounds
  <2>1. \A r \in Requests : OrderOf[r] \in Orders
    BY DEF Orders
  <2> QED
    BY <2>1, OrderFacts
<1>4. Rounds \in SUBSET Nat
  BY DEF Rounds
<1> QED
  BY <1>1, <1>2, <1>3, <1>4

\* The request that has the lock goes on.
LEMMA RoundsRequest ==
    ASSUME BooksInv, RoundsInOrder, NEW r \in Requests, pc[r] \notin Ended \cup {"new"},
           UNCHANGED <<round, blockRound>>,
           \A q \in Requests \ {r} : pc'[q] = pc[q] /\ todo'[q] = todo[q],
           \A p \in Approvals :
              Placed(p)' => Placed(p) \/ (p.round = OrderOf[r].round /\ pc[r] \in Accepting),
           pc'[r] \in Accepting => pc[r] \in Accepting \/ OrderOf[r].round = round,
           \A i \in DOMAIN todo'[r] : todo'[r][i].round = OrderOf[r].round
    PROVE  RoundsInOrder'
<1>1. /\ round \in Nat /\ blockRound \in Nat /\ OrderOf[r].round \in Nat
      /\ \A p \in Approvals : p.round \in Nat
  BY RoundNumbers
<1>2. /\ round <= blockRound
      /\ \A p \in Approvals : Placed(p) => p.round <= round
      /\ pc[r] \in Accepting =>
            /\ OrderOf[r].round <= round
            /\ \A p \in Approvals : Placed(p) => p.round <= OrderOf[r].round
      /\ \A q \in Requests : \A i \in DOMAIN todo[q] : todo[q][i].round = OrderOf[q].round
  BY DEF RoundsInOrder
<1>3. \A q \in Requests \ {r} : pc'[q] \notin Accepting
  <2>1. \A q \in Requests : pc[q] \notin Ended \cup {"new"} => matchLock = q
    BY BooksIs DEF Running, LockIsHeld
  <2>2. \A q \in Requests \ {r} : pc[q] \in Ended \cup {"new"}
    BY <2>1
  <2>3. Accepting \cap (Ended \cup {"new"}) = {}
    BY DEF Accepting, Ended
  <2> QED
    BY <2>2, <2>3
<1>4. \A p \in Approvals : Placed(p)' => p.round <= round
  BY <1>1, <1>2
<1>5. pc'[r] \in Accepting =>
         /\ OrderOf[r].round <= round
         /\ \A p \in Approvals : Placed(p)' => p.round <= OrderOf[r].round
  <2>1. CASE pc[r] \in Accepting
    BY <1>1, <1>2, <2>1
  <2>2. CASE pc[r] \notin Accepting
    BY <1>1, <1>2, <2>2
  <2> QED
    BY <2>1, <2>2
<1>6. \A q \in Requests : \A i \in DOMAIN todo'[q] : todo'[q][i].round = OrderOf[q].round
  BY <1>2
<1> QED
  BY <1>2, <1>3, <1>4, <1>5, <1>6 DEF RoundsInOrder

\* A step of others: the round may go on, and nothing comes into the table.
LEMMA RoundsOthers ==
    ASSUME BooksInv, RoundsInOrder, UNCHANGED <<todo>>,
           round' \in Nat, round <= round', round' <= blockRound',
           \A q \in Requests : pc'[q] \in Accepting => pc[q] \in Accepting,
           \A p \in Approvals : Placed(p)' => Placed(p)
    PROVE  RoundsInOrder'
<1>1. /\ round \in Nat /\ \A p \in Approvals : p.round \in Nat
      /\ \A r \in Requests : OrderOf[r].round \in Nat
  BY RoundNumbers
<1>2. \A p \in Approvals : Placed(p)' => p.round <= round'
  BY <1>1 DEF RoundsInOrder
<1>3. ASSUME NEW q \in Requests
      PROVE  /\ \A i \in DOMAIN todo'[q] : todo'[q][i].round = OrderOf[q].round
             /\ pc'[q] \in Accepting =>
                   /\ OrderOf[q].round <= round'
                   /\ \A p \in Approvals : Placed(p)' => p.round <= OrderOf[q].round
  <2>1. \A i \in DOMAIN todo'[q] : todo'[q][i].round = OrderOf[q].round
    BY DEF RoundsInOrder
  <2>2. ASSUME pc'[q] \in Accepting
        PROVE  /\ OrderOf[q].round <= round'
               /\ \A p \in Approvals : Placed(p)' => p.round <= OrderOf[q].round
    <3>1. /\ OrderOf[q].round <= round
          /\ \A p \in Approvals : Placed(p) => p.round <= OrderOf[q].round
      BY <2>2 DEF RoundsInOrder
    <3> QED
      BY <1>1, <3>1
  <2> QED
    BY <2>1, <2>2
<1> QED
  BY <1>2, <1>3 DEF RoundsInOrder

LEMMA SameRows ==
    ASSUME UNCHANGED rows
    PROVE  \A p \in Approvals : Placed(p)' => Placed(p)
BY DEF Placed

LEMMA FillKeepsPlaces ==
    ASSUME BooksInv, NEW r \in Requests, addFill(r)
    PROVE  /\ \A p \in Approvals : Placed(p)' => Placed(p)
           /\ Head(todo[r]) \in Fill /\ 1 \in DOMAIN todo[r] /\ Head(todo[r]) = todo[r][1]
           /\ todo[r] \in Seq(Fill)
<1> DEFINE fill == Head(todo[r])
           p == ApprovalWithId(fill.approval)
<1>1. Kept /\ Running
  BY BooksIs
<1>2. /\ todo[r] # <<>> /\ UNCHANGED withdrawals
      /\ \/ insertFill(fillId[r], p, fill.buy, fill.sell, fill.round)
         \/ UNCHANGED rows
  BY DEF addFill
<1>3. todo[r] \in Seq(Fill)
  BY <1>1 DEF Running
<1>4. fill \in Fill /\ 1 \in DOMAIN todo[r] /\ fill = todo[r][1]
  BY <1>2, <1>3
<1> HIDE DEF fill
<1>5. p \in Approvals /\ fill.buy \in Nat /\ fill.sell \in Nat
  BY <1>4, ApprovalOfId DEF Fill
<1> HIDE DEF p
<1>6. CASE insertFill(fillId[r], p, fill.buy, fill.sell, fill.round)
  <2>1. SamePlaces
    BY <1>1, <1>2, <1>5, <1>6, InsertFillKeeps
  <2> QED
    BY <1>3, <1>4, <2>1 DEF SamePlaces, Placed, fill
<1>7. CASE UNCHANGED rows
  BY <1>3, <1>4, <1>7, SameRows DEF fill
<1> QED
  BY <1>2, <1>6, <1>7

LEMMA RoundsFinish ==
    ASSUME BooksInv, RoundsInOrder, NEW r \in Requests, pc[r] \notin Ended \cup {"new"},
           UNCHANGED <<round, blockRound>>,
           \A p \in Approvals : Placed(p)' => Placed(p),
           NEW place \in {"rejected", "unmatched", "done"}, Finish(r, place)
    PROVE  RoundsInOrder'
<1>1. pc \in [Requests -> Places] /\ todo \in [Requests -> Seq(Fill)]
  BY BooksIs DEF Running
<1>2. /\ pc'[r] = place /\ todo'[r] = <<>>
      /\ \A q \in Requests \ {r} : pc'[q] = pc[q] /\ todo'[q] = todo[q]
  BY <1>1 DEF Finish, Goto
<1>3. place \notin Accepting
  BY DEF Accepting
<1> QED
  BY <1>2, <1>3, RoundsRequest

LEMMA RoundsGoOn ==
    ASSUME BooksInv, RoundsInOrder, NEW r \in Requests, pc[r] \notin Ended \cup {"new"},
           UNCHANGED <<round, blockRound>>,
           \A p \in Approvals :
              Placed(p)' => Placed(p) \/ (p.round = OrderOf[r].round /\ pc[r] \in Accepting),
           NEW place, Goto(r, place),
           place \in Accepting => pc[r] \in Accepting \/ OrderOf[r].round = round,
           NEW fs, todo' = [todo EXCEPT ![r] = fs],
           \A i \in DOMAIN fs : fs[i].round = OrderOf[r].round
    PROVE  RoundsInOrder'
<1>1. pc \in [Requests -> Places] /\ todo \in [Requests -> Seq(Fill)]
  BY BooksIs DEF Running
<1>2. /\ pc'[r] = place /\ todo'[r] = fs
      /\ \A q \in Requests \ {r} : pc'[q] = pc[q] /\ todo'[q] = todo[q]
  BY <1>1 DEF Goto
<1> QED
  BY <1>2, RoundsRequest

LEMMA AcceptingNames ==
    /\ {"insert", "fee", "feeFills", "match", "tradeFills"} \subseteq Accepting
    /\ {"insert", "fee", "feeFills", "match", "tradeFills", "check"} \cap (Ended \cup {"new"}) = {}
    /\ {"new", "check"} \cap Accepting = {}
BY DEF Accepting, Ended

LEMMA RoundsOrder ==
    ASSUME BooksInv, RoundsInOrder, NEW r \in Requests, addOrder(r)
    PROVE  RoundsInOrder'
<1> DEFINE o == OrderOf[r]
           mine(p) == p.round = OrderOf[r].round /\ pc[r] \in Accepting
<1>1. UNCHANGED <<round, blockRound>>
  BY DEF addOrder, lock, checkApproval, storeOrder, storeOperatorApproval, readFillId, addFill,
         createTradesForApproval, operatorVars
<1>2. /\ pc \in [Requests -> Places] /\ todo \in [Requests -> Seq(Fill)] /\ o \in Orders
      /\ o \in Approvals /\ FeeOf(o) \in Approvals /\ OwnApproval(o) \in Approvals
      /\ FeeOf(o).round = o.round /\ OwnApproval(o).round = o.round
  <2>1. o \in Orders
    BY DEF Orders
  <2>2. FeeOf(o).round = o.round
    BY <2>1, FeeFacts
  <2>3. OwnApproval(o).round = o.round
    BY <2>1, OwnFacts
  <2> QED
    BY <2>1, <2>2, <2>3, ApprovalsHere, BooksIs DEF Running
<1>3. /\ todo[r] \in Seq(Fill) /\ todo = [todo EXCEPT ![r] = todo[r]]
      /\ \A i \in DOMAIN todo[r] : todo[r][i].round = o.round
  BY <1>2 DEF RoundsInOrder
<1>4. CASE lock(r)
  <2>1. /\ pc' = [pc EXCEPT ![r] = "check"] /\ UNCHANGED <<todo, rows>>
    BY <1>4 DEF lock, Goto, ledgerVars, tables
  <2>2. \A q \in Requests : pc'[q] \in Accepting => pc[q] \in Accepting
    BY <1>2, <2>1, AcceptingNames
  <2>3. round' \in Nat /\ round <= round' /\ round' <= blockRound'
    BY <1>1, RoundNumbers DEF RoundsInOrder
  <2> QED
    BY <2>1, <2>2, <2>3, SameRows, RoundsOthers
<1>5. CASE checkApproval(r)
  <2>1. /\ pc[r] = "check" /\ UNCHANGED rows
        /\ \/ Goto(r, "insert") /\ UNCHANGED todo /\ o.round = round
           \/ Finish(r, "rejected")
    BY <1>5 DEF checkApproval, ledgerVars, tables
  <2>2. pc[r] \notin Ended \cup {"new"} /\ \A p \in Approvals : Placed(p)' => Placed(p)
    BY <2>1, AcceptingNames, SameRows
  <2>3. CASE Goto(r, "insert") /\ UNCHANGED todo /\ o.round = round
    <3>1. todo' = [todo EXCEPT ![r] = todo[r]]
      BY <1>3, <2>3
    <3> QED
      BY <1>1, <1>3, <2>2, <2>3, <3>1, RoundsGoOn
  <2>4. CASE Finish(r, "rejected")
    BY <1>1, <2>2, <2>4, RoundsFinish
  <2> QED
    BY <2>1, <2>3, <2>4
<1>6. CASE storeOrder(r)
  <2>1. /\ pc[r] = "insert"
        /\ \/ insertOrder(o, FeeOf(o)) /\ Goto(r, "fee") /\ UNCHANGED todo
           \/ Finish(r, "rejected") /\ UNCHANGED rows
        /\ UNCHANGED withdrawals
    BY <1>6 DEF storeOrder
  <2>2. pc[r] \notin Ended \cup {"new"} /\ pc[r] \in Accepting
    BY <2>1, AcceptingNames
  <2>3. CASE insertOrder(o, FeeOf(o)) /\ Goto(r, "fee") /\ UNCHANGED todo
    <3>1. \A p \in Approvals \ {o, FeeOf(o)} : rows'[p] = rows[p]
      BY <1>2, <2>1, <2>3, BooksIs, InsertOrderKeeps
    <3>2. \A p \in Approvals : Placed(p)' => Placed(p) \/ mine(p)
      BY <1>2, <2>2, <3>1 DEF Placed
    <3>3. todo' = [todo EXCEPT ![r] = todo[r]]
      BY <1>3, <2>3
    <3> QED
      BY <1>1, <1>3, <2>2, <2>3, <3>2, <3>3, RoundsGoOn
  <2>4. CASE Finish(r, "rejected") /\ UNCHANGED rows
    BY <1>1, <2>2, <2>4, SameRows, RoundsFinish
  <2> QED
    BY <2>1, <2>3, <2>4
<1>7. CASE storeOperatorApproval(r)
  <2> DEFINE fs == <<FillOf(FeeOf(o)), FillOf(OwnApproval(o))>>
  <2>1. /\ pc[r] = "fee" /\ UNCHANGED withdrawals
        /\ \/ /\ insertApproval(OwnApproval(o)) /\ Goto(r, "feeFills")
              /\ todo' = [todo EXCEPT ![r] = fs]
           \/ Finish(r, "rejected") /\ UNCHANGED rows
    BY <1>7 DEF storeOperatorApproval, OwnApproval
  <2>2. pc[r] \notin Ended \cup {"new"} /\ pc[r] \in Accepting
    BY <2>1, AcceptingNames
  <2>3. \A i \in DOMAIN fs : fs[i].round = o.round
    <3>1. FillOf(FeeOf(o)).round = o.round /\ FillOf(OwnApproval(o)).round = o.round
      BY <1>2, FillOfIn
    <3> QED
      BY <3>1
  <2> HIDE DEF fs
  <2>4. CASE /\ insertApproval(OwnApproval(o)) /\ Goto(r, "feeFills")
             /\ todo' = [todo EXCEPT ![r] = fs]
    <3>1. ~Placed(OwnApproval(o))
      BY <2>1, BooksIs DEF Running, FeesComeOnce
    <3>2. \A p \in Approvals \ {OwnApproval(o)} : rows'[p] = rows[p]
      BY <1>2, <2>1, <2>4, <3>1, BooksIs, InsertApprovalKeeps
    <3>3. \A p \in Approvals : Placed(p)' => Placed(p) \/ mine(p)
      BY <1>2, <2>2, <3>2 DEF Placed
    <3> QED
      BY <1>1, <2>2, <2>3, <2>4, <3>3, RoundsGoOn
  <2>5. CASE Finish(r, "rejected") /\ UNCHANGED rows
    BY <1>1, <2>2, <2>5, SameRows, RoundsFinish
  <2> QED
    BY <2>1, <2>4, <2>5
<1>8. CASE readFillId(r)
  <2>1. UNCHANGED <<pc, todo, rows>>
    BY <1>8 DEF readFillId, ledgerVars, tables
  <2>2. round' \in Nat /\ round <= round' /\ round' <= blockRound'
    BY <1>1, RoundNumbers DEF RoundsInOrder
  <2> QED
    BY <2>1, <2>2, SameRows, RoundsOthers
<1>9. CASE addFill(r)
  <2>1. /\ pc[r] \in {"feeFills", "tradeFills"} /\ todo[r] # <<>>
        /\ \/ \E place \in {"rejected", "unmatched", "done"} : Finish(r, place)
           \/ /\ todo' = [todo EXCEPT ![r] = Tail(todo[r])]
              /\ \E place \in {"match", pc[r]} : Goto(r, place)
    BY <1>9 DEF addFill, Goto
  <2>2. pc[r] \notin Ended \cup {"new"} /\ pc[r] \in Accepting
    BY <2>1, AcceptingNames
  <2>3. \A p \in Approvals : Placed(p)' => Placed(p)
    BY <1>9, FillKeepsPlaces
  <2>4. CASE \E place \in {"rejected", "unmatched", "done"} : Finish(r, place)
    BY <1>1, <2>2, <2>3, <2>4, RoundsFinish
  <2>5. CASE /\ todo' = [todo EXCEPT ![r] = Tail(todo[r])]
             /\ \E place \in {"match", pc[r]} : Goto(r, place)
    <3> DEFINE fs == Tail(todo[r])
    <3>1. \A i \in DOMAIN fs : fs[i].round = o.round
      <4>1. \A i \in DOMAIN fs : i + 1 \in DOMAIN todo[r] /\ fs[i] = todo[r][i + 1]
        BY <1>3, <2>1
      <4> QED
        BY <1>3, <4>1
    <3> HIDE DEF fs
    <3>2. todo' = [todo EXCEPT ![r] = fs]
      BY <2>5 DEF fs
    <3>3. PICK place \in {"match", pc[r]} : Goto(r, place)
      BY <2>5
    <3> QED
      BY <1>1, <2>2, <2>3, <3>1, <3>2, <3>3, RoundsGoOn
  <2> QED
    BY <2>1, <2>4, <2>5
<1>10. CASE createTradesForApproval(r)
  <2> DEFINE new == createTrades(Taker(o), MakersFor(o))
             fs == fillsOf(new)
  <2>1. /\ pc[r] = "match" /\ UNCHANGED rows
        /\ \/ \E place \in {"rejected", "unmatched", "done"} : Finish(r, place)
           \/ Goto(r, "tradeFills") /\ todo' = [todo EXCEPT ![r] = fs]
    BY <1>10 DEF createTradesForApproval, Taker
  <2>2. \A i \in DOMAIN fs : fs[i].round = o.round
    BY <1>2, MatchingFacts, BooksIs DEF Kept
  <2> HIDE DEF fs
  <2>3. pc[r] \notin Ended \cup {"new"} /\ pc[r] \in Accepting
    BY <2>1, AcceptingNames
  <2>4. \A p \in Approvals : Placed(p)' => Placed(p)
    BY <2>1, SameRows
  <2>5. CASE \E place \in {"rejected", "unmatched", "done"} : Finish(r, place)
    BY <1>1, <2>3, <2>4, <2>5, RoundsFinish
  <2>6. CASE Goto(r, "tradeFills") /\ todo' = [todo EXCEPT ![r] = fs]
    BY <1>1, <2>2, <2>3, <2>4, <2>6, RoundsGoOn
  <2> QED
    BY <2>1, <2>5, <2>6
<1> QED
  BY <1>4, <1>5, <1>6, <1>7, <1>8, <1>9, <1>10 DEF addOrder

LEMMA RoundsElse ==
    ASSUME BooksInv, RoundsInOrder,
           \/ \E w \in Wallets : admit(w) \/ storeWallet(w)
           \/ \E p \in Cancellable : findForCancel(p) \/ cancelOrder(p)
           \/ \E q \in Queries : balances(q)
           \/ OperatorStep
           \/ UNCHANGED exchangeVars
    PROVE  RoundsInOrder'
<1>1. UNCHANGED pc /\ UNCHANGED todo
  BY DEF admit, storeWallet, findForCancel, cancelOrder, balances, OperatorStep, nextRound,
         onNewQuarter, onDeposit, onInitiateWithdrawal, confirmWithdrawal, onConfirmWithdrawal,
         moderateWithdrawalRequest, validateWithdrawal, Validate, moderationThrows, approve,
         cancelInvalid, readAccount, exchangeVars, requestVars
<1>2. round' \in Nat /\ round <= round' /\ round' <= blockRound'
  <2>1. round \in Nat /\ blockRound \in Nat /\ round <= blockRound
    BY RoundNumbers DEF RoundsInOrder
  <2>2. CASE nextRound
    BY <2>1, <2>2 DEF nextRound
  <2>3. CASE onNewQuarter
    BY <2>1, <2>3 DEF onNewQuarter
  <2>4. CASE ~nextRound /\ ~onNewQuarter
    <3>1. UNCHANGED <<round, blockRound>>
      BY <2>4 DEF admit, storeWallet, findForCancel, cancelOrder, balances, OperatorStep,
             onDeposit, onInitiateWithdrawal, confirmWithdrawal, onConfirmWithdrawal,
             moderateWithdrawalRequest, validateWithdrawal, Validate, moderationThrows, approve,
             cancelInvalid, readAccount, exchangeVars, operatorVars
    <3> QED
      BY <2>1, <3>1
  <2> QED
    BY <2>2, <2>3, <2>4
<1>3. \A p \in Approvals : Placed(p)' => Placed(p)
  <2>1. ASSUME NEW p \in Cancellable, cancelOrder(p)
        PROVE  \A q \in Approvals : Placed(q)' => Placed(q)
    <3>1. (cancelApproval(p) /\ UNCHANGED withdrawals) \/ UNCHANGED rows
      BY <2>1 DEF cancelOrder
    <3>2. CASE cancelApproval(p) /\ UNCHANGED withdrawals
      <4>1. p \in Approvals
        BY ExchangeAssumption
      <4>2. SamePlaces
        BY <3>2, <4>1, BooksIs, CancelKeeps
      <4> QED
        BY <4>2 DEF SamePlaces, Placed
    <3> QED
      BY <3>1, <3>2, SameRows
  <2>2. CASE ~\E p \in Cancellable : cancelOrder(p)
    <3>1. UNCHANGED rows
      BY <2>2 DEF admit, storeWallet, findForCancel, balances, OperatorStep, nextRound,
             onNewQuarter, onDeposit, onInitiateWithdrawal, confirmWithdrawal,
             onConfirmWithdrawal, moderateWithdrawalRequest, validateWithdrawal, Validate,
             moderationThrows, approve, cancelInvalid, readAccount, exchangeVars, ledgerVars,
             tables
    <3> QED
      BY <3>1, SameRows
  <2> QED
    BY <2>1, <2>2
<1> QED
  BY <1>1, <1>2, <1>3, RoundsOthers

LEMMA TradesKeep ==
    ASSUME BooksInv, RoundsInOrder, NoCrossRoundTrade, NEW r \in Requests,
           createTradesForApproval(r)
    PROVE  NoCrossRoundTrade'
<1> DEFINE o == OrderOf[r]
           new == ToSet(createTrades(Taker(o), MakersFor(o)))
<1>1. pc[r] = "match" /\ trades' = trades \cup new
  BY DEF createTradesForApproval, insertTrades, Taker
<1>2. o \in Orders /\ Kept /\ round \in Nat /\ o.round \in Nat
      /\ \A p \in Approvals : p.round \in Nat
  BY RoundNumbers, BooksIs
<1>3. \A t \in new : /\ ApprovalWithId(t.left) = o /\ ApprovalWithId(t.right).round = round
                     /\ ApprovalWithId(t.right) \in PlacedIn(rows)
  BY <1>2, MatchingFacts DEF Kept
<1>4. /\ o.round <= round
      /\ \A p \in Approvals : Placed(p) => p.round <= o.round
  BY <1>1, AcceptingNames DEF RoundsInOrder
<1> HIDE DEF o, new
<1>5. ASSUME NEW t \in new
      PROVE  ApprovalWithId(t.left).round = ApprovalWithId(t.right).round
  <2> DEFINE m == ApprovalWithId(t.right)
  <2>1. m \in Approvals /\ Placed(m) /\ m.round = round
    BY <1>3 DEF PlacedIn, Placed
  <2> HIDE DEF m
  <2>2. m.round <= o.round
    BY <1>4, <2>1
  <2>3. o.round = m.round
    BY <1>2, <1>4, <2>1, <2>2
  <2> QED
    BY <1>3, <2>3 DEF m
<1> QED
  BY <1>1, <1>5 DEF NoCrossRoundTrade

LEMMA TradesAside ==
    ASSUME [ExchangeNext]_exchangeVars, \A r \in Requests : ~createTradesForApproval(r)
    PROVE  UNCHANGED trades
<1>1. CASE \E r \in Requests : addOrder(r)
  BY <1>1 DEF addOrder, lock, checkApproval, storeOrder, storeOperatorApproval, readFillId,
         addFill, ledgerVars, tables
<1>2. CASE ~\E r \in Requests : addOrder(r)
  BY <1>2 DEF ExchangeNext, admit, storeWallet, findForCancel, cancelOrder, balances,
         OperatorStep, nextRound, onNewQuarter, onDeposit, onInitiateWithdrawal,
         confirmWithdrawal, onConfirmWithdrawal, moderateWithdrawalRequest, validateWithdrawal,
         Validate, moderationThrows, approve, cancelInvalid, readAccount, Restart, exchangeVars,
         ledgerVars, tables
<1> QED
  BY <1>1, <1>2

LEMMA CrashesAside ==
    ASSUME [ExchangeNext]_exchangeVars
    PROVE  Restart \/ UNCHANGED crashes
BY DEF ExchangeNext, addOrder, lock, checkApproval, storeOrder, storeOperatorApproval,
       readFillId, addFill, createTradesForApproval, admit, storeWallet, findForCancel,
       cancelOrder, balances, OperatorStep, nextRound, onNewQuarter, onDeposit,
       onInitiateWithdrawal, confirmWithdrawal, onConfirmWithdrawal, moderateWithdrawalRequest,
       validateWithdrawal, Validate, moderationThrows, approve, cancelInvalid, readAccount,
       exchangeVars

\* The exchange starts with no order in a book and no request in the matching engine.
\* (Exchange.ts:95)
THEOREM RoundsInit == ExchangeInit => RoundsInv
<1> SUFFICES ASSUME ExchangeInit PROVE RoundsInv
  OBVIOUS
<1>1. /\ crashes = 0 /\ trades = {} /\ round = 0 /\ blockRound = 0
      /\ \A p \in Approvals : rows[p] = NoRow
      /\ \A r \in Requests : pc[r] = "new" /\ todo[r] = <<>>
  BY DEF ExchangeInit, LedgerInit
<1>2. \A p \in Approvals : ~Placed(p)
  BY <1>1 DEF Placed, NoRow
<1>3. RoundsInOrder
  BY <1>1, <1>2, AcceptingNames DEF RoundsInOrder
<1> QED
  BY <1>1, <1>3, ExchangeAssumption DEF RoundsInv, NoCrossRoundTrade

\* Every step keeps the order of the rounds, and a crash ends the claim.
\* (Exchange.ts:158, 213, Operator.ts:719)
THEOREM RoundsStep == BooksInv /\ RoundsInv /\ [ExchangeNext]_exchangeVars => RoundsInv'
<1> SUFFICES ASSUME BooksInv, RoundsInv, [ExchangeNext]_exchangeVars PROVE RoundsInv'
  OBVIOUS
<1>1. CASE Restart
  BY <1>1, ExchangeAssumption DEF Restart, RoundsInv
<1>2. CASE UNCHANGED crashes /\ ~Restart
  <2> SUFFICES ASSUME crashes = 0 PROVE RoundsInOrder' /\ NoCrossRoundTrade'
    BY <1>2 DEF RoundsInv
  <2>1. RoundsInOrder /\ NoCrossRoundTrade
    BY DEF RoundsInv
  <2>2. RoundsInOrder'
    <3>1. CASE \E r \in Requests : addOrder(r)
      BY <2>1, <3>1, RoundsOrder
    <3>2. CASE ~\E r \in Requests : addOrder(r)
      BY <1>2, <2>1, <3>2, RoundsElse DEF ExchangeNext
    <3> QED
      BY <3>1, <3>2
  <2>3. NoCrossRoundTrade'
    <3>1. CASE \E r \in Requests : createTradesForApproval(r)
      BY <2>1, <3>1, TradesKeep
    <3>2. CASE ~\E r \in Requests : createTradesForApproval(r)
      BY <2>1, <3>2, TradesAside DEF NoCrossRoundTrade
    <3> QED
      BY <3>1, <3>2
  <2> QED
    BY <2>2, <2>3
<1> QED
  BY <1>1, <1>2, CrashesAside

\* As long as nothing crashes, no order is in the book of a later round than that of
\* the request that is matched, and no trade is of two rounds.
THEOREM RoundsStayInOrder == ExchangeSpec => []RoundsInv
BY BooksAreKept, RoundsInit, RoundsStep, PTL DEF ExchangeSpec

\* A fill that comes is of the round of every order that the book has by then, or of
\* a later one.
LEMMA FillsInOrder ==
    ASSUME BooksInv, RoundsInOrder, [ExchangeNext]_exchangeVars,
           NEW f \in fills' \ fills, NEW p \in Approvals, rows[p].status # "none"
    PROVE  p.round <= f.round
<1>1. CASE \E r \in Requests : addFill(r)
  <2>1. PICK r \in Requests : addFill(r)
    BY <1>1
  <2>2. /\ pc[r] \in {"feeFills", "tradeFills"} /\ f.round = Head(todo[r]).round
    BY <2>1 DEF addFill, insertFill
  <2>3. Head(todo[r]) = todo[r][1] /\ 1 \in DOMAIN todo[r]
    BY <2>1, FillKeepsPlaces
  <2>4. f.round = OrderOf[r].round
    BY <2>2, <2>3 DEF RoundsInOrder
  <2>5. pc[r] \in Accepting
    BY <2>2, AcceptingNames
  <2> QED
    BY <2>4, <2>5 DEF RoundsInOrder, Placed
<1>2. CASE \E r \in Requests : addOrder(r) /\ ~addFill(r)
  <2>1. UNCHANGED fills
    BY <1>2 DEF addOrder, lock, checkApproval, storeOrder, storeOperatorApproval, readFillId,
           createTradesForApproval, ledgerVars, tables
  <2> QED
    BY <2>1
<1>3. CASE ~\E r \in Requests : addOrder(r)
  <2>1. UNCHANGED fills
    BY <1>3 DEF ExchangeNext, admit, storeWallet, findForCancel, cancelOrder, balances,
           OperatorStep, nextRound, onNewQuarter, onDeposit, onInitiateWithdrawal,
           confirmWithdrawal, onConfirmWithdrawal, moderateWithdrawalRequest,
           validateWithdrawal, Validate, moderationThrows, approve, cancelInvalid, readAccount,
           Restart, exchangeVars, ledgerVars, tables
  <2> QED
    BY <2>1
<1> QED
  BY <1>1, <1>2, <1>3

\* Without crashes rounds do not mix: no order is matched with one of another round,
\* and once an order is in the book no earlier round gets another fill.
\* (Exchange.ts:158, 213)
THEOREM RoundsDoNotMix == MaxCrashes = 0 => (ExchangeSpec => RoundsAreApart)
<1> SUFFICES ASSUME MaxCrashes = 0 PROVE ExchangeSpec => RoundsAreApart
  OBVIOUS
<1>1. RoundsInv => RoundsInOrder /\ NoCrossRoundTrade
  BY DEF RoundsInv
<1>2. BooksInv /\ RoundsInv /\ [ExchangeNext]_exchangeVars =>
         [\A f \in fills' \ fills :
             \A p \in Approvals : p.client # Operator /\ rows[p].status # "none"
                                      => p.round <= f.round]_exchangeVars
  BY <1>1, FillsInOrder
<1> QED
  BY <1>1, <1>2, BooksAreKept, RoundsStayInOrder, PTL
     DEF ExchangeSpec, RoundsAreApart, OldRoundsAreFinal

(***************************************************************************)
(* The cache of balances.                                                  *)
(***************************************************************************)
Gains(b, a, w) == [q \in Rounds |-> Got(b[q][a][w])]
Takings(b, a, w) == [q \in Rounds |-> Taken(b[q][a][w])]
Nets(b, a, w) == [q \in Rounds |-> Net(b[q][a][w])]

\* The most that the cache may promise: all that came in before the round, and
\* what the round itself has left.
Bound(b, a, w, r) ==
    SumFunctionOnSet(Gains(b, a, w), 0 .. r - 1) + Net(b[r][a][w]) - b[r][a][w].locked

LEMMA RoundsBefore ==
    ASSUME NEW r \in Rounds
    PROVE  /\ r \in Nat /\ IsFiniteSet(0 .. r - 1) /\ IsFiniteSet(0 .. r)
           /\ 0 .. r - 1 \in SUBSET Rounds /\ 0 .. r \in SUBSET Rounds
           /\ (0 .. r) \ {r} = 0 .. r - 1 /\ r \in 0 .. r /\ r \notin 0 .. r - 1
           /\ \A q \in Rounds : q \in 0 .. r - 1 <=> q < r
<1>1. r \in Nat /\ MaxRound \in Nat /\ r <= MaxRound
  BY ExchangeAssumption DEF Rounds
<1>2. IsFiniteSet(0 .. r - 1) /\ IsFiniteSet(0 .. r)
  <2>1. r - 1 \in Int /\ r \in Int /\ 0 \in Int
    BY <1>1
  <2> QED
    BY <2>1, FS_Interval
<1>3. 0 .. r - 1 \in SUBSET Rounds /\ 0 .. r \in SUBSET Rounds
  BY <1>1 DEF Rounds
<1>4. /\ (0 .. r) \ {r} = 0 .. r - 1 /\ r \in 0 .. r /\ r \notin 0 .. r - 1
      /\ \A q \in Rounds : q \in 0 .. r - 1 <=> q < r
  BY <1>1 DEF Rounds
<1> QED
  BY <1>1, <1>2, <1>3, <1>4

LEMMA AccountInts ==
    ASSUME NEW b \in Books, NEW q \in Rounds, NEW a \in Assets, NEW w \in Wallets
    PROVE  LET x == b[q][a][w]
           IN /\ x.deposited \in Int /\ x.withdrawn \in Int /\ x.bought \in Int
              /\ x.sold \in Int /\ x.locked \in Int
              /\ Got(x) \in Int /\ Taken(x) \in Int /\ Net(x) \in Int
              /\ Got(x) = x["deposited"] + x["bought"]
              /\ Taken(x) = x["sold"] + x["withdrawn"]
              /\ Net(x) = x["deposited"] + x["bought"] - x["withdrawn"] - x["sold"]
              /\ Got(x) = Net(x) + Taken(x)
<1> DEFINE x == b[q][a][w]
<1>1. x \in Account
  BY DEF Books
<1> HIDE DEF x
<1>2. /\ x.deposited \in Int /\ x.withdrawn \in Int /\ x.bought \in Int
      /\ x.sold \in Int /\ x.locked \in Int
  BY <1>1 DEF Account
<1> QED
  BY <1>2 DEF Got, Taken, Net, x

\* The balance that is computed is the bound, less what was taken before.
LEMMA ComputedIs ==
    ASSUME NEW b \in Books, NEW a \in Assets, NEW w \in Wallets, NEW r \in Rounds
    PROVE  /\ calculateBalance(b, a, w, r) \in Int /\ Bound(b, a, w, r) \in Int
           /\ SumFunctionOnSet(Takings(b, a, w), 0 .. r - 1) \in Int
           /\ Bound(b, a, w, r) = calculateBalance(b, a, w, r)
                                    + SumFunctionOnSet(Takings(b, a, w), 0 .. r - 1)
<1> DEFINE S == 0 .. r - 1
           T == 0 .. r
           nets == Nets(b, a, w)
           gains == Gains(b, a, w)
           takings == Takings(b, a, w)
           last == b[r][a][w]
<1>1. \A q \in Rounds : /\ nets[q] \in Int /\ gains[q] \in Int /\ takings[q] \in Int
                        /\ gains[q] = nets[q] + takings[q]
  BY AccountInts DEF Nets, Gains, Takings
<1>2. last.locked \in Int /\ nets[r] = Net(last)
  BY AccountInts DEF Nets
<1>3. /\ IsFiniteSet(S) /\ IsFiniteSet(T) /\ S \in SUBSET Rounds /\ T \in SUBSET Rounds
      /\ T \ {r} = S /\ r \in T
  BY RoundsBefore
<1>4. calculateBalance(b, a, w, r) = SumFunctionOnSet(nets, T) - last.locked
  <2>1. (r + 1) - 1 = r
    BY RoundsBefore
  <2> QED
    BY <2>1 DEF calculateBalance, NetBefore, Nets
<1>5. Bound(b, a, w, r) = SumFunctionOnSet(gains, S) + Net(last) - last.locked
  BY DEF Bound
<1> HIDE DEF S, T, nets, gains, takings, last
<1>6. SumFunctionOnSet(nets, T) = nets[r] + SumFunctionOnSet(nets, S)
  <2>1. \A q \in T : nets[q] \in Int
    BY <1>1, <1>3
  <2> QED
    BY <1>3, <2>1, SumTakeOut
<1>7. SumFunctionOnSet(gains, S) = SumFunctionOnSet(nets, S) + SumFunctionOnSet(takings, S)
  <2>1. \A q \in S : nets[q] \in Int /\ takings[q] \in Int /\ gains[q] = nets[q] + takings[q]
    BY <1>1, <1>3
  <2> QED
    BY <1>3, <2>1, SumPlus
<1>8. SumFunctionOnSet(nets, S) \in Int /\ SumFunctionOnSet(takings, S) \in Int
  <2>1. \A q \in S : nets[q] \in Int /\ takings[q] \in Int
    BY <1>1, <1>3
  <2> QED
    BY <1>3, <2>1, SumInt
<1>9. nets[r] \in Int
  BY <1>1
<1>10. /\ calculateBalance(b, a, w, r) \in Int /\ Bound(b, a, w, r) \in Int
       /\ Bound(b, a, w, r) = calculateBalance(b, a, w, r) + SumFunctionOnSet(takings, S)
  BY <1>2, <1>4, <1>5, <1>6, <1>7, <1>8, <1>9
<1> QED
  BY <1>8, <1>10 DEF takings, S

Incoming == {"deposited", "bought"}
Signed(field, x) == IF field \in Incoming THEN x ELSE -x

\* What is booked in a round moves the bound of the round; what comes in moves
\* those of the later rounds, too.
LEMMA BookBound ==
    ASSUME NEW b \in Books, NEW r \in Rounds, NEW a \in Assets, NEW w \in Wallets,
           NEW field \in Fields, NEW x \in Int,
           NEW q \in Rounds, NEW c \in Assets, NEW v \in Wallets
    PROVE  Bound(Book(b, r, a, w, field, x), c, v, q) =
              Bound(b, c, v, q) + (IF ~(c = a /\ v = w) THEN 0
                                   ELSE IF q = r THEN Signed(field, x)
                                   ELSE IF r < q /\ field \in Incoming THEN x ELSE 0)
<1>0. /\ Book(b, r, a, w, field, x) \in Books
      /\ \A u \in Rounds, d \in Assets, z \in Wallets, h \in Fields :
            Book(b, r, a, w, field, x)[u][d][z][h] =
               IF u = r /\ d = a /\ z = w /\ h = field
               THEN b[r][a][w][field] + x ELSE b[u][d][z][h]
  <2>1. BookedIn(Book(b, r, a, w, field, x), b, r, a, w, field, x)
    BY BookIs
  <2> QED
    BY <2>1, Zenon DEF BookedIn
<1> DEFINE n == Book(b, r, a, w, field, x)
           S == 0 .. q - 1
           f == Gains(b, c, v)
           g == Gains(n, c, v)
           old == b[q][c][v]
           new == n[q][c][v]
<1>1. /\ n \in Books
      /\ \A u \in Rounds, d \in Assets, z \in Wallets, h \in Fields :
            n[u][d][z][h] = IF u = r /\ d = a /\ z = w /\ h = field
                            THEN b[r][a][w][field] + x ELSE b[u][d][z][h]
  BY <1>0
<1> HIDE DEF n
<1>2. /\ IsFiniteSet(S) /\ S \in SUBSET Rounds /\ q \notin S
      /\ \A u \in Rounds : u \in S <=> u < q
  BY RoundsBefore
<1>3. \A u \in Rounds : f[u] \in Int /\ g[u] \in Int
                        /\ f[u] = b[u][c][v]["deposited"] + b[u][c][v]["bought"]
                        /\ g[u] = n[u][c][v]["deposited"] + n[u][c][v]["bought"]
  BY <1>1, AccountInts DEF Gains
<1>4. /\ Bound(b, c, v, q) = SumFunctionOnSet(f, S) + Net(old) - old["locked"]
      /\ Bound(n, c, v, q) = SumFunctionOnSet(g, S) + Net(new) - new["locked"]
  BY DEF Bound
<1>5. {"deposited", "bought", "withdrawn", "sold", "locked"} = Fields
  BY DEF Fields
<1>6. /\ Net(old) = old["deposited"] + old["bought"] - old["withdrawn"] - old["sold"]
      /\ Net(new) = new["deposited"] + new["bought"] - new["withdrawn"] - new["sold"]
      /\ \A h \in Fields : old[h] \in Int /\ new[h] \in Int
  BY <1>1, <1>5, AccountInts
<1>7. Net(new) - new["locked"] =
         Net(old) - old["locked"] + (IF c = a /\ v = w /\ q = r THEN Signed(field, x) ELSE 0)
  <2>1. CASE c = a /\ v = w /\ q = r
    <3>1. \A h \in Fields : new[h] = IF h = field THEN old[h] + x ELSE old[h]
      BY <1>1, <2>1
    <3> HIDE DEF old, new
    <3> QED
      BY <1>5, <1>6, <2>1, <3>1 DEF Signed, Incoming
  <2>2. CASE ~(c = a /\ v = w /\ q = r)
    <3>1. \A h \in Fields : new[h] = old[h]
      BY <1>1, <2>2
    <3> HIDE DEF old, new
    <3> QED
      BY <1>5, <1>6, <2>2, <3>1
  <2> QED
    BY <2>1, <2>2
<1>8. SumFunctionOnSet(g, S) =
         SumFunctionOnSet(f, S)
           + (IF c = a /\ v = w /\ r < q /\ field \in Incoming THEN x ELSE 0)
  <2>1. CASE c = a /\ v = w /\ r < q /\ field \in Incoming
    <3>1. \A u \in Rounds \ {r} : g[u] = f[u]
      BY <1>1, <1>3, <1>5
    <3>2. g[r] = f[r] + x
      <4>1. \A h \in Incoming : n[r][c][v][h] = IF h = field THEN b[r][c][v][h] + x ELSE b[r][c][v][h]
        BY <1>1, <1>5, <2>1 DEF Incoming
      <4>2. b[r][c][v]["deposited"] \in Int /\ b[r][c][v]["bought"] \in Int
        BY AccountInts
      <4> QED
        BY <1>3, <2>1, <4>1, <4>2 DEF Incoming
    <3> HIDE DEF f, g, S
    <3>3. Adds(f, g, S, r, x)
      BY <1>2, <1>3, <2>1, <3>1, <3>2 DEF Adds
    <3> QED
      BY <1>2, <2>1, <3>3, SumAdds
  <2>2. CASE ~(c = a /\ v = w /\ r < q /\ field \in Incoming)
    <3>1. \A u \in S : g[u] = f[u]
      <4> TAKE u \in S
      <4>1. u \in Rounds /\ u < q
        BY <1>2
      <4>2. \A h \in Incoming : n[u][c][v][h] = b[u][c][v][h]
        BY <1>1, <1>5, <2>2, <4>1 DEF Incoming
      <4> QED
        BY <1>3, <4>1, <4>2 DEF Incoming
    <3> HIDE DEF f, g, S
    <3>2. SumFunctionOnSet(f, S) = SumFunctionOnSet(g, S) /\ SumFunctionOnSet(f, S) \in Int
      <4>1. \A u \in S : f[u] \in Int /\ f[u] = g[u]
        BY <1>2, <1>3, <3>1
      <4> QED
        BY <1>2, <4>1, SumEqual, SumInt
    <3> QED
      BY <2>2, <3>2
  <2> QED
    BY <2>1, <2>2
<1>9. SumFunctionOnSet(f, S) \in Int /\ r \in Int /\ q \in Int
  <2>1. \A u \in S : f[u] \in Int
    BY <1>2, <1>3
  <2> HIDE DEF f, S
  <2> QED
    BY <1>2, <2>1, SumInt, RoundsBefore
<1> DEFINE F == SumFunctionOnSet(f, S)
           G == SumFunctionOnSet(g, S)
           lo == Net(old) - old["locked"]
           ln == Net(new) - new["locked"]
<1>10. lo \in Int /\ Bound(b, c, v, q) = F + lo /\ Bound(n, c, v, q) = G + ln
       /\ Signed(field, x) \in Int
  <2>1. Net(old) \in Int /\ Net(new) \in Int /\ old["locked"] \in Int /\ new["locked"] \in Int
    BY <1>5, <1>6
  <2>2. Signed(field, x) \in Int
    BY DEF Signed
  <2>3. F \in Int /\ G \in Int
    BY <1>8, <1>9
  <2> HIDE DEF F, G, old, new
  <2> QED
    BY <1>4, <2>1, <2>2, <2>3 DEF F, G
<1> HIDE DEF F, G, lo, ln, f, g, S, old, new
<1> QED
  BY <1>7, <1>8, <1>9, <1>10 DEF n, F, G, lo, ln
Cache == [Assets -> [Wallets -> [round : Rounds \cup {-1}, balance : Int]]]

\* Accounts b and a cache c that promises nothing beyond the bounds.
Covered(c, b) ==
    /\ c \in Cache /\ b \in Books
    /\ \A r \in Rounds, a \in Assets, w \in Wallets : b[r][a][w]["sold"] \in Nat
    /\ \A a \in Assets, w \in Wallets :
          c[a][w].round # -1 => c[a][w].balance <= Bound(b, a, w, c[a][w].round)

LEMMA EntryFacts ==
    ASSUME NEW c \in Cache, NEW a \in Assets, NEW w \in Wallets
    PROVE  /\ c[a][w] \in [round : Rounds \cup {-1}, balance : Int]
           /\ c[a][w].round \in Rounds \cup {-1} /\ c[a][w].balance \in Int
           /\ c[a][w].round # -1 => c[a][w].round \in Rounds
<1>1. c[a][w] \in [round : Rounds \cup {-1}, balance : Int]
  BY DEF Cache
<1> QED
  BY <1>1

LEMMA UpdateFacts ==
    ASSUME NEW c \in Cache, NEW a \in Assets, NEW w \in Wallets, NEW r, NEW d \in Int
    PROVE  /\ updateCachedBalance(c, a, w, r, d) \in Cache
           /\ \A e \in Assets, v \in Wallets :
                 /\ updateCachedBalance(c, a, w, r, d)[e][v].round = c[e][v].round
                 /\ updateCachedBalance(c, a, w, r, d)[e][v].balance =
                       c[e][v].balance + (IF e = a /\ v = w /\ c[a][w].round = r THEN d ELSE 0)
<1> DEFINE old == c[a][w]
           new == [old EXCEPT !.balance = old.balance + d]
           after == [c EXCEPT ![a][w] = new]
<1>1. \A e \in Assets, v \in Wallets : c[e][v].balance \in Int
  BY EntryFacts
<1>2. CASE c[a][w].round = r
  <2>1. old \in [round : Rounds \cup {-1}, balance : Int]
    BY EntryFacts
  <2>2. /\ new \in [round : Rounds \cup {-1}, balance : Int]
        /\ new.round = old.round /\ new.balance = old.balance + d
    <3> HIDE DEF old
    <3> QED
      BY <2>1
  <2>3. updateCachedBalance(c, a, w, r, d) = after
    BY <1>2 DEF updateCachedBalance
  <2> HIDE DEF new
  <2>4. /\ after \in Cache
        /\ \A e \in Assets, v \in Wallets :
              after[e][v] = IF e = a /\ v = w THEN new ELSE c[e][v]
    BY <2>2 DEF Cache
  <2> HIDE DEF after
  <2>5. \A e \in Assets, v \in Wallets :
           /\ after[e][v].round = c[e][v].round
           /\ after[e][v].balance = c[e][v].balance + (IF e = a /\ v = w THEN d ELSE 0)
    <3> TAKE e \in Assets, v \in Wallets
    <3>1. CASE e = a /\ v = w
      BY <2>2, <2>4, <3>1
    <3>2. CASE ~(e = a /\ v = w)
      BY <1>1, <2>4, <3>2
    <3> QED
      BY <3>1, <3>2
  <2> QED
    BY <1>2, <2>3, <2>4, <2>5
<1>3. CASE c[a][w].round # r
  BY <1>1, <1>3 DEF updateCachedBalance
<1> QED
  BY <1>2, <1>3

\* A booking, and what the cache is told of it.
LEMMA CoveredBook ==
    ASSUME NEW c, NEW b, Covered(c, b), NEW r \in Rounds, NEW a \in Assets, NEW w \in Wallets,
           NEW field \in Fields, NEW x \in Int, NEW d \in Int, d <= Signed(field, x),
           field \in Incoming \cup {"sold"} => x \in Nat
    PROVE  Covered(updateCachedBalance(c, a, w, r, d), Book(b, r, a, w, field, x))
<1> DEFINE n == Book(b, r, a, w, field, x)
           u == updateCachedBalance(c, a, w, r, d)
<1>1. c \in Cache /\ b \in Books
  BY DEF Covered
<1>2. u \in Cache
      /\ \A e \in Assets, v \in Wallets :
            /\ u[e][v].round = c[e][v].round
            /\ u[e][v].balance =
                  c[e][v].balance + (IF e = a /\ v = w /\ c[a][w].round = r THEN d ELSE 0)
  BY <1>1, UpdateFacts
<1>3. n \in Books
      /\ \A q \in Rounds, e \in Assets, v \in Wallets :
            n[q][e][v]["sold"] = IF q = r /\ e = a /\ v = w /\ "sold" = field
                                 THEN b[r][a][w][field] + x ELSE b[q][e][v]["sold"]
  <2>1. "sold" \in Fields
    BY DEF Fields
  <2> QED
    BY <1>1, <2>1, BookFacts
<1>4. \A q \in Rounds, e \in Assets, v \in Wallets : n[q][e][v]["sold"] \in Nat
  <2>1. \A q \in Rounds, e \in Assets, v \in Wallets : b[q][e][v]["sold"] \in Nat
    BY DEF Covered
  <2>2. "sold" = field => x \in Nat
    OBVIOUS
  <2> HIDE DEF n
  <2> QED
    BY <1>3, <2>1, <2>2
<1>5. ASSUME NEW e \in Assets, NEW v \in Wallets, u[e][v].round # -1
      PROVE  u[e][v].balance <= Bound(n, e, v, u[e][v].round)
  <2> DEFINE q == c[e][v].round
             old == Bound(b, e, v, q)
             new == Bound(n, e, v, q)
             y == c[e][v].balance
  <2>1. q \in Rounds /\ y \in Int /\ y <= old /\ u[e][v].round = q
    BY <1>1, <1>2, <1>5, EntryFacts DEF Covered
  <2>2. old \in Int
    BY <1>1, <2>1, ComputedIs
  <2>3. new = old + (IF ~(e = a /\ v = w) THEN 0
                     ELSE IF q = r THEN Signed(field, x)
                     ELSE IF r < q /\ field \in Incoming THEN x ELSE 0)
    BY <1>1, <2>1, BookBound
  <2>4. u[e][v].balance = y + (IF e = a /\ v = w /\ q = r THEN d ELSE 0)
    BY <1>2
  <2>5. Signed(field, x) \in Int /\ (field \in Incoming => x \in Nat)
    BY DEF Signed
  <2> HIDE DEF q, old, new, y, n, u
  <2>6. u[e][v].balance <= new
    <3>1. CASE e = a /\ v = w /\ q = r
      BY <2>1, <2>2, <2>3, <2>4, <2>5, <3>1
    <3>2. CASE ~(e = a /\ v = w /\ q = r)
      BY <2>1, <2>2, <2>3, <2>4, <2>5, <3>2
    <3> QED
      BY <3>1, <3>2
  <2> QED
    BY <2>1, <2>6 DEF new
<1> HIDE DEF n, u
<1> QED
  BY <1>2, <1>3, <1>4, <1>5 DEF Covered, n, u

\* The cache is lowered, and nothing is booked.
LEMMA CoveredLower ==
    ASSUME NEW c, NEW b, Covered(c, b), NEW r \in Rounds, NEW a \in Assets, NEW w \in Wallets,
           NEW d \in Int, d <= 0
    PROVE  Covered(updateCachedBalance(c, a, w, r, d), b)
<1> DEFINE u == updateCachedBalance(c, a, w, r, d)
<1>1. c \in Cache /\ b \in Books
  BY DEF Covered
<1>2. u \in Cache
      /\ \A e \in Assets, v \in Wallets :
            /\ u[e][v].round = c[e][v].round
            /\ u[e][v].balance =
                  c[e][v].balance + (IF e = a /\ v = w /\ c[a][w].round = r THEN d ELSE 0)
  BY <1>1, UpdateFacts
<1> HIDE DEF u
<1>3. ASSUME NEW e \in Assets, NEW v \in Wallets, u[e][v].round # -1
      PROVE  u[e][v].balance <= Bound(b, e, v, u[e][v].round)
  <2> DEFINE q == c[e][v].round
             most == Bound(b, e, v, q)
             y == c[e][v].balance
  <2>1. q \in Rounds /\ y \in Int /\ y <= most /\ u[e][v].round = q
    BY <1>1, <1>2, <1>3, EntryFacts DEF Covered
  <2>2. most \in Int
    BY <1>1, <2>1, ComputedIs
  <2>3. u[e][v].balance = y + (IF e = a /\ v = w /\ q = r THEN d ELSE 0)
    BY <1>2
  <2> HIDE DEF q, most, y
  <2>4. u[e][v].balance <= most
    BY <2>1, <2>2, <2>3
  <2> QED
    BY <2>1, <2>4 DEF most
<1> QED
  BY <1>2, <1>3 DEF Covered, u

\* A balance is cached as it is computed from the tables.
LEMMA CoveredSeen ==
    ASSUME Kept, NEW c, Covered(c, accounts), NEW a \in Assets, NEW w \in Wallets,
           NEW r \in Rounds
    PROVE  Covered(Remember(c, a, w, r), accounts)
<1> DEFINE entry == [round |-> r, balance |-> calculateBalance(accounts, a, w, r)]
           after == [c EXCEPT ![a][w] = entry]
           takings == Takings(accounts, a, w)
           S == 0 .. r - 1
<1>1. c \in Cache /\ accounts \in Books
  BY DEF Covered
<1>2. CASE c[a][w].round = r
  <2>1. Remember(c, a, w, r) = c
    BY <1>2 DEF Remember
  <2> QED
    BY <2>1
<1>3. CASE c[a][w].round # r
  <2>1. Remember(c, a, w, r) = after
    BY <1>3 DEF Remember
  <2>2. /\ calculateBalance(accounts, a, w, r) \in Int /\ Bound(accounts, a, w, r) \in Int
        /\ SumFunctionOnSet(takings, S) \in Int
        /\ Bound(accounts, a, w, r) = calculateBalance(accounts, a, w, r)
                                        + SumFunctionOnSet(takings, S)
    BY <1>1, ComputedIs
  <2>3. SumFunctionOnSet(takings, S) \in Nat
    <3>1. \A q \in Rounds : takings[q] \in Nat
      <4> TAKE q \in Rounds
      <4>1. accounts[q][a][w]["sold"] \in Nat
        BY DEF Covered
      <4>2. accounts[q][a][w]["withdrawn"] \in Nat
        <5> DEFINE W == withdrawals
                   t == TakingOf(W)
                   T == {i \in DOMAIN W : KeyOf(W)[i] = <<q, a, w>>}
        <5>1. W \in Seq(Withdrawal) /\ accounts[q][a][w]["withdrawn"] = SumFunctionOnSet(t, T)
          BY DEF Kept, Sound, Accounted
        <5>2. \A i \in DOMAIN W : t[i] \in Nat
          <6>1. \A i \in DOMAIN W : W[i].amount \in Nat
            BY <5>1, TakingFacts
          <6> QED
            BY <6>1 DEF TakingOf
        <5>3. IsFiniteSet(DOMAIN W)
          BY <5>1, TakingFacts
        <5>4. T \in SUBSET DOMAIN W
          OBVIOUS
        <5> HIDE DEF T, t, W
        <5>5. IsFiniteSet(T) /\ \A i \in T : t[i] \in Nat
          BY <5>2, <5>3, <5>4, FS_Subset
        <5> QED
          BY <5>1, <5>5, SumNat
      <4>3. Taken(accounts[q][a][w])
               = accounts[q][a][w]["sold"] + accounts[q][a][w]["withdrawn"]
        BY <1>1, AccountInts
      <4> QED
        BY <4>1, <4>2, <4>3 DEF Takings
    <3>2. IsFiniteSet(S) /\ S \in SUBSET Rounds
      BY RoundsBefore
    <3> HIDE DEF takings, S
    <3>3. \A q \in S : takings[q] \in Nat
      BY <3>1, <3>2
    <3> QED
      BY <3>2, <3>3, SumNat
  <2> DEFINE sum == SumFunctionOnSet(takings, S)
             most == Bound(accounts, a, w, r)
             y == calculateBalance(accounts, a, w, r)
  <2>4. y <= most
    <3>1. y \in Int /\ sum \in Nat /\ most = y + sum
      BY <2>2, <2>3
    <3> HIDE DEF y, sum, most
    <3> QED
      BY <3>1
  <2>5. entry \in [round : Rounds \cup {-1}, balance : Int] /\ entry.round = r
        /\ entry.balance = y
    BY <2>2
  <2> HIDE DEF entry, y, most
  <2>6. /\ after \in Cache
        /\ \A e \in Assets, v \in Wallets :
              after[e][v] = IF e = a /\ v = w THEN entry ELSE c[e][v]
    BY <1>1, <2>5 DEF Cache
  <2> HIDE DEF after
  <2>7. ASSUME NEW e \in Assets, NEW v \in Wallets, after[e][v].round # -1
        PROVE  after[e][v].balance <= Bound(accounts, e, v, after[e][v].round)
    <3>1. CASE e = a /\ v = w
      BY <2>4, <2>5, <2>6, <3>1 DEF most
    <3>2. CASE ~(e = a /\ v = w)
      BY <2>6, <2>7, <3>2 DEF Covered
    <3> QED
      BY <3>1, <3>2
  <2> QED
    BY <2>1, <2>6, <2>7 DEF Covered
<1> QED
  BY <1>2, <1>3

\* A fill of what was locked leaves the bounds as they are.
LEMMA CoveredFill ==
    ASSUME NEW c, NEW b, Covered(c, b), NEW r \in Rounds, NEW a \in Assets, NEW w \in Wallets,
           NEW s \in Nat
    PROVE  Covered(c, Book(Book(b, r, a, w, "sold", s), r, a, w, "locked", -s))
<1> DEFINE m == Book(b, r, a, w, "sold", s)
           x == -s
           n == Book(m, r, a, w, "locked", x)
<1>1. /\ c \in Cache /\ b \in Books /\ s \in Int /\ x \in Int
      /\ "sold" \in Fields /\ "locked" \in Fields
  BY DEF Covered, Fields
<1> HIDE DEF x
<1>2. /\ m \in Books
      /\ \A q \in Rounds, e \in Assets, v \in Wallets, g \in Fields :
            m[q][e][v][g] = IF q = r /\ e = a /\ v = w /\ g = "sold"
                            THEN b[r][a][w]["sold"] + s ELSE b[q][e][v][g]
  <2>1. BookedIn(m, b, r, a, w, "sold", s)
    BY <1>1, BookIs
  <2> QED
    BY <2>1, Zenon DEF BookedIn
<1>3. \A q \in Rounds, e \in Assets, v \in Wallets :
         Bound(m, e, v, q) = Bound(b, e, v, q) + (IF ~(e = a /\ v = w) THEN 0
                                ELSE IF q = r THEN Signed("sold", s)
                                ELSE IF r < q /\ "sold" \in Incoming THEN s ELSE 0)
  BY <1>1, BookBound
<1> HIDE DEF m
<1>4. /\ n \in Books
      /\ \A q \in Rounds, e \in Assets, v \in Wallets, g \in Fields :
            n[q][e][v][g] = IF q = r /\ e = a /\ v = w /\ g = "locked"
                            THEN m[r][a][w]["locked"] + x ELSE m[q][e][v][g]
  <2>1. BookedIn(n, m, r, a, w, "locked", x)
    BY <1>1, <1>2, BookIs
  <2> QED
    BY <2>1, Zenon DEF BookedIn
<1>5. \A q \in Rounds, e \in Assets, v \in Wallets :
         Bound(n, e, v, q) = Bound(m, e, v, q) + (IF ~(e = a /\ v = w) THEN 0
                                ELSE IF q = r THEN Signed("locked", x)
                                ELSE IF r < q /\ "locked" \in Incoming THEN x ELSE 0)
  BY <1>1, <1>2, BookBound
<1> HIDE DEF n
<1>6. \A q \in Rounds, e \in Assets, v \in Wallets : Bound(n, e, v, q) = Bound(b, e, v, q)
  <2> TAKE q \in Rounds, e \in Assets, v \in Wallets
  <2>1. Bound(b, e, v, q) \in Int
    BY <1>1, ComputedIs
  <2>2. Signed("sold", s) = -s /\ Signed("locked", x) = s
        /\ "sold" \notin Incoming /\ "locked" \notin Incoming
    BY DEF Signed, Incoming, x
  <2> DEFINE B == Bound(b, e, v, q)
             M == Bound(m, e, v, q)
             N == Bound(n, e, v, q)
  <2>3. /\ M = B + (IF ~(e = a /\ v = w) THEN 0 ELSE IF q = r THEN -s ELSE 0)
        /\ N = M + (IF ~(e = a /\ v = w) THEN 0 ELSE IF q = r THEN s ELSE 0)
    BY <1>3, <1>5, <2>2
  <2> HIDE DEF B, M, N
  <2>4. N = B
    BY <2>1, <2>3 DEF B
  <2> QED
    BY <2>4 DEF N, B
<1>7. \A q \in Rounds, e \in Assets, v \in Wallets : n[q][e][v]["sold"] \in Nat
  <2>1. \A q \in Rounds, e \in Assets, v \in Wallets : b[q][e][v]["sold"] \in Nat
    BY DEF Covered
  <2> QED
    BY <1>1, <1>2, <1>4, <2>1
<1>8. ASSUME NEW e \in Assets, NEW v \in Wallets, c[e][v].round # -1
      PROVE  c[e][v].balance <= Bound(n, e, v, c[e][v].round)
  BY <1>1, <1>6, <1>8, EntryFacts DEF Covered
<1> QED
  BY <1>1, <1>4, <1>7, <1>8 DEF Covered, n, m, x

\* An account locks what an approval sells.
LEMMA CoveredLock ==
    ASSUME NEW c, NEW b, Covered(c, b), NEW p \in Approvals
    PROVE  Covered(Deduct(c, p), Lock(b, p))
<1> DEFINE x == p.sellAmount
           d == -x
<1>1. p.round \in Rounds /\ p.sellAsset \in Assets /\ p.client \in Wallets /\ x \in Nat
  BY ApprovalFacts
<1>2. "locked" \in Fields /\ "locked" \notin Incoming \cup {"sold"}
  BY DEF Fields, Incoming
<1>3. x \in Int /\ d \in Int /\ d <= Signed("locked", x)
  BY <1>1 DEF Signed, Incoming
<1> HIDE DEF x, d
<1>4. Covered(updateCachedBalance(c, p.sellAsset, p.client, p.round, d),
              Book(b, p.round, p.sellAsset, p.client, "locked", x))
  BY <1>1, <1>2, <1>3, CoveredBook
<1> QED
  BY <1>4 DEF Deduct, Lock, x, d

LEMMA CoveredDeduct ==
    ASSUME NEW c, NEW b, Covered(c, b), NEW p \in Approvals
    PROVE  Covered(Deduct(c, p), b)
<1> DEFINE d == -p.sellAmount
<1>1. p.round \in Rounds /\ p.sellAsset \in Assets /\ p.client \in Wallets
  BY ApprovalFacts
<1>2. d \in Int /\ d <= 0
  <2>1. p.sellAmount \in Nat
    BY ApprovalFacts
  <2> QED
    BY <2>1
<1> HIDE DEF d
<1>3. Covered(updateCachedBalance(c, p.sellAsset, p.client, p.round, d), b)
  BY <1>1, <1>2, CoveredLower
<1> QED
  BY <1>3 DEF Deduct, d

LEMMA CoveredSeenFor ==
    ASSUME Kept, NEW c, Covered(c, accounts), NEW p \in Approvals
    PROVE  Covered(Seen(c, p), accounts)
<1>1. p.round \in Rounds /\ p.sellAsset \in Assets /\ p.client \in Wallets
  BY ApprovalFacts
<1> QED
  BY <1>1, CoveredSeen DEF Seen

(* What the ledger does. *)

LEMMA InsertOrderCovers ==
    ASSUME Kept, Covered(cache, accounts), NEW o \in Orders,
           \/ insertOrder(o, FeeOf(o))
           \/ insertOrderFails(o, FeeOf(o)) /\ UNCHANGED accounts
    PROVE  Covered(cache', accounts')
<1> DEFINE fee == FeeOf(o)
           once == Seen(cache, o)
           both == Seen(once, fee)
<1>1. o \in Approvals /\ fee \in Approvals
  BY ApprovalsHere
<1>2. \/ accounts' = Lock(Lock(accounts, o), fee) /\ cache' = Deduct(Deduct(both, o), fee)
      \/ UNCHANGED accounts /\ cache' \in {once, both, Deduct(both, o)}
  BY DEF insertOrder, insertOrderFails
<1> HIDE DEF fee
<1>3. Covered(once, accounts)
  BY <1>1, CoveredSeenFor
<1> HIDE DEF once
<1>4. Covered(both, accounts)
  BY <1>1, <1>3, CoveredSeenFor
<1> HIDE DEF both
<1>5. Covered(Deduct(both, o), accounts)
  BY <1>1, <1>4, CoveredDeduct
<1>6. Covered(Deduct(Deduct(both, o), fee), Lock(Lock(accounts, o), fee))
  <2> DEFINE c == Deduct(both, o)
             b == Lock(accounts, o)
  <2>1. Covered(c, b)
    BY <1>1, <1>4, CoveredLock
  <2> HIDE DEF c, b
  <2>2. Covered(Deduct(c, fee), Lock(b, fee))
    BY <1>1, <2>1, CoveredLock
  <2> QED
    BY <2>2 DEF c, b
<1> QED
  BY <1>2, <1>3, <1>4, <1>5, <1>6

LEMMA InsertApprovalCovers ==
    ASSUME Kept, Covered(cache, accounts), NEW p \in Approvals,
           insertApproval(p) \/ (cache' = Seen(cache, p) /\ UNCHANGED accounts)
    PROVE  Covered(cache', accounts')
<1> DEFINE seen == Seen(cache, p)
<1>1. \/ accounts' = Lock(accounts, p) /\ cache' = Deduct(seen, p)
      \/ UNCHANGED accounts /\ cache' = seen
  BY DEF insertApproval
<1>2. Covered(seen, accounts)
  BY CoveredSeenFor
<1> HIDE DEF seen
<1>3. Covered(Deduct(seen, p), Lock(accounts, p))
  BY <1>2, CoveredLock
<1> QED
  BY <1>1, <1>2, <1>3

LEMMA CancelApprovalCovers ==
    ASSUME Kept, Covered(cache, accounts), NEW p \in Approvals, cancelApproval(p)
    PROVE  Covered(cache', accounts')
<1> DEFINE d == p.sellAmount - rows[p].filledSell
           x == -d
<1>1. /\ accounts' = Book(accounts, p.round, p.sellAsset, p.client, "locked", x)
      /\ cache' = updateCachedBalance(cache, p.sellAsset, p.client, p.round, d)
  BY DEF cancelApproval
<1>2. p.round \in Rounds /\ p.sellAsset \in Assets /\ p.client \in Wallets /\ p.sellAmount \in Nat
  BY ApprovalFacts
<1>3. rows[p].filledSell \in Nat
  <2>1. rows[p] \in Row
    BY DEF Kept, Rows
  <2> QED
    BY <2>1 DEF Row
<1>4. d \in Int /\ x \in Int /\ d <= Signed("locked", x)
  BY <1>2, <1>3 DEF Signed, Incoming
<1>5. "locked" \in Fields /\ "locked" \notin Incoming \cup {"sold"}
  BY DEF Fields, Incoming
<1> HIDE DEF d, x
<1>6. Covered(updateCachedBalance(cache, p.sellAsset, p.client, p.round, d),
              Book(accounts, p.round, p.sellAsset, p.client, "locked", x))
  BY <1>2, <1>4, <1>5, CoveredBook
<1> QED
  BY <1>1, <1>6

LEMMA InsertFillCovers ==
    ASSUME Covered(cache, accounts), NEW id, NEW p \in Approvals, NEW buy \in Nat,
           NEW sell \in Nat, NEW r, insertFill(id, p, buy, sell, r)
    PROVE  Covered(cache', accounts')
<1> DEFINE unlocked == Book(Book(accounts, p.round, p.sellAsset, p.client, "sold", sell),
                            p.round, p.sellAsset, p.client, "locked", -sell)
<1>1. /\ accounts' = Book(unlocked, p.round, p.buyAsset, p.client, "bought", buy)
      /\ cache' = updateCachedBalance(cache, p.buyAsset, p.client, p.round, buy)
  BY DEF insertFill, FillAccepted
<1>2. /\ p.round \in Rounds /\ p.sellAsset \in Assets /\ p.buyAsset \in Assets
      /\ p.client \in Wallets
  BY ApprovalFacts
<1>3. Covered(cache, unlocked)
  BY <1>2, CoveredFill
<1> HIDE DEF unlocked
<1>4. "bought" \in Fields /\ buy \in Int /\ buy <= Signed("bought", buy)
  BY DEF Fields, Signed, Incoming
<1>5. Covered(updateCachedBalance(cache, p.buyAsset, p.client, p.round, buy),
              Book(unlocked, p.round, p.buyAsset, p.client, "bought", buy))
  BY <1>2, <1>3, <1>4, CoveredBook
<1> QED
  BY <1>1, <1>5

LEMMA CreditCovers ==
    ASSUME Covered(cache, accounts), NEW r \in Rounds, NEW a \in Assets, NEW w \in Wallets,
           NEW x \in Nat, creditDeposit(a, w, x, r)
    PROVE  Covered(cache', accounts')
<1>1. /\ accounts' = Book(accounts, r, a, w, "deposited", x)
      /\ cache' = updateCachedBalance(cache, a, w, r, x)
  BY DEF creditDeposit
<1>2. "deposited" \in Fields /\ x \in Int /\ x <= Signed("deposited", x)
  BY DEF Fields, Signed, Incoming
<1>3. Covered(updateCachedBalance(cache, a, w, r, x), Book(accounts, r, a, w, "deposited", x))
  BY <1>2, CoveredBook
<1> QED
  BY <1>1, <1>3

\* A withdrawal is booked, or booked back.
LEMMA WithdrawCovers ==
    ASSUME Kept, NEW c, Covered(c, accounts), NEW i \in DOMAIN withdrawals, NEW x \in Int
    PROVE  LET w == withdrawals[i]
           IN  Covered(updateCachedBalance(c, w.asset, w.wallet, w.round, -x),
                       Book(accounts, w.round, w.asset, w.wallet, "withdrawn", x))
<1> DEFINE w == withdrawals[i]
           d == -x
<1>1. w.asset \in Assets /\ w.wallet \in Wallets /\ w.round \in Rounds
  <2>1. withdrawals[i] \in Withdrawal
    BY DEF Kept
  <2> QED
    BY <2>1 DEF Withdrawal
<1>2. /\ "withdrawn" \in Fields /\ "withdrawn" \notin Incoming \cup {"sold"}
      /\ d \in Int /\ d <= Signed("withdrawn", x)
  BY DEF Fields, Signed, Incoming
<1> HIDE DEF w, d
<1>3. Covered(updateCachedBalance(c, w.asset, w.wallet, w.round, d),
              Book(accounts, w.round, w.asset, w.wallet, "withdrawn", x))
  BY <1>1, <1>2, CoveredBook
<1> QED
  BY <1>3 DEF w, d

LEMMA ApproveWithdrawalCovers ==
    ASSUME Kept, Covered(cache, accounts), NEW i \in DOMAIN withdrawals, approveWithdrawal(i)
    PROVE  Covered(cache', accounts')
<1> DEFINE w == withdrawals[i]
           x == w.amount
<1>1. /\ accounts' = Book(accounts, w.round, w.asset, w.wallet, "withdrawn", x)
      /\ cache' = updateCachedBalance(cache, w.asset, w.wallet, w.round, -x)
  BY DEF approveWithdrawal
<1>2. x \in Int
  <2>1. w \in Withdrawal
    BY DEF Kept
  <2> QED
    BY <2>1 DEF Withdrawal
<1> HIDE DEF x
<1>3. Covered(updateCachedBalance(cache, w.asset, w.wallet, w.round, -x),
              Book(accounts, w.round, w.asset, w.wallet, "withdrawn", x))
  BY <1>2, WithdrawCovers
<1> QED
  BY <1>1, <1>3

LEMMA CancelWithdrawalCovers ==
    ASSUME Kept, NEW c, Covered(c, accounts), NEW w, cancelWithdrawalAsync(c, w)
    PROVE  Covered(cache', accounts')
<1>1. PICK i \in FirstOf(w, {"pending", "unchecked"}) :
         \/ /\ accounts' = Book(accounts, withdrawals[i].round, withdrawals[i].asset,
                                withdrawals[i].wallet, "withdrawn", -withdrawals[i].amount)
            /\ cache' = updateCachedBalance(c, withdrawals[i].asset, withdrawals[i].wallet,
                                            withdrawals[i].round, withdrawals[i].amount)
         \/ UNCHANGED accounts /\ cache' = c
  BY DEF cancelWithdrawalAsync
<1>2. i \in DOMAIN withdrawals
  BY FirstOfFacts
<1> DEFINE v == withdrawals[i]
           x == -v.amount
<1>3. x \in Int /\ -x = v.amount
  <2>1. v \in Withdrawal
    BY <1>2 DEF Kept
  <2>2. v.amount \in Int
    BY <2>1 DEF Withdrawal
  <2> QED
    BY <2>2
<1>4. CASE /\ accounts' = Book(accounts, v.round, v.asset, v.wallet, "withdrawn", -v.amount)
           /\ cache' = updateCachedBalance(c, v.asset, v.wallet, v.round, v.amount)
  <2>1. /\ accounts' = Book(accounts, v.round, v.asset, v.wallet, "withdrawn", x)
        /\ cache' = updateCachedBalance(c, v.asset, v.wallet, v.round, -x)
    BY <1>3, <1>4
  <2>2. x \in Int
    BY <1>3
  <2> HIDE DEF x
  <2>3. Covered(updateCachedBalance(c, v.asset, v.wallet, v.round, -x),
                Book(accounts, v.round, v.asset, v.wallet, "withdrawn", x))
    BY <1>2, <2>2, WithdrawCovers
  <2> QED
    BY <2>1, <2>3
<1>5. CASE UNCHANGED accounts /\ cache' = c
  BY <1>5
<1> QED
  BY <1>1, <1>4, <1>5

(* CacheInv is inductive relative to BooksInv. *)

LEMMA CacheIs ==
    /\ accounts \in Books => (CacheInv <=> Covered(cache, accounts))
    /\ accounts' \in Books => (CacheInv' <=> Covered(cache', accounts'))
<1>1. ASSUME accounts \in Books PROVE CacheInv <=> Covered(cache, accounts)
  <2>1. ASSUME cache \in Cache
        PROVE  \A a \in Assets, w \in Wallets : cache[a][w].round # -1 =>
                  (cache[a][w].balance <= Computed(a, w) + TakenBefore(a, w, cache[a][w].round)
                     <=> cache[a][w].balance <= Bound(accounts, a, w, cache[a][w].round))
    <3> TAKE a \in Assets, w \in Wallets
    <3> HAVE cache[a][w].round # -1
    <3>1. cache[a][w].round \in Rounds
      BY <2>1, EntryFacts
    <3>2. Bound(accounts, a, w, cache[a][w].round)
             = Computed(a, w) + TakenBefore(a, w, cache[a][w].round)
      BY <1>1, <3>1, ComputedIs DEF Computed, TakenBefore, Takings
    <3> QED
      BY <3>2
  <2> QED
    BY <1>1, <2>1 DEF CacheInv, Covered, Cache, CacheNeverAbove, Cached
<1>2. ASSUME accounts' \in Books PROVE CacheInv' <=> Covered(cache', accounts')
  <2>1. ASSUME cache' \in Cache
        PROVE  \A a \in Assets, w \in Wallets : cache'[a][w].round # -1 =>
                  (cache'[a][w].balance <= Computed(a, w)' + TakenBefore(a, w, cache[a][w].round)'
                     <=> cache'[a][w].balance <= Bound(accounts', a, w, cache'[a][w].round))
    <3> TAKE a \in Assets, w \in Wallets
    <3> HAVE cache'[a][w].round # -1
    <3>1. cache'[a][w].round \in Rounds
      BY <2>1, EntryFacts
    <3>2. Bound(accounts', a, w, cache'[a][w].round)
             = Computed(a, w)' + TakenBefore(a, w, cache[a][w].round)'
      BY <1>2, <3>1, ComputedIs DEF Computed, TakenBefore, Takings, calculateBalance, NetBefore
    <3> QED
      BY <3>2
  <2> QED
    BY <1>2, <2>1 DEF CacheInv, Covered, Cache, CacheNeverAbove, Cached
<1> QED
  BY <1>1, <1>2

\* The hub starts with an empty cache.  (MetaLedger.ts:87)
THEOREM CacheInit == ExchangeInit => CacheInv
<1> SUFFICES ASSUME ExchangeInit PROVE CacheInv
  OBVIOUS
<1>1. /\ accounts = [r \in Rounds |-> [a \in Assets |-> [w \in Wallets |-> NoAccount]]]
      /\ cache = [a \in Assets |-> [w \in Wallets |-> NotCached]]
  BY DEF ExchangeInit, LedgerInit
<1>2. NoAccount.sold = 0
  BY DEF NoAccount
<1>3. NotCached \in [round : Rounds \cup {-1}, balance : Int] /\ NotCached.round = -1
  BY DEF NotCached
<1> QED
  BY <1>1, <1>2, <1>3 DEF CacheInv, CacheNeverAbove, Cached

LEMMA RequestsCover ==
    ASSUME BooksInv, Covered(cache, accounts), NEW r \in Requests, addOrder(r)
    PROVE  Covered(cache', accounts')
<1> DEFINE o == OrderOf[r]
<1>1. Kept /\ Running /\ o \in Orders
  BY BooksIs DEF Orders
<1> HIDE DEF o
<1>2. CASE storeOrder(r)
  <2>1. \/ insertOrder(o, FeeOf(o))
        \/ insertOrderFails(o, FeeOf(o)) /\ UNCHANGED accounts
    BY <1>2 DEF storeOrder, o
  <2> QED
    BY <1>1, <2>1, InsertOrderCovers
<1>3. CASE storeOperatorApproval(r)
  <2> DEFINE own == OwnApproval(o)
  <2>1. insertApproval(own) \/ (cache' = Seen(cache, own) /\ UNCHANGED accounts)
    BY <1>3 DEF storeOperatorApproval, OwnApproval, o
  <2>2. own \in Approvals
    BY <1>1, ApprovalsHere
  <2> HIDE DEF own
  <2> QED
    BY <1>1, <2>1, <2>2, InsertApprovalCovers
<1>4. CASE addFill(r)
  <2> DEFINE fill == Head(todo[r])
             p == ApprovalWithId(fill.approval)
  <2>1. /\ todo[r] # <<>>
        /\ \/ insertFill(fillId[r], p, fill.buy, fill.sell, fill.round)
           \/ UNCHANGED <<accounts, cache>>
    BY <1>4 DEF addFill
  <2>2. fill \in Fill
    BY <1>1, <2>1 DEF Running
  <2> HIDE DEF fill
  <2>3. p \in Approvals /\ fill.buy \in Nat /\ fill.sell \in Nat
    BY <2>2, ApprovalOfId DEF Fill
  <2> HIDE DEF p
  <2>4. ASSUME insertFill(fillId[r], p, fill.buy, fill.sell, fill.round)
        PROVE  Covered(cache', accounts')
    BY <2>3, <2>4, InsertFillCovers
  <2> QED
    BY <2>1, <2>4
<1>5. CASE lock(r) \/ checkApproval(r) \/ readFillId(r) \/ createTradesForApproval(r)
  <2>1. UNCHANGED <<accounts, cache>>
    BY <1>5 DEF lock, checkApproval, readFillId, createTradesForApproval, ledgerVars, tables
  <2> QED
    BY <2>1
<1> QED
  BY <1>2, <1>3, <1>4, <1>5 DEF addOrder

LEMMA ModeratedCovers ==
    ASSUME Kept, Operating, Covered(cache, accounts),
           operatorPc \in {"moderate", "validate", "approve"}
    PROVE  Covered(SeenFor(Moderated), accounts)
<1> DEFINE w == withdrawals[request]
<1>1. request \in DOMAIN withdrawals /\ withdrawals \in Seq(Withdrawal)
  BY RequestIn DEF Kept, Operating
<1>2. w \in Withdrawal
  BY <1>1
<1> HIDE DEF w
<1>3. w.asset \in Assets /\ w.wallet \in Wallets /\ w.round \in Rounds
  BY <1>2 DEF Withdrawal
<1>4. Covered(Remember(cache, w.asset, w.wallet, w.round), accounts)
  BY <1>3, CoveredSeen
<1> QED
  BY <1>4 DEF SeenFor, Moderated, w

\* A balance is read through the cache.
LEMMA ReadsCover ==
    ASSUME BooksInv, Covered(cache, accounts),
           \/ \E q \in Queries : balances(q)
           \/ moderateWithdrawalRequest \/ validateWithdrawal \/ moderationThrows
    PROVE  Covered(cache', accounts')
<1>1. Kept /\ Operating
  BY BooksIs
<1>2. CASE \E q \in Queries : balances(q)
  <2>1. PICK q \in Queries : cache' = Remember(cache, q.asset, q.wallet, round) /\ UNCHANGED accounts
    BY <1>2 DEF balances, tables
  <2>2. q.asset \in Assets /\ q.wallet \in Wallets /\ round \in Rounds
    BY <1>1, ExchangeAssumption DEF Operating
  <2> QED
    BY <1>1, <2>1, <2>2, CoveredSeen
<1>3. CASE moderateWithdrawalRequest \/ validateWithdrawal \/ moderationThrows
  <2>1. /\ cache' = SeenFor(Moderated) /\ UNCHANGED accounts
        /\ operatorPc \in {"moderate", "validate"}
    BY <1>3 DEF moderateWithdrawalRequest, validateWithdrawal, moderationThrows, Validate, tables
  <2>2. Covered(SeenFor(Moderated), accounts)
    BY <1>1, <2>1, ModeratedCovers
  <2> QED
    BY <2>1, <2>2
<1> QED
  BY <1>2, <1>3

LEMMA OperatorCovers ==
    ASSUME BooksInv, Covered(cache, accounts),
           \/ \E d \in Deposits : onDeposit(d)
           \/ approve \/ cancelInvalid
    PROVE  Covered(cache', accounts')
<1>1. Kept /\ Operating
  BY BooksIs
<1>2. ASSUME NEW d \in Deposits, onDeposit(d) PROVE Covered(cache', accounts')
  <2> DEFINE a == d.asset
             w == d.wallet
             x == d.amount
  <2>1. /\ a \in Assets /\ w \in Wallets /\ x \in Nat /\ blockRound \in Rounds
        /\ creditDeposit(a, w, x, blockRound)
    BY <1>1, <1>2, ExchangeAssumption DEF Operating, onDeposit
  <2> HIDE DEF a, w, x
  <2> QED
    BY <2>1, CreditCovers
<1>3. CASE approve
  <2> DEFINE i == request
  <2>1. operatorPc = "approve" /\ approveWithdrawal(i)
    BY <1>3 DEF approve
  <2>2. i \in DOMAIN withdrawals
    BY <1>1, <2>1, RequestIn DEF Kept, Operating
  <2> HIDE DEF i
  <2> QED
    BY <1>1, <2>1, <2>2, ApproveWithdrawalCovers
<1>4. CASE cancelInvalid
  <2> DEFINE c == SeenFor(Moderated)
  <2>1. /\ operatorPc = "moderate"
        /\ cancelWithdrawalAsync(c, Moderated) \/ (cache' = c /\ UNCHANGED accounts)
    BY <1>4 DEF cancelInvalid
  <2>2. Covered(c, accounts)
    BY <1>1, <2>1, ModeratedCovers
  <2> HIDE DEF c
  <2> QED
    BY <1>1, <2>1, <2>2, CancelWithdrawalCovers
<1> QED
  BY <1>2, <1>3, <1>4

LEMMA OthersCover ==
    ASSUME Covered(cache, accounts),
           \/ \E w \in Wallets : admit(w) \/ storeWallet(w)
           \/ \E p \in Cancellable : findForCancel(p)
           \/ nextRound \/ onNewQuarter \/ readAccount
           \/ \E w \in Asked : onInitiateWithdrawal(w)
           \/ \E i \in DOMAIN withdrawals : confirmWithdrawal(i) \/ onConfirmWithdrawal(i)
           \/ UNCHANGED exchangeVars
    PROVE  Covered(cache', accounts')
<1>1. UNCHANGED <<accounts, cache>>
  BY DEF admit, storeWallet, findForCancel, nextRound, onNewQuarter, readAccount,
         onInitiateWithdrawal, confirmWithdrawal, onConfirmWithdrawal, exchangeVars,
         ledgerVars, tables
<1> QED
  BY <1>1

LEMMA RestartCovers ==
    ASSUME Covered(cache, accounts), Restart
    PROVE  Covered(cache', accounts')
<1>1. UNCHANGED accounts /\ cache' = [a \in Assets |-> [w \in Wallets |-> NotCached]]
  BY DEF Restart, tables
<1>2. NotCached \in [round : Rounds \cup {-1}, balance : Int] /\ NotCached.round = -1
  BY DEF NotCached
<1> QED
  BY <1>1, <1>2 DEF Covered, Cache

\* Every transaction of the ledger, one that fails too, and every balance that is
\* read through the cache, leaves it covered; a crash empties it.
\* (MetaLedger.ts:394, 404)
THEOREM CacheStep == BooksInv /\ CacheInv /\ [ExchangeNext]_exchangeVars => CacheInv'
<1> SUFFICES ASSUME BooksInv, CacheInv, [ExchangeNext]_exchangeVars PROVE CacheInv'
  OBVIOUS
<1>1. accounts \in Books /\ accounts' \in Books
  <2>1. BooksInv'
    BY BooksStep
  <2> QED
    BY <2>1, BooksIs DEF Kept, Sound
<1>2. Covered(cache, accounts)
  BY <1>1, CacheIs
<1>3. Covered(cache', accounts')
  <2>1. ASSUME NEW r \in Requests, addOrder(r) PROVE Covered(cache', accounts')
    BY <1>2, <2>1, RequestsCover
  <2>2. ASSUME NEW p \in Cancellable, cancelOrder(p) PROVE Covered(cache', accounts')
    <3>1. Kept /\ p \in Approvals
      BY BooksIs, ExchangeAssumption
    <3>2. cancelApproval(p) \/ UNCHANGED <<accounts, cache>>
      BY <2>2 DEF cancelOrder
    <3> QED
      BY <1>2, <3>1, <3>2, CancelApprovalCovers
  <2>3. CASE OperatorStep
    BY <1>2, <2>3, ReadsCover, OperatorCovers, OthersCover DEF OperatorStep
  <2> QED
    BY <1>2, <2>1, <2>2, <2>3, ReadsCover, OthersCover, RestartCovers DEF ExchangeNext
<1> QED
  BY <1>1, <1>3, CacheIs

\* The cache is covered by the tables at every await.
THEOREM CacheIsCovered == ExchangeSpec => []CacheInv
BY BooksAreKept, CacheInit, CacheStep, PTL DEF ExchangeSpec

\* The cached balance of a round never promises more than the tables hold, but for
\* what earlier rounds have taken: over failed transactions, cancellations, fills
\* and withdrawals.  (MetaLedger.ts:394, 404)
THEOREM CacheIsNeverAbove == ExchangeSpec => []CacheNeverAbove
<1>1. CacheInv => CacheNeverAbove
  BY DEF CacheInv
<1> QED
  BY <1>1, CacheIsCovered, PTL
=============================================================================
