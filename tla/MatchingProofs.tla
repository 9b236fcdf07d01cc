--------------------------- MODULE MatchingProofs ---------------------------
(***************************************************************************)
(* The matching engine, for every market, taker and book.  A division      *)
(* rounded at Scale never crosses a whole number, so that one swap keeps   *)
(* the limits of both orders and takes all that one of them has left; from *)
(* one swap to the next the taker only has less left, so that every swap   *)
(* of a cascade does, and their total too.  The makers are served in their *)
(* order, and none before a better one is used up.                         *)
(***************************************************************************)
EXTENDS MatchingProperties, Sums, SequenceTheorems

-----------------------------------------------------------------------------
(* Quotients. *)

\* What is left of a division is less than the divisor.
LEMMA DivisionFacts ==
    ASSUME NEW x \in Int, NEW y \in Nat \ {0}
    PROVE  x \div y \in Int /\ y * (x \div y) <= x /\ x < y * (x \div y) + y
OBVIOUS

LEMMA MultipleFacts ==
    ASSUME NEW k \in Int, NEW y \in Nat \ {0}
    PROVE  (y * k) \div y = k
OBVIOUS

LEMMA DivFacts ==
    ASSUME NEW x \in Nat, NEW y \in Nat \ {0}
    PROVE  /\ Div(x, y) \in Nat
           /\ 2 * (y * Div(x, y)) <= 2 * x + y
           /\ 2 * x < 2 * (y * Div(x, y)) + y
<1> DEFINE q == (2 * x + y) \div (2 * y)
<1>1. /\ q \in Int /\ (2 * y) * q <= 2 * x + y /\ 2 * x + y < (2 * y) * q + 2 * y
  BY DivisionFacts, 2 * x + y \in Int, 2 * y \in Nat \ {0}
<1>2. q \in Nat
  BY <1>1
<1> HIDE DEF q
<1>3. (2 * y) * q = 2 * (y * q) /\ y * q \in Int
  BY <1>2
<1> QED
  BY <1>1, <1>2, <1>3 DEF Div, q

LEMMA FloorFacts ==
    ASSUME NEW x \in Int
    PROVE  /\ x \div Scale \in Int /\ Floor(x) = Scale * (x \div Scale)
           /\ Floor(x) <= x /\ x < Floor(x) + Scale
BY ScaleAssumption, DivisionFacts DEF Floor

LEMMA CeilFacts ==
    ASSUME NEW x \in Int
    PROVE  /\ -((-x) \div Scale) \in Int /\ Ceil(x) = Scale * (-((-x) \div Scale))
           /\ x <= Ceil(x) /\ Ceil(x) < x + Scale
<1>1. /\ (-x) \div Scale \in Int /\ Floor(-x) = Scale * ((-x) \div Scale)
      /\ Floor(-x) <= -x /\ -x < Floor(-x) + Scale
  BY FloorFacts, -x \in Int
<1>2. Scale * (-((-x) \div Scale)) = -(Scale * ((-x) \div Scale))
  BY <1>1, ScaleAssumption
<1> QED
  BY <1>1, <1>2, ScaleAssumption DEF Ceil

\* What is a whole number of units is not rounded.
LEMMA WholeFacts ==
    ASSUME NEW k \in Int
    PROVE  Floor(Scale * k) = Scale * k /\ (Scale * k) \div Scale = k
BY ScaleAssumption, MultipleFacts DEF Floor

\* The price of n units of the other side at a rate of one to s, rounded to the
\* precision of the quotient and then up, is not too low, unless s is so large that
\* the quotient is rounded down to a whole number.
LEMMA RoundedUp ==
    ASSUME NEW n \in Nat, NEW s \in 1 .. 2 * Scale
    PROVE  \E k \in Nat : Ceil(Div(Scale * n, s)) = Scale * k /\ n <= k * s
<1> DEFINE q == Div(Scale * n, s)
           k == -((-q) \div Scale)
<1>1. Scale \in Nat \ {0} /\ s \in Nat \ {0} /\ s <= 2 * Scale /\ Scale * n \in Nat
  BY ScaleAssumption
<1>2. q \in Nat /\ 2 * (Scale * n) < 2 * (s * q) + s
  <2> HIDE DEF q
  <2> QED
    BY <1>1, DivFacts DEF q
<1> HIDE DEF q
<1>3. k \in Int /\ Ceil(q) = Scale * k /\ q <= Ceil(q)
  BY <1>2, CeilFacts
<1> HIDE DEF k
<1>4. k \in Nat
  BY <1>1, <1>2, <1>3
<1>5. n <= k * s
  <2> SUFFICES ASSUME k * s <= n - 1 PROVE FALSE
    BY <1>1, <1>4
  <2>1. s * q <= s * (Scale * k)
    BY <1>1, <1>2, <1>3, Monotone
  <2>2. s * (Scale * k) = Scale * (k * s)
    BY <1>1, <1>3
  <2>3. Scale * (k * s) <= Scale * (n - 1)
    BY <1>1, <1>3, Monotone, k * s \in Int, n - 1 \in Int
  <2>4. Scale * (n - 1) = Scale * n - Scale
    BY <1>1
  <2>5. s * q \in Int /\ s * (Scale * k) \in Int
    BY <1>1, <1>2, <1>3
  <2> QED
    BY <1>1, <1>2, <2>1, <2>2, <2>3, <2>4, <2>5
<1> QED
  BY <1>3, <1>4, <1>5 DEF q

\* Rounded down it is not too high.
LEMMA RoundedDown ==
    ASSUME NEW n \in Nat, NEW b \in 1 .. 2 * Scale - 1
    PROVE  \E k \in Nat : Floor(Div(Scale * n, b)) = Scale * k /\ k * b <= n
<1> DEFINE q == Div(Scale * n, b)
           k == q \div Scale
<1>1. Scale \in Nat \ {0} /\ b \in Nat \ {0} /\ b < 2 * Scale /\ Scale * n \in Nat
  BY ScaleAssumption
<1>2. q \in Nat /\ 2 * (b * q) <= 2 * (Scale * n) + b
  <2> HIDE DEF q
  <2> QED
    BY <1>1, DivFacts DEF q
<1> HIDE DEF q
<1>3. k \in Int /\ Floor(q) = Scale * k /\ Floor(q) <= q /\ q < Floor(q) + Scale
  BY <1>2, FloorFacts
<1>4. k \in Nat
  BY <1>1, <1>2
<1> HIDE DEF k
<1>5. k * b <= n
  <2> SUFFICES ASSUME n + 1 <= k * b PROVE FALSE
    BY <1>1, <1>4
  <2>1. b * (Scale * k) <= b * q
    BY <1>1, <1>2, <1>3, Monotone
  <2>2. b * (Scale * k) = Scale * (k * b)
    BY <1>1, <1>3
  <2>3. Scale * (n + 1) <= Scale * (k * b)
    BY <1>1, <1>3, Monotone, k * b \in Int, n + 1 \in Int
  <2>4. Scale * (n + 1) = Scale * n + Scale
    BY <1>1
  <2>5. b * q \in Int /\ b * (Scale * k) \in Int
    BY <1>1, <1>2, <1>3
  <2> QED
    BY <1>1, <1>2, <2>1, <2>2, <2>3, <2>4, <2>5
<1> QED
  BY <1>3, <1>4, <1>5 DEF q

(* One swap. *)

\* An order with amounts that a quotient can tell apart.
IsOrder(m) ==
    /\ m.intent \in BOOLEAN
    /\ {m.buyAmount, m.sellAmount} \subseteq 1 .. 2 * Scale - 1
    /\ m.remaining \in Nat

\* A swap that both can be shown: at most what either has left, at a price within
\* the limits of both.
KeepsLimits(swap, left, right) ==
    /\ swap = [fromLeft |-> swap.fromLeft, fromRight |-> swap.fromRight]
    /\ swap.fromLeft \in Nat /\ swap.fromRight \in Nat
    /\ (IF left.intent THEN swap.fromRight ELSE swap.fromLeft) <= left.remaining
    /\ (IF right.intent THEN swap.fromLeft ELSE swap.fromRight) <= right.remaining
    /\ swap.fromLeft * left.buyAmount <= left.sellAmount * swap.fromRight
    /\ swap.fromRight * right.buyAmount <= right.sellAmount * swap.fromLeft

\* The lesser of two amounts.
LEMMA LeastFacts ==
    ASSUME NEW x \in Nat, NEW y \in Nat
    PROVE  \E m \in Nat : /\ m <= x /\ m <= y /\ (m = x \/ m = y)
                          /\ (IF Scale * x <= Scale * y THEN Scale * x ELSE Scale * y) = Scale * m
<1>1. CASE Scale * x <= Scale * y
  <2>1. x <= y
    <3> SUFFICES ASSUME y + 1 <= x PROVE FALSE
      OBVIOUS
    <3>1. Scale * (y + 1) <= Scale * x
      BY ScaleAssumption, Monotone
    <3>2. Scale * (y + 1) = Scale * y + Scale
      BY ScaleAssumption
    <3> QED
      BY <1>1, <3>1, <3>2, ScaleAssumption
  <2> QED
    BY <1>1, <2>1
<1>2. CASE ~(Scale * x <= Scale * y)
  <2>1. y <= x
    <3> SUFFICES ASSUME x <= y PROVE FALSE
      OBVIOUS
    <3>1. Scale * x <= Scale * y
      BY ScaleAssumption, Monotone
    <3> QED
      BY <1>2, <3>1
  <2> QED
    BY <1>2, <2>1
<1> QED
  BY <1>1, <1>2

\* What is exchanged, whole numbers l and r of units, when the price limit of the
\* taker admits it.
Exchanged(left, l, r) ==
    IF left.sellAmount * (Scale * r) < (Scale * l) * left.buyAmount THEN NoSwap
    ELSE [fromLeft |-> l, fromRight |-> r]

LEMMA WholeSwap ==
    ASSUME NEW left, NEW right, IsOrder(left), IsOrder(right),
           NEW l \in Nat, NEW r \in Nat,
           (IF left.intent THEN r ELSE l) <= left.remaining,
           (IF right.intent THEN l ELSE r) <= right.remaining,
           r * right.buyAmount <= right.sellAmount * l
    PROVE  KeepsLimits(Exchanged(left, l, r), left, right)
<1> DEFINE s == left.sellAmount
           b == left.buyAmount
           sr == right.sellAmount
           br == right.buyAmount
<1>1. Scale \in Nat \ {0}
  BY ScaleAssumption
<1>2. s \in Nat /\ b \in Nat /\ sr \in Nat /\ br \in Nat
  <2>1. s \in 1 .. 2 * Scale - 1 /\ b \in 1 .. 2 * Scale - 1
        /\ sr \in 1 .. 2 * Scale - 1 /\ br \in 1 .. 2 * Scale - 1
    BY DEF IsOrder
  <2> HIDE DEF s, b, sr, br
  <2> QED
    BY <1>1, <2>1
<1>3. left.remaining \in Nat /\ right.remaining \in Nat
  BY DEF IsOrder
<1>4. CASE s * (Scale * r) < (Scale * l) * b
  <2>1. Exchanged(left, l, r) = NoSwap
    BY <1>4 DEF Exchanged
  <2>2. 0 * b <= s * 0 /\ 0 * br <= sr * 0
    <3> HIDE DEF s, b, sr, br
    <3> QED
      BY <1>2
  <2> QED
    BY <1>3, <2>1, <2>2 DEF KeepsLimits, NoSwap
<1>5. CASE ~(s * (Scale * r) < (Scale * l) * b)
  <2>1. Exchanged(left, l, r) = [fromLeft |-> l, fromRight |-> r]
    BY <1>5 DEF Exchanged
  <2>2. l * b <= s * r
    <3> HIDE DEF s, b
    <3>1. s * (Scale * r) = Scale * (s * r) /\ (Scale * l) * b = Scale * (l * b)
      BY <1>1, <1>2
    <3>2. s * r \in Nat /\ l * b \in Nat
      BY <1>2
    <3> SUFFICES ASSUME s * r + 1 <= l * b PROVE FALSE
      BY <3>2
    <3>3. Scale * (s * r + 1) <= Scale * (l * b)
      BY <1>1, <3>2, Monotone
    <3>4. Scale * (s * r + 1) = Scale * (s * r) + Scale
      BY <1>1, <3>2
    <3>5. Scale * (s * r) \in Nat /\ Scale * (l * b) \in Nat
      BY <1>1, <3>2
    <3> QED
      BY <1>1, <1>5, <3>1, <3>3, <3>4, <3>5
  <2> QED
    BY <2>1, <2>2 DEF KeepsLimits
<1> QED
  BY <1>4, <1>5

\* What matchLeftRight computes when the two name opposite sides.
LEMMA SwapIs ==
    ASSUME NEW left, NEW right, IsOrder(left), IsOrder(right), left.intent # right.intent
    PROVE  \E l, r \in Nat :
              /\ matchLeftRight(left, right) = Exchanged(left, l, r)
              /\ (IF left.intent THEN r ELSE l) <= left.remaining
              /\ (IF right.intent THEN l ELSE r) <= right.remaining
              /\ r * right.buyAmount <= right.sellAmount * l
              /\ \/ (IF left.intent THEN r ELSE l) = left.remaining
                 \/ (IF right.intent THEN l ELSE r) = right.remaining
<1> DEFINE br == right.buyAmount
           sr == right.sellAmount
<1>1. /\ Scale \in Nat \ {0}
      /\ br \in 1 .. 2 * Scale - 1 /\ sr \in 1 .. 2 * Scale - 1
      /\ left.remaining \in Nat /\ right.remaining \in Nat
  BY ScaleAssumption DEF IsOrder
<1>2. br \in Nat \ {0} /\ sr \in Nat \ {0} /\ sr \in 1 .. 2 * Scale
  <2> HIDE DEF br, sr
  <2> QED
    BY <1>1
<1>3. PICK m \in Nat :
         /\ m <= left.remaining /\ m <= right.remaining
         /\ m = left.remaining \/ m = right.remaining
         /\ (IF Scale * left.remaining <= Scale * right.remaining
             THEN Scale * left.remaining ELSE Scale * right.remaining) = Scale * m
  BY <1>1, LeastFacts
<1>4. CASE left.intent
  <2>1. ~right.intent
    BY <1>4 DEF IsOrder
  <2>2. m * br \in Nat /\ (Scale * m) * br = Scale * (m * br)
    <3> HIDE DEF br
    <3> QED
      BY <1>1, <1>2
  <2>3. PICK k \in Nat : Ceil(Div(Scale * (m * br), sr)) = Scale * k /\ m * br <= k * sr
    <3> HIDE DEF br, sr
    <3> QED
      BY <1>2, <2>2, RoundedUp
  <2>4. Ceil(MulByPrice(Scale * m, right)) = Scale * k
    BY <2>2, <2>3 DEF MulByPrice
  <2>5. /\ Floor(Scale * m) = Scale * m /\ (Scale * m) \div Scale = m
        /\ Floor(Scale * k) = Scale * k /\ (Scale * k) \div Scale = k
    BY WholeFacts
  <2>6. matchLeftRight(left, right) = Exchanged(left, k, m)
    BY <1>3, <1>4, <2>1, <2>4, <2>5, Zenon DEF matchLeftRight, Exchanged
  <2>7. m * br <= sr * k
    <3> HIDE DEF br, sr
    <3> QED
      BY <1>2, <2>3
  <2> QED
    BY <1>3, <1>4, <2>1, <2>6, <2>7
<1>5. CASE ~left.intent
  <2>1. right.intent
    BY <1>5 DEF IsOrder
  <2>2. m * sr \in Nat /\ (Scale * m) * sr = Scale * (m * sr)
    <3> HIDE DEF sr
    <3> QED
      BY <1>1, <1>2
  <2>3. PICK k \in Nat : Floor(Div(Scale * (m * sr), br)) = Scale * k /\ k * br <= m * sr
    <3> HIDE DEF br, sr
    <3> QED
      BY <1>1, <2>2, RoundedDown
  <2>4. Floor(DivByPrice(Scale * m, right)) = Scale * k
    BY <2>2, <2>3 DEF DivByPrice
  <2>5. /\ Floor(Scale * m) = Scale * m /\ (Scale * m) \div Scale = m
        /\ Floor(Scale * k) = Scale * k /\ (Scale * k) \div Scale = k
    BY WholeFacts
  <2>6. matchLeftRight(left, right) = Exchanged(left, m, k)
    BY <1>3, <1>5, <2>1, <2>4, <2>5, Zenon DEF matchLeftRight, Exchanged
  <2>7. k * br <= sr * m
    <3> HIDE DEF br, sr
    <3> QED
      BY <1>2, <2>3
  <2> QED
    BY <1>3, <1>5, <2>1, <2>6, <2>7
<1> QED
  BY <1>4, <1>5 DEF IsOrder

\* A swap of orders on opposite sides keeps the limits of both.  (Matching.ts:83)
THEOREM SwapsKeepLimits ==
    ASSUME NEW left, NEW right, IsOrder(left), IsOrder(right), left.intent # right.intent
    PROVE  KeepsLimits(matchLeftRight(left, right), left, right)
<1>1. PICK l \in Nat, r \in Nat :
         /\ matchLeftRight(left, right) = Exchanged(left, l, r)
         /\ (IF left.intent THEN r ELSE l) <= left.remaining
         /\ (IF right.intent THEN l ELSE r) <= right.remaining
         /\ r * right.buyAmount <= right.sellAmount * l
  BY SwapIs
<1> QED
  BY <1>1, WholeSwap

\* A swap takes all that one of them has left.
LEMMA SwapsExhaust ==
    ASSUME NEW left, NEW right, IsOrder(left), IsOrder(right), left.intent # right.intent,
           IsSwap(matchLeftRight(left, right))
    PROVE  LET swap == matchLeftRight(left, right)
           IN \/ (IF left.intent THEN swap.fromRight ELSE swap.fromLeft) = left.remaining
              \/ (IF right.intent THEN swap.fromLeft ELSE swap.fromRight) = right.remaining
<1>1. PICK l \in Nat, r \in Nat :
         /\ matchLeftRight(left, right) = Exchanged(left, l, r)
         /\ \/ (IF left.intent THEN r ELSE l) = left.remaining
            \/ (IF right.intent THEN l ELSE r) = right.remaining
  BY SwapIs
<1>2. Exchanged(left, l, r) # NoSwap
  BY <1>1 DEF IsSwap, NoSwap
<1>3. Exchanged(left, l, r) = [fromLeft |-> l, fromRight |-> r]
  BY <1>2 DEF Exchanged
<1> QED
  BY <1>1, <1>3

(* The swaps of one taker. *)

Meet(left, before, right) == matchLeftRight([left EXCEPT !.remaining = before], right)
Filled(left, swap) == IF left.intent THEN swap.fromRight ELSE swap.fromLeft

After(left, before, right) ==
    IF before <= 0 THEN before ELSE before - Filled(left, Meet(left, before, right))

\* g[n] is what is left of left after n makers.
IsCascade(g, left, rights) ==
    g = [n \in 0 .. Len(rights) |->
            IF n = 0 THEN Side(left) ELSE After(left, g[n - 1], rights[n])]

Cascade(left, rights) == CHOOSE g : IsCascade(g, left, rights)

LEMMA SwapsAreMet ==
    ASSUME NEW left, NEW rights
    PROVE  swapsOf(left, rights)
              = [n \in {k \in 1 .. Len(rights) : Cascade(left, rights)[k - 1] > 0} |->
                    Meet(left, Cascade(left, rights)[n - 1], rights[n])]
BY Zenon DEF swapsOf, Cascade, IsCascade, After, Meet, Filled

\* The recursive function exists.
LEMMA CascadeIs ==
    ASSUME NEW left, NEW rights, Len(rights) \in Nat
    PROVE  IsCascade(Cascade(left, rights), left, rights)
<1> SUFFICES \E g : IsCascade(g, left, rights)
  BY Zenon DEF Cascade
<1> DEFINE Value(g, n) == IF n = 0 THEN Side(left) ELSE After(left, g[n - 1], rights[n])
           Has == {n \in Nat : \E g : g = [k \in 0 .. n |-> Value(g, k)]}
<1>1. 0 \in Has
  <2> DEFINE g == [k \in 0 .. 0 |-> Side(left)]
  <2>1. \A k \in 0 .. 0 : k = 0
    OBVIOUS
  <2>2. g = [k \in 0 .. 0 |-> Value(g, k)]
    BY <2>1, Zenon
  <2> QED
    BY <2>2
<1>2. ASSUME NEW n \in Nat, n \in Has PROVE n + 1 \in Has
  <2>1. PICK g : g = [k \in 0 .. n |-> Value(g, k)]
    BY <1>2
  <2> DEFINE h == [k \in 0 .. n + 1 |-> IF k <= n THEN g[k] ELSE Value(g, n + 1)]
  <2>2. \A k \in 0 .. n + 1 : k = n + 1 \/ k \in 0 .. n
    BY <1>2
  <2>3. \A k \in 0 .. n + 1 : k # 0 => k - 1 \in 0 .. n /\ k - 1 \in 0 .. n + 1 /\ k - 1 <= n
    BY <1>2
  <2>4. \A k \in 0 .. n + 1 : k # 0 => h[k - 1] = g[k - 1]
    BY <2>3
  <2>5. \A k \in 0 .. n + 1 : Value(h, k) = Value(g, k)
    <3> HIDE DEF h
    <3> TAKE k \in 0 .. n + 1
    <3>1. CASE k = 0
      BY <3>1
    <3>2. CASE k # 0
      BY <2>4, <3>2
    <3> QED
      BY <3>1, <3>2
  <2>6. \A k \in 0 .. n : g[k] = Value(g, k)
    BY <2>1, Zenon
  <2>7. ASSUME NEW k \in 0 .. n + 1 PROVE h[k] = Value(h, k)
    <3>1. CASE k \in 0 .. n
      <4>1. k <= n
        BY <3>1
      <4> QED
        BY <2>5, <2>6, <3>1, <4>1
    <3>2. CASE k = n + 1
      <4>1. ~(k <= n)
        BY <1>2, <3>2
      <4> QED
        BY <2>5, <3>2, <4>1
    <3> QED
      BY <2>2, <3>1, <3>2
  <2>8. h = [k \in 0 .. n + 1 |-> Value(h, k)]
    <3> DEFINE v == [k \in 0 .. n + 1 |-> Value(h, k)]
    <3>1. DOMAIN h = 0 .. n + 1 /\ DOMAIN v = 0 .. n + 1
      OBVIOUS
    <3>2. \A k \in 0 .. n + 1 : v[k] = Value(h, k)
      OBVIOUS
    <3>3. h = [k \in 0 .. n + 1 |-> h[k]] /\ v = [k \in 0 .. n + 1 |-> v[k]]
      OBVIOUS
    <3> HIDE DEF h, v, Value
    <3>4. \A k \in 0 .. n + 1 : h[k] = v[k]
      BY <2>7, <3>2
    <3>5. h = v
      BY <3>3, <3>4
    <3> QED
      BY <3>5 DEF v
  <2>9. \E f : f = [k \in 0 .. n + 1 |-> Value(f, k)]
    <3> HIDE DEF h, Value
    <3> QED
      BY <2>8
  <2> QED
    BY <2>9
<1>3. Nat \subseteq Has
  <2> HIDE DEF Has
  <2> QED
    BY <1>1, <1>2, NatInductionOnSet
<1>4. Len(rights) \in Has
  BY <1>3
<1> QED
  BY <1>4, Zenon DEF IsCascade

\* A taker and the makers it meets, all of them on the other side.
CanMeet(left, rights) ==
    /\ {"intent", "buyAmount", "sellAmount", "remaining"} \subseteq DOMAIN left
    /\ IsOrder(left)
    /\ Len(rights) \in Nat
    /\ \A i \in 1 .. Len(rights) : IsOrder(rights[i]) /\ rights[i].intent # left.intent

LEMMA MeetFacts ==
    ASSUME NEW left, NEW rights, CanMeet(left, rights), NEW i \in 1 .. Len(rights),
           NEW before \in Nat
    PROVE  KeepsLimits(Meet(left, before, rights[i]), [left EXCEPT !.remaining = before],
                       rights[i])
<1> DEFINE now == [left EXCEPT !.remaining = before]
<1>1. /\ now.remaining = before /\ now.intent = left.intent
      /\ now.buyAmount = left.buyAmount /\ now.sellAmount = left.sellAmount
  BY DEF CanMeet
<1>2. IsOrder(now) /\ IsOrder(rights[i]) /\ now.intent # rights[i].intent
  BY <1>1 DEF CanMeet, IsOrder
<1> HIDE DEF now
<1>3. KeepsLimits(matchLeftRight(now, rights[i]), now, rights[i])
  BY <1>2, SwapsKeepLimits
<1> QED
  BY <1>3 DEF Meet, now

\* What one maker leaves.
LEMMA AfterFacts ==
    ASSUME NEW left, NEW rights, CanMeet(left, rights), NEW i \in 1 .. Len(rights),
           NEW before \in Nat
    PROVE  LET swap == Meet(left, before, rights[i])
           IN /\ swap = [fromLeft |-> swap.fromLeft, fromRight |-> swap.fromRight]
              /\ swap.fromLeft \in Nat /\ swap.fromRight \in Nat
              /\ Filled(left, swap) \in Nat /\ Filled(left, swap) <= before
              /\ swap.fromLeft * left.buyAmount <= left.sellAmount * swap.fromRight
              /\ After(left, before, rights[i]) \in Nat
              /\ before > 0 => After(left, before, rights[i]) = before - Filled(left, swap)
              /\ before = 0 => After(left, before, rights[i]) = 0
<1> DEFINE swap == Meet(left, before, rights[i])
           now == [left EXCEPT !.remaining = before]
<1>1. /\ now.remaining = before /\ now.intent = left.intent
      /\ now.buyAmount = left.buyAmount /\ now.sellAmount = left.sellAmount
  BY DEF CanMeet
<1>2. KeepsLimits(swap, now, rights[i])
  BY MeetFacts
<1> HIDE DEF swap, now
<1>3. /\ swap = [fromLeft |-> swap.fromLeft, fromRight |-> swap.fromRight]
      /\ swap.fromLeft \in Nat /\ swap.fromRight \in Nat
      /\ (IF left.intent THEN swap.fromRight ELSE swap.fromLeft) <= before
      /\ swap.fromLeft * left.buyAmount <= left.sellAmount * swap.fromRight
  BY <1>1, <1>2 DEF KeepsLimits
<1>4. Filled(left, swap) \in Nat /\ Filled(left, swap) <= before
  BY <1>3 DEF Filled
<1>5. After(left, before, rights[i]) = IF before <= 0 THEN before ELSE before - Filled(left, swap)
  BY DEF After, swap
<1>6. /\ After(left, before, rights[i]) \in Nat
      /\ before > 0 => After(left, before, rights[i]) = before - Filled(left, swap)
      /\ before = 0 => After(left, before, rights[i]) = 0
  BY <1>4, <1>5
<1> QED
  BY <1>3, <1>4, <1>6 DEF swap

\* What is left is never negative and does not grow.
LEMMA CascadeFacts ==
    ASSUME NEW left, NEW rights, CanMeet(left, rights)
    PROVE  LET rest == Cascade(left, rights)
           IN /\ rest[0] = Side(left) /\ rest[0] \in Nat
              /\ \A n \in 1 .. Len(rights) :
                    /\ rest[n - 1] \in Nat /\ rest[n] \in Nat
                    /\ rest[n] = After(left, rest[n - 1], rights[n])
<1> DEFINE rest == Cascade(left, rights)
           Good == {n \in Nat : n \in 0 .. Len(rights) => rest[n] \in Nat}
<1>1. Len(rights) \in Nat
  BY DEF CanMeet
<1>2. IsCascade(rest, left, rights)
  BY <1>1, CascadeIs
<1> HIDE DEF rest
<1>3. rest = [n \in 0 .. Len(rights) |->
                 IF n = 0 THEN Side(left) ELSE After(left, rest[n - 1], rights[n])]
  BY <1>2, Zenon DEF IsCascade
<1>4. \A n \in 0 .. Len(rights) :
         rest[n] = IF n = 0 THEN Side(left) ELSE After(left, rest[n - 1], rights[n])
  BY <1>3, Zenon
<1>5. 0 \in 0 .. Len(rights) /\ \A n \in 1 .. Len(rights) : n \in 0 .. Len(rights) /\ n # 0
  BY <1>1
<1>6. rest[0] = Side(left) /\ \A n \in 1 .. Len(rights) : rest[n] = After(left, rest[n - 1], rights[n])
  BY <1>4, <1>5, Zenon
<1>7. Side(left) \in Nat
  <2>1. left.buyAmount \in 1 .. 2 * Scale - 1 /\ left.sellAmount \in 1 .. 2 * Scale - 1
    BY DEF CanMeet, IsOrder
  <2> QED
    BY <2>1, ScaleAssumption DEF Side
<1>8. 0 \in Good
  BY <1>6, <1>7
<1>9. ASSUME NEW n \in Nat, n \in Good PROVE n + 1 \in Good
  <2> SUFFICES ASSUME n + 1 \in 0 .. Len(rights) PROVE rest[n + 1] \in Nat
    OBVIOUS
  <2>1. n + 1 \in 1 .. Len(rights) /\ n \in 0 .. Len(rights) /\ (n + 1) - 1 = n
    BY <1>1, <1>9
  <2>2. rest[n] \in Nat
    BY <1>9, <2>1
  <2>3. rest[n + 1] = After(left, rest[n], rights[n + 1])
    BY <1>6, <2>1
  <2>4. After(left, rest[n], rights[n + 1]) \in Nat
    BY <2>1, <2>2, AfterFacts
  <2> QED
    BY <2>3, <2>4
<1>10. Nat \subseteq Good
  <2> HIDE DEF Good
  <2> QED
    BY <1>8, <1>9, NatInductionOnSet
<1>11. \A n \in 0 .. Len(rights) : rest[n] \in Nat
  BY <1>1, <1>10
<1>12. \A n \in 1 .. Len(rights) : n \in 0 .. Len(rights) /\ n - 1 \in 0 .. Len(rights)
  BY <1>1
<1> QED
  BY <1>6, <1>7, <1>11, <1>12 DEF rest

\* The swaps are with the first makers, as many as it takes.
LEMMA SwapsAreFirst ==
    ASSUME NEW left, NEW rights, CanMeet(left, rights)
    PROVE  \E k \in 0 .. Len(rights) :
              /\ DOMAIN swapsOf(left, rights) = 1 .. k
              /\ \A n \in 1 .. k :
                    /\ Cascade(left, rights)[n - 1] > 0
                    /\ swapsOf(left, rights)[n] = Meet(left, Cascade(left, rights)[n - 1], rights[n])
<1> DEFINE rest == Cascade(left, rights)
           N == Len(rights)
           all == swapsOf(left, rights)
           met == {k \in 1 .. N : rest[k - 1] > 0}
           S == {n \in 0 .. N : rest[n] = 0}
<1>1. N \in Nat
  BY DEF CanMeet
<1>2. \A n \in 1 .. N : /\ rest[n - 1] \in Nat /\ rest[n] \in Nat
                        /\ rest[n] = After(left, rest[n - 1], rights[n])
  BY CascadeFacts
<1>3. rest[0] \in Nat
  BY CascadeFacts
<1>4. all = [n \in met |-> Meet(left, rest[n - 1], rights[n])]
  BY SwapsAreMet, Zenon
<1>5. \A n \in 0 .. N : rest[n] \in Nat
  <2> HIDE DEF rest, N
  <2>1. \A n \in 0 .. N : n = 0 \/ n \in 1 .. N
    BY <1>1
  <2> QED
    BY <1>2, <1>3, <2>1
<1>6. ASSUME NEW n \in 1 .. N, rest[n - 1] = 0 PROVE rest[n] = 0
  <2>1. After(left, 0, rights[n]) = 0
    BY AfterFacts, 0 \in Nat
  <2> QED
    BY <1>2, <1>6, <2>1
<1> HIDE DEF rest, N, all
<1>7. ASSUME NEW k \in 0 .. N, rest[k] = 0, NEW m \in k .. N PROVE rest[m] = 0
  <2> DEFINE Good == {d \in Nat : k + d \in 0 .. N => rest[k + d] = 0}
  <2>1. 0 \in Good
    BY <1>7
  <2>2. ASSUME NEW d \in Nat, d \in Good PROVE d + 1 \in Good
    <3> SUFFICES ASSUME k + (d + 1) \in 0 .. N PROVE rest[k + (d + 1)] = 0
      OBVIOUS
    <3>1. k + (d + 1) \in 1 .. N /\ (k + (d + 1)) - 1 = k + d /\ k + d \in 0 .. N
      BY <1>1
    <3>2. rest[k + d] = 0
      BY <2>2, <3>1
    <3> QED
      BY <1>6, <3>1, <3>2
  <2>3. Nat \subseteq Good
    <3> HIDE DEF Good
    <3> QED
      BY <2>1, <2>2, NatInductionOnSet
  <2>4. m - k \in Nat /\ k + (m - k) = m /\ m \in 0 .. N
    BY <1>1, <1>7
  <2> QED
    BY <2>3, <2>4
<1>8. \E k \in 0 .. N : met = 1 .. k
  <2>1. CASE S = {}
    <3>1. \A n \in 1 .. N : n - 1 \in 0 .. N
      BY <1>1
    <3>2. \A n \in 1 .. N : rest[n - 1] > 0
      BY <1>5, <2>1, <3>1
    <3> QED
      BY <1>1, <3>2
  <2>2. CASE S # {}
    <3> DEFINE k == Min(S)
    <3>1. S \in SUBSET Nat
      BY <1>1
    <3>2. k \in S /\ \A y \in S : k <= y
      <4> HIDE DEF S
      <4> QED
        BY <2>2, <3>1, LeastIsIn
    <3> HIDE DEF k
    <3>3. k \in 0 .. N /\ rest[k] = 0
      BY <3>2
    <3>4. ASSUME NEW n \in 1 .. N PROVE rest[n - 1] > 0 <=> n <= k
      <4>1. n - 1 \in 0 .. N /\ rest[n - 1] \in Nat
        BY <1>1, <1>5
      <4>2. CASE n <= k
        <5>1. n - 1 \notin S
          BY <3>2, <3>3, <4>2
        <5> QED
          BY <4>1, <4>2, <5>1
      <4>3. CASE ~(n <= k)
        <5>1. n - 1 \in k .. N
          BY <1>1, <3>3, <4>3
        <5>2. rest[n - 1] = 0
          BY <1>7, <3>3, <5>1
        <5> QED
          BY <4>3, <5>2
      <4> QED
        BY <4>2, <4>3
    <3>5. met = 1 .. k
      BY <1>1, <3>3, <3>4
    <3> QED
      BY <3>3, <3>5
  <2> QED
    BY <2>1, <2>2
<1>9. PICK k \in 0 .. N : met = 1 .. k
  BY <1>8
<1>10. DOMAIN all = 1 .. k /\ \A n \in 1 .. k : all[n] = Meet(left, rest[n - 1], rights[n])
  BY <1>4, <1>9, Zenon
<1>11. \A n \in 1 .. k : rest[n - 1] > 0
  BY <1>9
<1> QED
  BY <1>10, <1>11, Zenon DEF rest, N, all

\* What each swap of a taker is.
LEMMA EachSwap ==
    ASSUME NEW left, NEW rights, CanMeet(left, rights)
    PROVE  \E k \in 0 .. Len(rights) :
              /\ DOMAIN swapsOf(left, rights) = 1 .. k
              /\ \A n \in 1 .. k :
                    LET swap == swapsOf(left, rights)[n]
                        rest == Cascade(left, rights)
                    IN /\ KeepsLimits(swap, [left EXCEPT !.remaining = rest[n - 1]], rights[n])
                       /\ swap.fromLeft \in Nat /\ swap.fromRight \in Nat
                       /\ swap.fromLeft * left.buyAmount <= left.sellAmount * swap.fromRight
                       /\ Filled(left, swap) \in Nat
                       /\ rest[n - 1] \in Nat /\ rest[n] \in Nat
                       /\ rest[n] = rest[n - 1] - Filled(left, swap)
<1> DEFINE all == swapsOf(left, rights)
           rest == Cascade(left, rights)
<1>1. PICK k \in 0 .. Len(rights) :
         /\ DOMAIN all = 1 .. k
         /\ \A n \in 1 .. k : rest[n - 1] > 0 /\ all[n] = Meet(left, rest[n - 1], rights[n])
  BY SwapsAreFirst, Zenon
<1>2. \A n \in 1 .. Len(rights) : /\ rest[n - 1] \in Nat /\ rest[n] \in Nat
                                  /\ rest[n] = After(left, rest[n - 1], rights[n])
  BY CascadeFacts
<1> HIDE DEF rest, all
<1>3. ASSUME NEW n \in 1 .. k
      PROVE  /\ KeepsLimits(all[n], [left EXCEPT !.remaining = rest[n - 1]], rights[n])
             /\ all[n].fromLeft \in Nat /\ all[n].fromRight \in Nat
             /\ all[n].fromLeft * left.buyAmount <= left.sellAmount * all[n].fromRight
             /\ Filled(left, all[n]) \in Nat
             /\ rest[n - 1] \in Nat /\ rest[n] \in Nat
             /\ rest[n] = rest[n - 1] - Filled(left, all[n])
  <2>1. n \in 1 .. Len(rights)
    BY DEF CanMeet
  <2>2. all[n] = Meet(left, rest[n - 1], rights[n]) /\ rest[n - 1] > 0
    BY <1>1
  <2>3. rest[n - 1] \in Nat /\ rest[n] \in Nat /\ rest[n] = After(left, rest[n - 1], rights[n])
    BY <1>2, <2>1
  <2> DEFINE b == rest[n - 1]
  <2> HIDE DEF b
  <2>4. b \in Nat /\ b > 0
    BY <2>2, <2>3 DEF b
  <2>5. KeepsLimits(Meet(left, b, rights[n]), [left EXCEPT !.remaining = b], rights[n])
    BY <2>1, <2>4, MeetFacts
  <2>6. /\ Meet(left, b, rights[n]).fromLeft \in Nat /\ Meet(left, b, rights[n]).fromRight \in Nat
        /\ Filled(left, Meet(left, b, rights[n])) \in Nat
        /\ Meet(left, b, rights[n]).fromLeft * left.buyAmount
              <= left.sellAmount * Meet(left, b, rights[n]).fromRight
        /\ b > 0 => After(left, b, rights[n]) = b - Filled(left, Meet(left, b, rights[n]))
    BY <2>1, <2>4, AfterFacts
  <2> QED
    BY <2>2, <2>3, <2>4, <2>5, <2>6 DEF b
<1> QED
  BY <1>1, <1>3 DEF rest, all

(* Totals. *)

\* Fills within a limit price are so together.
LEMMA LimitsAddUp ==
    ASSUME NEW S, IsFiniteSet(S), NEW f, NEW g, NEW b \in Nat, NEW s \in Nat,
           \A x \in S : f[x] \in Nat /\ g[x] \in Nat /\ f[x] * b <= s * g[x]
    PROVE  SumFunctionOnSet(f, S) * b <= s * SumFunctionOnSet(g, S)
<1> DEFINE Good == {t \in SUBSET S : SumFunctionOnSet(f, t) * b <= s * SumFunctionOnSet(g, t)}
<1>1. {} \in Good
  <2>1. SumFunctionOnSet(f, {}) = 0 /\ SumFunctionOnSet(g, {}) = 0
    BY SumEmpty
  <2>2. 0 * b <= s * 0
    OBVIOUS
  <2> QED
    BY <2>1, <2>2
<1>2. ASSUME NEW t \in SUBSET S, t # {}, \A x \in t : t \ {x} \in Good PROVE t \in Good
  <2>1. PICK x \in t : TRUE
    BY <1>2
  <2> DEFINE F == SumFunctionOnSet(f, t \ {x})
             G == SumFunctionOnSet(g, t \ {x})
             u == f[x]
             v == g[x]
  <2>2. F * b <= s * G
    BY <1>2, <2>1
  <2>3. u \in Nat /\ v \in Nat /\ u * b <= s * v
    BY <2>1
  <2>4. /\ IsFiniteSet(t) /\ IsFiniteSet(t \ {x})
        /\ \A y \in t : f[y] \in Int /\ g[y] \in Int
        /\ \A y \in t \ {x} : f[y] \in Nat /\ g[y] \in Nat
    BY FS_Subset
  <2>5. F \in Nat /\ G \in Nat
    BY <2>4, SumNat
  <2>6. SumFunctionOnSet(f, t) = u + F
    BY <2>1, <2>4, SumTakeOut
  <2>7. SumFunctionOnSet(g, t) = v + G
    BY <2>1, <2>4, SumTakeOut
  <2> HIDE DEF F, G, u, v
  <2>8. (u + F) * b <= s * (v + G)
    <3>1. (u + F) * b = u * b + F * b /\ s * (v + G) = s * v + s * G
      BY <2>3, <2>5
    <3>2. u * b \in Int /\ F * b \in Int /\ s * v \in Int /\ s * G \in Int
      BY <2>3, <2>5
    <3> QED
      BY <2>2, <2>3, <3>1, <3>2
  <2> QED
    BY <2>6, <2>7, <2>8
<1>3. SUBSET S \subseteq Good
  <2> HIDE DEF Good
  <2> QED
    BY <1>1, <1>2, SubsetInduction
<1>4. S \in Good
  BY <1>3
<1> QED
  BY <1>4

\* What was taken and what is left.
LEMMA FilledAddUp ==
    ASSUME NEW k \in Nat, NEW rest, NEW f, rest[0] \in Nat,
           \A n \in 1 .. k : /\ f[n] \in Nat /\ rest[n - 1] \in Nat /\ rest[n] \in Nat
                             /\ rest[n] = rest[n - 1] - f[n]
    PROVE  SumFunctionOnSet(f, 1 .. k) <= rest[0]
<1> DEFINE Good == {n \in Nat : n <= k => /\ rest[n] \in Nat
                                          /\ SumFunctionOnSet(f, 1 .. n) + rest[n] = rest[0]}
<1>1. \A n \in Nat : IsFiniteSet(1 .. n)
  BY FS_Interval
<1>2. 0 \in Good
  <2>1. 1 .. 0 = {}
    OBVIOUS
  <2> QED
    BY <2>1, SumEmpty
<1>3. ASSUME NEW n \in Nat, n \in Good PROVE n + 1 \in Good
  <2> SUFFICES ASSUME n + 1 <= k
               PROVE  /\ rest[n + 1] \in Nat
                      /\ SumFunctionOnSet(f, 1 .. n + 1) + rest[n + 1] = rest[0]
    OBVIOUS
  <2>1. n + 1 \in 1 .. k /\ (n + 1) - 1 = n /\ n <= k
    OBVIOUS
  <2>2. f[n + 1] \in Nat /\ rest[n + 1] \in Nat /\ rest[n + 1] = rest[n] - f[n + 1]
    BY <2>1
  <2>3. rest[n] \in Nat /\ SumFunctionOnSet(f, 1 .. n) + rest[n] = rest[0]
    BY <1>3, <2>1
  <2>4. SumFunctionOnSet(f, 1 .. n + 1) = f[n + 1] + SumFunctionOnSet(f, 1 .. n)
    <3>1. (1 .. n + 1) \ {n + 1} = 1 .. n /\ n + 1 \in 1 .. n + 1
      OBVIOUS
    <3>2. \A i \in 1 .. n + 1 : f[i] \in Int
      OBVIOUS
    <3>3. IsFiniteSet(1 .. n + 1)
      BY <1>1, n + 1 \in Nat
    <3>4. SumFunctionOnSet(f, 1 .. n + 1)
             = f[n + 1] + SumFunctionOnSet(f, (1 .. n + 1) \ {n + 1})
      BY <3>1, <3>2, <3>3, SumTakeOut
    <3> QED
      BY <3>1, <3>4
  <2>5. SumFunctionOnSet(f, 1 .. n) \in Int
    BY <1>1, SumInt
  <2> QED
    BY <2>2, <2>3, <2>4, <2>5
<1>4. Nat \subseteq Good
  <2> HIDE DEF Good
  <2> QED
    BY <1>2, <1>3, NatInductionOnSet
<1>5. rest[k] \in Nat /\ SumFunctionOnSet(f, 1 .. k) + rest[k] = rest[0]
  BY <1>4
<1>6. SumFunctionOnSet(f, 1 .. k) \in Int
  BY <1>1, SumInt
<1> QED
  BY <1>5, <1>6

Given(S, swap) == [i \in S |-> swap[i].fromLeft]
Received(S, swap) == [i \in S |-> swap[i].fromRight]

\* Any of the swaps of a taker are together within its approval.
LEMMA TakerTotals ==
    ASSUME NEW left, NEW rights, CanMeet(left, rights),
           NEW T \in SUBSET DOMAIN swapsOf(left, rights)
    PROVE  LET all == swapsOf(left, rights)
           IN /\ SumFunctionOnSet(Given(T, all), T) <= left.sellAmount
              /\ left.intent => SumFunctionOnSet(Received(T, all), T) <= left.buyAmount
<1> DEFINE all == swapsOf(left, rights)
           rest == Cascade(left, rights)
           b == left.buyAmount
           s == left.sellAmount
<1>1. PICK k \in 0 .. Len(rights) :
         /\ DOMAIN all = 1 .. k
         /\ \A n \in 1 .. k : /\ all[n].fromLeft \in Nat /\ all[n].fromRight \in Nat
                              /\ all[n].fromLeft * b <= s * all[n].fromRight
                              /\ Filled(left, all[n]) \in Nat
                              /\ rest[n - 1] \in Nat /\ rest[n] \in Nat
                              /\ rest[n] = rest[n - 1] - Filled(left, all[n])
  BY EachSwap
<1>2. rest[0] = Side(left) /\ rest[0] \in Nat
  BY CascadeFacts
<1>3. b \in Nat \ {0} /\ s \in Nat \ {0} /\ left.intent \in BOOLEAN
  <2>1. b \in 1 .. 2 * Scale - 1 /\ s \in 1 .. 2 * Scale - 1 /\ left.intent \in BOOLEAN
    BY DEF CanMeet, IsOrder
  <2> HIDE DEF b, s
  <2> QED
    BY <2>1, ScaleAssumption
<1> HIDE DEF all, rest
<1>4. k \in Nat /\ IsFiniteSet(1 .. k) /\ T \in SUBSET (1 .. k) /\ IsFiniteSet(T)
  <2>1. k \in Nat
    BY <1>1 DEF CanMeet
  <2>2. T \in SUBSET (1 .. k)
    BY <1>1 DEF all
  <2>3. IsFiniteSet(1 .. k)
    BY <2>1, FS_Interval
  <2> QED
    BY <2>1, <2>2, <2>3, FS_Subset
<1> DEFINE f == [n \in 1 .. k |-> Filled(left, all[n])]
           L == Given(T, all)
           R == Received(T, all)
<1>5. SumFunctionOnSet(f, T) <= Side(left)
  <2>1. \A n \in 1 .. k : /\ f[n] \in Nat /\ rest[n - 1] \in Nat /\ rest[n] \in Nat
                          /\ rest[n] = rest[n - 1] - f[n]
    BY <1>1
  <2> HIDE DEF f
  <2>2. SumFunctionOnSet(f, 1 .. k) <= rest[0]
    BY <1>2, <1>4, <2>1, FilledAddUp
  <2>3. SumFunctionOnSet(f, T) <= SumFunctionOnSet(f, 1 .. k)
    BY <1>4, <2>1, SumSubset
  <2>4. SumFunctionOnSet(f, T) \in Nat /\ SumFunctionOnSet(f, 1 .. k) \in Nat
    BY <1>4, <2>1, SumNat
  <2> QED
    BY <1>2, <2>2, <2>3, <2>4
<1>6. \A n \in T : /\ L[n] = all[n].fromLeft /\ R[n] = all[n].fromRight
                   /\ f[n] = IF left.intent THEN R[n] ELSE L[n]
                   /\ L[n] \in Nat /\ R[n] \in Nat /\ L[n] * b <= s * R[n]
  BY <1>1, <1>4 DEF Given, Received, Filled
<1> HIDE DEF f, L, R, b, s
<1>7. CASE left.intent
  <2>1. \A n \in T : f[n] \in Int /\ f[n] = R[n]
    BY <1>6, <1>7
  <2>2. SumFunctionOnSet(f, T) = SumFunctionOnSet(R, T)
    BY <1>4, <2>1, SumEqual
  <2>3. Side(left) = b
    BY <1>7 DEF Side, b
  <2> DEFINE P == SumFunctionOnSet(L, T)
             Q == SumFunctionOnSet(R, T)
  <2>4. P * b <= s * Q
    BY <1>3, <1>4, <1>6, LimitsAddUp
  <2>5. P \in Nat /\ Q \in Nat
    BY <1>4, <1>6, SumNat
  <2>6. Q <= b
    BY <1>5, <2>2, <2>3
  <2> HIDE DEF P, Q
  <2>7. P <= s
    <3> SUFFICES ASSUME s + 1 <= P PROVE FALSE
      BY <1>3, <2>5
    <3>1. b * (s + 1) <= b * P
      BY <1>3, <2>5, Monotone
    <3>2. s * Q <= s * b
      BY <1>3, <2>5, <2>6, Monotone
    <3>3. b * (s + 1) = s * b + b /\ b * P = P * b
      BY <1>3, <2>5
    <3>4. s * b \in Int /\ s * Q \in Int /\ P * b \in Int
      BY <1>3, <2>5
    <3> QED
      BY <1>3, <2>4, <3>1, <3>2, <3>3, <3>4
  <2> QED
    BY <2>6, <2>7 DEF P, Q, L, R, b, s, all
<1>8. CASE ~left.intent
  <2>1. \A n \in T : f[n] \in Int /\ f[n] = L[n]
    BY <1>6, <1>8
  <2>2. SumFunctionOnSet(f, T) = SumFunctionOnSet(L, T)
    BY <1>4, <2>1, SumEqual
  <2>3. Side(left) = s
    BY <1>8 DEF Side, s
  <2> QED
    BY <1>5, <1>8, <2>2, <2>3 DEF L, s, all
<1> QED
  BY <1>3, <1>7, <1>8

(* The makers in order. *)

LEMMA InOrderIs ==
    ASSUME NEW S, NEW R
    PROVE  inOrder(S, R) = Ranking(S, R)
BY Zenon DEF inOrder, Ranking

LEMMA AscendingFacts ==
    ASSUME NEW S \in SUBSET Nat, IsFiniteSet(S)
    PROVE  /\ Cardinality(S) \in Nat /\ Ascending(S) \in [1 .. Cardinality(S) -> S]
           /\ \A n \in 1 .. Cardinality(S) :
                 Cardinality({y \in S : y < Ascending(S)[n]}) = n - 1
<1>1. Ascending(S) = Ranking(S, {x \in S \X S : x[1] < x[2]})
  BY InOrderIs DEF Ascending
<1> QED
  BY <1>1, NumbersRanked

\* Makers that can be put in order.
Sortable(S) ==
    /\ IsFiniteSet(S)
    /\ \A m \in S : {m.buyAmount, m.sellAmount} \subseteq Nat \ {0} /\ m.priority \in Nat
    /\ \A a, b \in S : a.priority = b.priority => a = b

LEMMA SortFacts ==
    ASSUME NEW S, Sortable(S)
    PROVE  /\ Cardinality(S) \in Nat /\ sort(S) \in [1 .. Cardinality(S) -> S]
           /\ \A n \in 1 .. Cardinality(S), x \in S :
                 better(x, sort(S)[n]) => \E k \in 1 .. n - 1 : sort(S)[k] = x
<1> DEFINE R == {x \in S \X S : better(x[1], x[2])}
           p == [m \in S |-> m.buyAmount]
           q == [m \in S |-> m.sellAmount]
           age == [m \in S |-> m.priority]
<1>1. /\ \A m \in S : p[m] \in Nat \ {0} /\ q[m] \in Nat \ {0} /\ age[m] \in Nat
      /\ \A a, b \in S : age[a] = age[b] => a = b
  BY DEF Sortable
<1>2. ASSUME NEW a \in S, NEW b \in S
      PROVE  better(a, b) <=> (p[a] * q[b] < p[b] * q[a]
                               \/ (p[a] * q[b] = p[b] * q[a] /\ age[a] < age[b]))
  <2> DEFINE u == p[a] * q[b]
             v == p[b] * q[a]
  <2>1. u \in Int /\ v \in Int
    <3> HIDE DEF p, q, age
    <3> QED
      BY <1>1
  <2>2. better(a, b) <=> (u - v < 0 \/ (u - v = 0 /\ age[a] < age[b]))
    BY DEF better, comparePrice
  <2> HIDE DEF u, v, age
  <2>3. (u - v < 0 <=> u < v) /\ (u - v = 0 <=> u = v)
    BY <2>1
  <2>4. better(a, b) <=> (u < v \/ (u = v /\ age[a] < age[b]))
    BY <2>2, <2>3
  <2> QED
    BY <2>4 DEF u, v
<1> HIDE DEF p, q, age
<1>3. R = ByQuotient(S, p, q, age)
  <2>1. ASSUME NEW x \in S \X S PROVE x \in R <=> x \in ByQuotient(S, p, q, age)
    <3>1. x[1] \in S /\ x[2] \in S
      OBVIOUS
    <3> QED
      BY <1>2, <3>1 DEF ByQuotient
  <2>2. R \subseteq S \X S /\ ByQuotient(S, p, q, age) \subseteq S \X S
    BY DEF ByQuotient
  <2> HIDE DEF R
  <2> QED
    BY <2>1, <2>2
<1>4. IsStrictOrder(ByQuotient(S, p, q, age), S)
  BY <1>1, QuotientOrder
<1>5. IsFiniteSet(S)
  BY DEF Sortable
<1>6. \A x, y \in S : <<x, y>> \in R <=> better(x, y)
  OBVIOUS
<1> HIDE DEF R
<1>7. /\ Cardinality(S) \in Nat /\ Ranking(S, R) \in [1 .. Cardinality(S) -> S]
      /\ \A n \in 1 .. Cardinality(S), x \in S :
            <<x, Ranking(S, R)[n]>> \in R => \E k \in 1 .. n - 1 : Ranking(S, R)[k] = x
  BY <1>3, <1>4, <1>5, RankedFacts
<1>8. sort(S) = Ranking(S, R)
  BY InOrderIs DEF sort, R
<1> QED
  BY <1>6, <1>7, <1>8

(* The invariant. *)

IsApproval(a) ==
    /\ {"id", "intent", "buyAsset", "buyAmount", "sellAsset", "sellAmount"} \subseteq DOMAIN a
    /\ a.intent \in BOOLEAN
    /\ {a.buyAmount, a.sellAmount} \subseteq 1 .. 2 * Scale - 1

LEMMA MatchFacts ==
    ASSUME NEW a, IsApproval(a), NEW n, NEW r \in Nat, NEW p
    PROVE  LET b == [a EXCEPT !.id = n]
               m == mkMatch(b, r, p)
           IN /\ IsApproval(b) /\ IsOrder(m) /\ Side(a) \in Nat /\ Side(m) = Side(a)
              /\ {"intent", "buyAmount", "sellAmount", "remaining"} \subseteq DOMAIN m
              /\ m.id = n /\ m.remaining = r /\ m.priority = p /\ m.intent = a.intent
              /\ m.buyAsset = a.buyAsset /\ m.buyAmount = a.buyAmount
              /\ m.sellAsset = a.sellAsset /\ m.sellAmount = a.sellAmount
<1> DEFINE b == [a EXCEPT !.id = n]
           m == mkMatch(b, r, p)
           D0 == DOMAIN b \cup {"remaining", "priority"}
<1>1. /\ DOMAIN b = DOMAIN a /\ b.id = n /\ b.intent = a.intent
      /\ b.buyAsset = a.buyAsset /\ b.buyAmount = a.buyAmount
      /\ b.sellAsset = a.sellAsset /\ b.sellAmount = a.sellAmount
  BY DEF IsApproval
<1>2. IsApproval(b)
  BY <1>1 DEF IsApproval
<1> HIDE DEF b
<1>3. m = [field \in D0 |-> CASE field = "remaining" -> r
                              [] field = "priority" -> p
                              [] OTHER -> b[field]]
  BY DEF mkMatch
<1>4. {"id", "intent", "buyAsset", "buyAmount", "sellAsset", "sellAmount"} \subseteq D0
      /\ {"remaining", "priority"} \subseteq D0
  BY <1>2 DEF IsApproval
<1> HIDE DEF m, D0
<1>5. DOMAIN m = D0 /\ m.remaining = r /\ m.priority = p
  BY <1>3, <1>4
<1>6. /\ m.id = b.id /\ m.intent = b.intent
      /\ m.buyAsset = b.buyAsset /\ m.buyAmount = b.buyAmount
      /\ m.sellAsset = b.sellAsset /\ m.sellAmount = b.sellAmount
  BY <1>3, <1>4
<1>7. IsOrder(m)
  BY <1>1, <1>5, <1>6 DEF IsOrder, IsApproval
<1>8. Side(a) \in Nat /\ Side(m) = Side(a)
  <2>1. a.buyAmount \in 1 .. 2 * Scale - 1 /\ a.sellAmount \in 1 .. 2 * Scale - 1
    BY DEF IsApproval
  <2> QED
    BY <1>1, <1>6, <2>1, ScaleAssumption DEF Side
<1> QED
  BY <1>1, <1>2, <1>4, <1>5, <1>6, <1>7, <1>8 DEF m, b

\* The same without a change of the id.
LEMMA PlainMatchFacts ==
    ASSUME NEW a, IsApproval(a), NEW r \in Nat, NEW p
    PROVE  LET m == mkMatch(a, r, p)
           IN /\ IsOrder(m) /\ m.remaining = r /\ m.intent = a.intent
<1> DEFINE m == mkMatch(a, r, p)
           D0 == DOMAIN a \cup {"remaining", "priority"}
<1>1. m = [field \in D0 |-> CASE field = "remaining" -> r
                              [] field = "priority" -> p
                              [] OTHER -> a[field]]
  BY DEF mkMatch
<1>2. {"intent", "buyAmount", "sellAmount", "remaining", "priority"} \subseteq D0
  BY DEF IsApproval
<1> HIDE DEF m, D0
<1>3. /\ m.remaining = r /\ m.intent = a.intent
      /\ m.buyAmount = a.buyAmount /\ m.sellAmount = a.sellAmount
  BY <1>1, <1>2
<1>4. IsOrder(m)
  BY <1>3 DEF IsOrder, IsApproval
<1> QED
  BY <1>3, <1>4 DEF m

\* A taker leaves a maker no less than nothing.
LEMMA RemaindersFacts ==
    ASSUME NEW a \in Makers
    PROVE  Remainders(a) \in SUBSET (0 .. Side(a))
<1> DEFINE maker == mkMatch(a, Side(a), 1)
           Left(t) == LET swap == matchLeftRight(mkMatch(t, Side(t), 2), maker)
                      IN Side(a) - (IF a.intent THEN swap.fromLeft ELSE swap.fromRight)
<1>1. IsApproval(a)
  BY ApprovalAssumption DEF IsApproval
<1>2. Side(a) \in Nat
  BY <1>1, MatchFacts, 0 \in Nat
<1>3. IsOrder(maker) /\ maker.remaining = Side(a) /\ maker.intent = a.intent
  BY <1>1, <1>2, PlainMatchFacts
<1> HIDE DEF maker
<1>4. ASSUME NEW t \in Takers, isMatchable(t, a)
      PROVE  Left(t) \in 0 .. Side(a)
  <2> DEFINE taking == mkMatch(t, Side(t), 2)
             swap == matchLeftRight(taking, maker)
  <2>1. IsApproval(t)
    BY ApprovalAssumption DEF IsApproval
  <2>2. Side(t) \in Nat
    BY <2>1, MatchFacts, 0 \in Nat
  <2>3. IsOrder(taking) /\ taking.intent = t.intent
    BY <2>1, <2>2, PlainMatchFacts
  <2> HIDE DEF taking
  <2>4. t.intent # a.intent
    BY <1>4, MarketAssumption DEF isMatchable
  <2>5. KeepsLimits(swap, taking, maker)
    BY <1>3, <2>3, <2>4, SwapsKeepLimits
  <2> HIDE DEF swap
  <2>6. /\ swap.fromLeft \in Nat /\ swap.fromRight \in Nat
        /\ (IF a.intent THEN swap.fromLeft ELSE swap.fromRight) <= Side(a)
    BY <1>3, <2>5 DEF KeepsLimits
  <2>7. Side(a) - (IF a.intent THEN swap.fromLeft ELSE swap.fromRight) \in 0 .. Side(a)
    BY <1>2, <2>6
  <2> QED
    BY <2>7 DEF swap, taking
<1>5. ASSUME NEW x \in Remainders(a) PROVE x \in 0 .. Side(a)
  <2>1. x = Side(a) \/ \E t \in Takers : isMatchable(t, a) /\ x = Left(t)
    BY <1>5, Zenon DEF Remainders, maker
  <2>2. Side(a) \in 0 .. Side(a)
    BY <1>2
  <2> HIDE DEF Left
  <2> QED
    BY <1>4, <2>1, <2>2
<1> QED
  BY <1>5

\* At the start there is a taker that nobody has met, and no maker.  (Matching.ts:167)
THEOREM BookInit == MatchingInit => BookInv
BY DEF MatchingInit, BookInv

\* A maker joins behind the others with at most what it offers left, whatever takers
\* before have taken of it.  (Matching.ts:177)
THEOREM BookStep == BookInv /\ [Place]_matchingVars => BookInv'
<1> SUFFICES ASSUME BookInv, [Place]_matchingVars PROVE BookInv'
  OBVIOUS
<1>1. CASE Place
  <2>1. PICK a \in Makers : \E remaining \in Remainders(a) :
           book' = Append(book, mkMatch([a EXCEPT !.id = Len(book) + 1], remaining, Len(book) + 1))
    BY <1>1 DEF Place
  <2>2. PICK remaining \in Remainders(a) :
           book' = Append(book, mkMatch([a EXCEPT !.id = Len(book) + 1], remaining, Len(book) + 1))
    BY <2>1
  <2> DEFINE n == Len(book) + 1
             m == mkMatch([a EXCEPT !.id = n], remaining, n)
  <2>3. book \in Seq(Offers) /\ Len(book) \in Nat /\ Len(book) < MaxMakers
    BY <1>1 DEF BookInv, Place
  <2>4. n \in 1 .. MaxMakers /\ n \in Nat
    BY <2>3, MaxMakersAssumption
  <2>5. remaining \in 0 .. Side(a)
    BY RemaindersFacts
  <2>6. m \in Offers
    <3>1. m \in RowsOf(a, n)
      BY <2>5 DEF RowsOf
    <3> HIDE DEF m, n
    <3> QED
      BY <2>4, <3>1 DEF Offers
  <2>7. IsApproval(a)
    BY ApprovalAssumption DEF IsApproval
  <2>8. m.priority = n
    <3>1. Side(a) \in Nat
      BY <2>7, MatchFacts, 0 \in Nat
    <3>2. remaining \in Nat
      BY <2>5, <3>1
    <3>3. LET b == [a EXCEPT !.id = n]
          IN mkMatch(b, remaining, n).priority = n
      <4> HIDE DEF n
      <4> QED
        BY <2>7, <3>2, MatchFacts
    <3> QED
      BY <3>3
  <2>9. book' = Append(book, m) /\ taker' = taker
    BY <1>1, <2>2 DEF Place
  <2> HIDE DEF m
  <2>10. book' \in Seq(Offers)
    BY <2>3, <2>6, <2>9
  <2>11. ASSUME NEW i \in DOMAIN book' PROVE book'[i].priority = i
    <3>1. i \in 1 .. Len(book) \/ i = n
      BY <2>3, <2>6, <2>9
    <3>2. CASE i \in 1 .. Len(book)
      <4>1. book'[i] = book[i] /\ i \in DOMAIN book
        BY <2>3, <2>6, <2>9, <3>2
      <4> QED
        BY <4>1 DEF BookInv
    <3>3. CASE i = n
      <4>1. book'[i] = m
        BY <2>3, <2>6, <2>9, <3>3
      <4> QED
        BY <2>8, <3>3, <4>1
    <3> QED
      BY <3>1, <3>2, <3>3
  <2> QED
    BY <2>9, <2>10, <2>11 DEF BookInv
<1>2. CASE UNCHANGED matchingVars
  BY <1>2 DEF BookInv, matchingVars
<1> QED
  BY <1>1, <1>2

\* What the engine is given.
LEMMA TakerIs ==
    ASSUME BookInv
    PROVE  \E a \in Takers :
              /\ taker.id = 0 /\ taker.intent = a.intent
              /\ taker.buyAsset = a.buyAsset /\ taker.sellAsset = a.sellAsset
              /\ IsOrder(taker)
              /\ {"intent", "buyAmount", "sellAmount", "remaining"} \subseteq DOMAIN taker
<1>1. PICK a \in Takers : taker = mkMatch([a EXCEPT !.id = 0], Side(a), MaxMakers + 1)
  BY DEF BookInv
<1>2. IsApproval(a)
  BY ApprovalAssumption DEF IsApproval
<1>3. Side(a) \in Nat
  BY <1>2, MatchFacts, 0 \in Nat
<1> DEFINE m == mkMatch([a EXCEPT !.id = 0], Side(a), MaxMakers + 1)
<1>4. /\ m.id = 0 /\ m.intent = a.intent
      /\ m.buyAsset = a.buyAsset /\ m.sellAsset = a.sellAsset
      /\ IsOrder(m)
  BY <1>2, <1>3, MatchFacts
<1>5. {"intent", "buyAmount", "sellAmount", "remaining"} \subseteq DOMAIN m
  BY <1>2, <1>3, MatchFacts
<1> HIDE DEF m
<1>6. taker = m
  BY <1>1 DEF m
<1> QED
  BY <1>4, <1>5, <1>6

LEMMA MakerIs ==
    ASSUME BookInv, NEW i \in DOMAIN book
    PROVE  /\ \E a \in Makers :
                 /\ book[i].intent = a.intent
                 /\ book[i].buyAsset = a.buyAsset /\ book[i].sellAsset = a.sellAsset
           /\ IsOrder(book[i]) /\ book[i].remaining <= Side(book[i])
           /\ book[i].priority = i /\ i \in Nat
<1>1. book \in Seq(Offers) /\ book[i].priority = i
  BY DEF BookInv
<1>2. book[i] \in Offers /\ i \in Nat
  BY <1>1
<1>3. PICK a \in Makers, n \in 1 .. MaxMakers : book[i] \in RowsOf(a, n)
  BY <1>2 DEF Offers
<1>4. PICK r \in 0 .. Side(a) : book[i] = mkMatch([a EXCEPT !.id = n], r, n)
  BY <1>3 DEF RowsOf
<1>5. IsApproval(a)
  BY ApprovalAssumption DEF IsApproval
<1>6. Side(a) \in Nat
  BY <1>5, MatchFacts, 0 \in Nat
<1>7. r \in Nat /\ r <= Side(a)
  BY <1>4, <1>6
<1> DEFINE m == mkMatch([a EXCEPT !.id = n], r, n)
<1>8. /\ IsOrder(m) /\ Side(m) = Side(a) /\ m.remaining = r /\ m.intent = a.intent
      /\ m.buyAsset = a.buyAsset /\ m.sellAsset = a.sellAsset
  BY <1>5, <1>7, MatchFacts
<1> HIDE DEF m
<1>9. book[i] = m
  BY <1>4 DEF m
<1> QED
  BY <1>1, <1>2, <1>7, <1>8, <1>9

\* The makers that may be met are finitely many, have rows of their own and are on
\* the other side.
LEMMA FilteredIs ==
    ASSUME BookInv
    PROVE  /\ Sortable(filter(taker, makers))
           /\ \A m \in filter(taker, makers) :
                 IsOrder(m) /\ m.remaining <= Side(m) /\ m.intent # taker.intent
<1> DEFINE S == filter(taker, makers)
<1>1. book \in Seq(Offers)
  BY DEF BookInv
<1>2. makers = {book[i] : i \in DOMAIN book}
  BY DEF makers, ToSet
<1>3. \A m \in S : m \in makers /\ isMatchable(taker, m)
  BY DEF filter
<1>4. \A m \in S : \E i \in DOMAIN book : m = book[i]
  BY <1>2, <1>3
<1>5. IsFiniteSet(makers)
  <2> DEFINE f == [i \in DOMAIN book |-> book[i]]
  <2>1. DOMAIN book = 1 .. Len(book) /\ Len(book) \in Nat
    BY <1>1
  <2>2. IsFiniteSet(DOMAIN book)
    <3> DEFINE n == Len(book)
    <3> HIDE DEF n
    <3>1. n \in Nat
      BY <2>1 DEF n
    <3>2. IsFiniteSet(1 .. n)
      BY <3>1, FS_Interval
    <3> QED
      BY <2>1, <3>2 DEF n
  <2>3. f \in Surjection(DOMAIN book, makers)
    BY <1>2 DEF Surjection
  <2> HIDE DEF f
  <2> QED
    BY <2>2, <2>3, FS_Surjection
<1>6. IsFiniteSet(S)
  <2>1. S \in SUBSET makers
    BY <1>3
  <2> HIDE DEF S
  <2> QED
    BY <1>5, <2>1, FS_Subset
<1> HIDE DEF S
<1>7. \A m \in S : IsOrder(m) /\ m.remaining <= Side(m) /\ m.priority \in Nat
  BY <1>4, MakerIs
<1>8. \A a, b \in S : a.priority = b.priority => a = b
  <2> SUFFICES ASSUME NEW a \in S, NEW b \in S, a.priority = b.priority PROVE a = b
    OBVIOUS
  <2>1. PICK i \in DOMAIN book : a = book[i]
    BY <1>4
  <2>2. PICK j \in DOMAIN book : b = book[j]
    BY <1>4
  <2>3. book[i].priority = i /\ book[j].priority = j
    BY MakerIs
  <2> QED
    BY <2>1, <2>2, <2>3
<1>9. \A m \in S : {m.buyAmount, m.sellAmount} \subseteq Nat \ {0}
  <2> TAKE m \in S
  <2>1. m.buyAmount \in 1 .. 2 * Scale - 1 /\ m.sellAmount \in 1 .. 2 * Scale - 1
    BY <1>7 DEF IsOrder
  <2> DEFINE u == m.buyAmount
             v == m.sellAmount
  <2>2. u \in 1 .. 2 * Scale - 1 /\ v \in 1 .. 2 * Scale - 1
    BY <2>1
  <2> HIDE DEF u, v
  <2>3. u \in Nat \ {0} /\ v \in Nat \ {0}
    BY <2>2, ScaleAssumption
  <2> QED
    BY <2>3 DEF u, v
<1>10. \A m \in S : m.intent # taker.intent
  <2> TAKE m \in S
  <2>1. PICK t \in Takers : /\ taker.intent = t.intent
                            /\ taker.buyAsset = t.buyAsset /\ taker.sellAsset = t.sellAsset
    BY TakerIs
  <2>2. PICK i \in DOMAIN book : m = book[i]
    BY <1>4
  <2>3. PICK a \in Makers : /\ m.intent = a.intent
                            /\ m.buyAsset = a.buyAsset /\ m.sellAsset = a.sellAsset
    BY <2>2, MakerIs
  <2>4. taker.buyAsset = m.sellAsset /\ taker.sellAsset = m.buyAsset
    BY <1>3 DEF isMatchable
  <2>5. t.buyAsset = a.sellAsset /\ t.sellAsset = a.buyAsset
    BY <2>1, <2>3, <2>4
  <2>6. t.intent # a.intent
    BY <2>5, MarketAssumption
  <2> QED
    BY <2>1, <2>3, <2>6
<1> QED
  BY <1>6, <1>7, <1>8, <1>9, <1>10 DEF S, Sortable

LEMMA SortedIs ==
    ASSUME BookInv
    PROVE  /\ CanMeet(taker, sorted)
           /\ \A i \in 1 .. Len(sorted) :
                 /\ sorted[i] \in filter(taker, makers)
                 /\ \A m \in filter(taker, makers) :
                       better(m, sorted[i]) => \E j \in 1 .. i - 1 : sorted[j] = m
<1> DEFINE S == filter(taker, makers)
           n == Cardinality(S)
           s == sort(S)
<1>1. /\ Sortable(S)
      /\ \A m \in S : IsOrder(m) /\ m.remaining <= Side(m) /\ m.intent # taker.intent
  BY FilteredIs
<1>2. /\ n \in Nat /\ s \in [1 .. n -> S]
      /\ \A i \in 1 .. n, m \in S : better(m, s[i]) => \E j \in 1 .. i - 1 : s[j] = m
  <2> HIDE DEF S
  <2> QED
    BY <1>1, SortFacts
<1>3. sorted = s
  BY DEF sorted
<1> HIDE DEF s, n, S
<1>4. s \in Seq(S) /\ Len(s) = n
  BY <1>2
<1>5. \A i \in 1 .. Len(s) : s[i] \in S
  BY <1>2, <1>4
<1>6. /\ IsOrder(taker)
      /\ {"intent", "buyAmount", "sellAmount", "remaining"} \subseteq DOMAIN taker
  BY TakerIs
<1>7. CanMeet(taker, s)
  BY <1>1, <1>2, <1>4, <1>5, <1>6 DEF CanMeet
<1>8. \A i \in 1 .. Len(s), m \in S : better(m, s[i]) => \E j \in 1 .. i - 1 : s[j] = m
  BY <1>2, <1>4
<1> QED
  BY <1>3, <1>5, <1>7, <1>8 DEF S

\* What the swaps of the taker are, at the places of their makers.
LEMMA SwapsAre ==
    ASSUME BookInv
    PROVE  /\ Len(sorted) \in Nat
           /\ \E k \in 0 .. Len(sorted) :
                 /\ DOMAIN swaps = 1 .. k
                 /\ \A i \in 1 .. k :
                       /\ swaps[i].fromLeft \in Nat /\ swaps[i].fromRight \in Nat
                       /\ swaps[i].fromLeft * taker.buyAmount
                             <= taker.sellAmount * swaps[i].fromRight
                       /\ swaps[i].fromRight * sorted[i].buyAmount
                             <= sorted[i].sellAmount * swaps[i].fromLeft
                       /\ (IF sorted[i].intent THEN swaps[i].fromLeft ELSE swaps[i].fromRight)
                             <= sorted[i].remaining
<1>1. CanMeet(taker, sorted)
  BY SortedIs
<1>2. Len(sorted) \in Nat
  BY <1>1 DEF CanMeet
<1> DEFINE rest == Cascade(taker, sorted)
<1>3. PICK k \in 0 .. Len(sorted) :
         /\ DOMAIN swaps = 1 .. k
         /\ \A n \in 1 .. k :
               /\ KeepsLimits(swaps[n], [taker EXCEPT !.remaining = rest[n - 1]], sorted[n])
               /\ swaps[n].fromLeft \in Nat /\ swaps[n].fromRight \in Nat
               /\ swaps[n].fromLeft * taker.buyAmount <= taker.sellAmount * swaps[n].fromRight
  BY <1>1, EachSwap DEF swaps
<1>4. ASSUME NEW i \in 1 .. k
      PROVE  /\ swaps[i].fromRight * sorted[i].buyAmount <= sorted[i].sellAmount * swaps[i].fromLeft
             /\ (IF sorted[i].intent THEN swaps[i].fromLeft ELSE swaps[i].fromRight)
                   <= sorted[i].remaining
  BY <1>3 DEF KeepsLimits
<1> QED
  BY <1>2, <1>3, <1>4

\* The trade that the n-th swap that is kept becomes: with the n-th of the sorted
\* makers.
Zipped(kept, n) == createTrade(taker, sorted[n], swaps[kept[n]])

\* The engine does not give up; its trades are the swaps that exchange something, the
\* n-th of them with n - 1 before it.
LEMMA TradesAre ==
    ASSUME BookInv
    PROVE  LET c == Cardinality(real)
               kept == Ascending(real)
           IN /\ c \in Nat /\ kept \in [1 .. c -> real]
              /\ \A n \in 1 .. c : Cardinality({y \in real : y < kept[n]}) = n - 1
              /\ ~Throws(taker, makers)
              /\ trades = [n \in 1 .. c |-> Zipped(kept, n)]
<1>1. PICK k \in 0 .. Len(sorted) :
         /\ DOMAIN swaps = 1 .. k
         /\ \A i \in 1 .. k : swaps[i].fromLeft \in Nat /\ swaps[i].fromRight \in Nat
  BY SwapsAre
<1>2. k \in Nat /\ k <= Len(sorted)
  BY SwapsAre
<1>3. \A i \in 1 .. k : swaps[i] # Fractional
  BY <1>1 DEF Fractional
<1> DEFINE kept == Ascending(real)
           c == Cardinality(real)
<1>4. Len(swaps) = k
  <2> DEFINE f == [i \in 1 .. k |-> swaps[i]]
  <2>1. swaps = f
    <3>1. swaps = [n \in DOMAIN swaps |-> swaps[n]]
      BY SwapsAreMet DEF swaps
    <3> QED
      BY <1>1, <3>1
  <2>2. Len(f) = k
    BY <1>2
  <2> HIDE DEF f
  <2> QED
    BY <2>1, <2>2
<1>5. ~Contains(swaps, Fractional)
  BY <1>3, <1>4 DEF Contains
<1>6. matchLeft(taker, sorted) = [n \in DOMAIN kept |-> swaps[kept[n]]]
  <2>1. ~Contains(swapsOf(taker, sorted), Fractional)
    BY <1>5 DEF swaps
  <2> QED
    BY <2>1 DEF matchLeft, swaps, real
<1>7. /\ c \in Nat /\ kept \in [1 .. c -> real]
      /\ \A n \in 1 .. c : Cardinality({y \in real : y < kept[n]}) = n - 1
  <2>1. real \in SUBSET (1 .. k) /\ real \in SUBSET Nat
    BY <1>1, <1>2 DEF real
  <2>2. IsFiniteSet(1 .. k)
    BY <1>2, FS_Interval
  <2>3. IsFiniteSet(real)
    BY <2>1, <2>2, FS_Subset
  <2> QED
    BY <2>1, <2>3, AscendingFacts
<1> HIDE DEF kept, c
<1> DEFINE got == [n \in 1 .. c |-> swaps[kept[n]]]
<1>8. matchLeft(taker, sorted) = got
  BY <1>6, <1>7
<1>9. Len(got) = c /\ DOMAIN got = 1 .. c /\ \A n \in 1 .. c : got[n] = swaps[kept[n]]
  BY <1>7
<1>10. ASSUME NEW n \in 1 .. c PROVE got[n] # Fractional
  <2>1. kept[n] \in DOMAIN swaps
    BY <1>7 DEF real
  <2> QED
    BY <1>1, <1>3, <2>1
<1> HIDE DEF got
<1>11. ~Contains(got, Fractional)
  BY <1>9, <1>10 DEF Contains
<1>12. ~Throws(taker, makers)
  BY <1>8, <1>11 DEF Throws, sorted
<1>13. trades = [n \in DOMAIN got |-> createTrade(taker, sorted[n], got[n])]
  BY <1>8, <1>11 DEF trades, createTrades, sorted
<1>14. trades = [n \in 1 .. c |-> Zipped(kept, n)]
  BY <1>9, <1>13 DEF Zipped
<1> QED
  BY <1>7, <1>12, <1>14 DEF c, kept

\* No two trades come of one swap, and as long as none was dropped each comes of the
\* swap with its own maker.
LEMMA KeptFacts ==
    ASSUME NEW R \in SUBSET (Nat \ {0}), IsFiniteSet(R), NEW c \in Nat,
           NEW kept \in [1 .. c -> R],
           \A n \in 1 .. c : Cardinality({y \in R : y < kept[n]}) = n - 1
    PROVE  /\ \A m, n \in 1 .. c : kept[m] = kept[n] => m = n
           /\ \A n \in 1 .. c : 1 .. n \subseteq R => kept[n] = n
<1> DEFINE Before(x) == {y \in R : y < x}
<1>1. ASSUME NEW m \in 1 .. c, NEW n \in 1 .. c, kept[m] = kept[n] PROVE m = n
  <2>1. Cardinality(Before(kept[m])) = m - 1 /\ Cardinality(Before(kept[n])) = n - 1
    OBVIOUS
  <2>2. m - 1 = n - 1
    BY <1>1, <2>1
  <2> QED
    BY <2>2
<1>2. ASSUME NEW n \in 1 .. c, 1 .. n \subseteq R PROVE kept[n] = n
  <2> DEFINE x == kept[n]
             B == Before(x)
  <2>1. x \in Nat \ {0} /\ n \in Nat /\ Cardinality(B) = n - 1
    <3>1. x \in R /\ n \in Nat
      OBVIOUS
    <3>2. Cardinality({y \in R : y < kept[n]}) = n - 1
      BY Zenon
    <3> QED
      BY <3>1, <3>2
  <2>2. IsFiniteSet(B) /\ B \in SUBSET (1 .. x - 1)
    <3>1. B \in SUBSET R /\ \A y \in B : y \in 1 .. x - 1
      BY <2>1
    <3> HIDE DEF B, x
    <3> QED
      BY <3>1, FS_Subset
  <2>3. n < x => 1 .. n \subseteq B
    BY <1>2, <2>1
  <2> HIDE DEF B, x
  <2>4. ~(n < x)
    <3> SUFFICES ASSUME n < x PROVE FALSE
      OBVIOUS
    <3>1. Cardinality(1 .. n) <= Cardinality(B)
      BY <2>2, <2>3, FS_Subset
    <3>2. Cardinality(1 .. n) = n
      BY <2>1, FS_Interval
    <3> QED
      BY <2>1, <3>1, <3>2
  <2>5. n - 1 <= x - 1
    <3>1. x - 1 \in Nat
      BY <2>1
    <3> DEFINE z == x - 1
    <3>2. IsFiniteSet(1 .. z) /\ Cardinality(1 .. z) = z
      <4> HIDE DEF z
      <4> QED
        BY <3>1, FS_Interval DEF z
    <3>3. Cardinality(B) <= Cardinality(1 .. z)
      BY <2>2, <3>2, FS_Subset
    <3> QED
      BY <2>1, <3>2, <3>3
  <2>6. x = n
    BY <2>1, <2>4, <2>5
  <2> QED
    BY <2>6 DEF x
<1> QED
  BY <1>1, <1>2

\* The totals of FillsProvable as sums of functions.
Paid(S, made) == [i \in S |-> made[i].leftSell]
Got(S, made) == [i \in S |-> made[i].rightSell]

LEMMA PaidIs ==
    ASSUME NEW S, NEW made
    PROVE  D!Sum(S, LAMBDA i : made[i].leftSell) = SumFunctionOnSet(Paid(S, made), S)
BY ZenonT(120)
   DEF Paid, D!Sum, D!MapThenSumSet, D!MapThenFoldSet,
       SumFunctionOnSet, FoldFunctionOnSet, MapThenFoldSet

LEMMA GotIs ==
    ASSUME NEW S, NEW made
    PROVE  D!Sum(S, LAMBDA i : made[i].rightSell) = SumFunctionOnSet(Got(S, made), S)
BY ZenonT(120)
   DEF Got, D!Sum, D!MapThenSumSet, D!MapThenFoldSet,
       SumFunctionOnSet, FoldFunctionOnSet, MapThenFoldSet

LEMMA TotalsAre ==
    /\ Total(DOMAIN trades, LAMBDA i : trades[i].leftSell)
          = SumFunctionOnSet(Paid(DOMAIN trades, trades), DOMAIN trades)
    /\ Total(DOMAIN trades, LAMBDA i : trades[i].rightSell)
          = SumFunctionOnSet(Got(DOMAIN trades, trades), DOMAIN trades)
BY PaidIs, GotIs DEF Total

\* The swaps that c trades come of.
PlacesOf(kept, c) == {kept[n] : n \in 1 .. c}

\* The trades made exchange what the kept ones of all swaps do, each of another one.
IsZipOf(made, c, kept, all, R) ==
    /\ c \in Nat /\ kept \in [1 .. c -> R]
    /\ \A m, n \in 1 .. c : kept[m] = kept[n] => m = n
    /\ \A n \in 1 .. c : /\ made[n].leftSell = all[kept[n]].fromLeft
                         /\ made[n].rightSell = all[kept[n]].fromRight
    /\ \A x \in R : all[x].fromLeft \in Int /\ all[x].fromRight \in Int

\* So do their totals.
LEMMA TotalsOfSwaps ==
    ASSUME NEW made, NEW c, NEW kept, NEW all, NEW R, IsZipOf(made, c, kept, all, R)
    PROVE  LET T == PlacesOf(kept, c)
           IN /\ T \in SUBSET R
              /\ SumFunctionOnSet(Paid(1 .. c, made), 1 .. c)
                    = SumFunctionOnSet(Given(T, all), T)
              /\ SumFunctionOnSet(Got(1 .. c, made), 1 .. c)
                    = SumFunctionOnSet(Received(T, all), T)
<1> DEFINE N == 1 .. c
           T == PlacesOf(kept, c)
           P == Paid(N, made)
           Q == Got(N, made)
           V == Given(T, all)
           W == Received(T, all)
<1>1. IsFiniteSet(N)
  BY FS_Interval DEF IsZipOf
<1>2. T \in SUBSET R /\ (\A n \in N : kept[n] \in T) /\ \A t \in T : \E n \in N : kept[n] = t
  BY DEF PlacesOf, IsZipOf
<1>3. \A m, n \in N : kept[m] = kept[n] => m = n
  BY DEF IsZipOf
<1>4. \A n \in N : kept[n] \in T /\ P[n] \in Int /\ V[kept[n]] = P[n]
  <2> HIDE DEF T
  <2> QED
    BY <1>2 DEF Paid, Given, IsZipOf
<1>5. \A n \in N : kept[n] \in T /\ Q[n] \in Int /\ W[kept[n]] = Q[n]
  <2> HIDE DEF T
  <2> QED
    BY <1>2 DEF Got, Received, IsZipOf
<1> HIDE DEF N, T, P, Q, V, W
<1>6. Carries(kept, N, P, T, V) /\ Carries(kept, N, Q, T, W)
  BY <1>2, <1>3, <1>4, <1>5 DEF Carries
<1>7. /\ SumFunctionOnSet(V, T) = SumFunctionOnSet(P, N)
      /\ SumFunctionOnSet(W, T) = SumFunctionOnSet(Q, N)
  BY <1>1, <1>6, SumCarried
<1> QED
  BY <1>2, <1>7 DEF N, T, P, Q, V, W

\* The side of a maker in the swap computed for it.
LEMMA MakerKeepsWithin ==
    ASSUME BookInv, NEW i \in real
    PROVE  /\ sorted[i] \in makers
           /\ swaps[i].fromLeft \in Nat \ {0} /\ swaps[i].fromRight \in Nat \ {0}
           /\ swaps[i].fromRight * sorted[i].buyAmount
                 <= sorted[i].sellAmount * swaps[i].fromLeft
           /\ (IF sorted[i].intent THEN swaps[i].fromLeft ELSE swaps[i].fromRight)
                 <= sorted[i].remaining
           /\ swaps[i].fromRight <= sorted[i].sellAmount
<1>1. PICK k \in 0 .. Len(sorted) :
         /\ DOMAIN swaps = 1 .. k
         /\ \A n \in 1 .. k :
               /\ swaps[n].fromRight * sorted[n].buyAmount
                     <= sorted[n].sellAmount * swaps[n].fromLeft
               /\ (IF sorted[n].intent THEN swaps[n].fromLeft ELSE swaps[n].fromRight)
                     <= sorted[n].remaining
  BY SwapsAre
<1> DEFINE m == sorted[i]
           l == swaps[i].fromLeft
           r == swaps[i].fromRight
<1>2. l \in Nat \ {0} /\ r \in Nat \ {0} /\ i \in 1 .. Len(sorted) /\ i \in 1 .. k
  <2>1. i \in DOMAIN swaps /\ IsSwap(swaps[i]) /\ Len(sorted) \in Nat
    BY SwapsAre DEF real
  <2> QED
    BY <1>1, <2>1 DEF IsSwap
<1>3. m \in filter(taker, makers)
  BY <1>2, SortedIs
<1>4. IsOrder(m) /\ m.remaining <= Side(m) /\ m \in makers
  BY <1>3, FilteredIs DEF filter
<1>5. /\ r * m.buyAmount <= m.sellAmount * l
      /\ (IF m.intent THEN l ELSE r) <= m.remaining
  BY <1>1, <1>2
<1> HIDE DEF m, l, r
<1> DEFINE b == m.buyAmount
           s == m.sellAmount
           q == m.remaining
<1>6. b \in Nat \ {0} /\ s \in Nat \ {0} /\ q \in Nat
  <2>1. b \in 1 .. 2 * Scale - 1 /\ s \in 1 .. 2 * Scale - 1 /\ q \in Nat
    BY <1>4 DEF IsOrder
  <2> HIDE DEF b, s, q
  <2> QED
    BY <2>1, ScaleAssumption
<1>7. r <= m.sellAmount
  <2>1. CASE m.intent
    <3>1. l <= q /\ q <= b
      BY <1>4, <1>5, <2>1 DEF Side
    <3>2. r * b <= s * l
      BY <1>5
    <3> HIDE DEF b, s, q
    <3>3. s * l <= s * b
      BY <1>2, <1>6, <3>1, Monotone
    <3>4. b * r <= b * s
      <4>1. /\ b * r = r * b /\ b * s = s * b
            /\ r * b \in Int /\ s * b \in Int /\ s * l \in Int
        BY <1>2, <1>6
      <4> QED
        BY <3>2, <3>3, <4>1
    <3>5. r <= s
      BY <1>2, <1>6, <3>4, Cancel
    <3> QED
      BY <3>5 DEF s
  <2>2. CASE ~m.intent
    <3>1. r <= q /\ q <= s
      BY <1>4, <1>5, <2>2 DEF Side
    <3> HIDE DEF b, s, q
    <3>2. r <= s
      BY <1>2, <1>6, <3>1
    <3> QED
      BY <3>2 DEF s
  <2> QED
    BY <2>1, <2>2
<1> QED
  BY <1>2, <1>4, <1>5, <1>7 DEF m, l, r

\* The fills of the trades made on such a book stay within the limits of the taker, one
\* by one and in total, and as long as no swap was dropped within those of their makers
\* and what these have left.  (Matching.ts:165, 288)
THEOREM BookProves == BookInv => FillsProvable
<1> SUFFICES ASSUME BookInv PROVE FillsProvable
  OBVIOUS
<1> DEFINE c == Cardinality(real)
           kept == Ascending(real)
<1>1. /\ c \in Nat /\ kept \in [1 .. c -> real]
      /\ \A n \in 1 .. c : Cardinality({y \in real : y < kept[n]}) = n - 1
      /\ ~Throws(taker, makers)
      /\ trades = [n \in 1 .. c |-> Zipped(kept, n)]
  BY TradesAre
<1> HIDE DEF c, kept
<1>2. DOMAIN trades = 1 .. c
  BY <1>1
<1>3. \A n \in 1 .. c : /\ trades[n].left = taker.id /\ trades[n].right = sorted[n].id
                        /\ trades[n].leftSell = swaps[kept[n]].fromLeft
                        /\ trades[n].rightSell = swaps[kept[n]].fromRight
  BY <1>1 DEF Zipped, createTrade
<1>4. PICK k \in Nat : /\ DOMAIN swaps = 1 .. k
                       /\ \A i \in 1 .. k :
                             /\ swaps[i].fromLeft \in Nat /\ swaps[i].fromRight \in Nat
                             /\ swaps[i].fromLeft * taker.buyAmount
                                   <= taker.sellAmount * swaps[i].fromRight
  BY SwapsAre
<1>5. real \in SUBSET (1 .. k) /\ real \in SUBSET (Nat \ {0}) /\ IsFiniteSet(real)
  <2>1. real \in SUBSET (1 .. k) /\ real \in SUBSET (Nat \ {0})
    BY <1>4 DEF real
  <2>2. IsFiniteSet(1 .. k)
    BY <1>4, FS_Interval
  <2> QED
    BY <2>1, <2>2, FS_Subset
<1>6. /\ \A m, n \in 1 .. c : kept[m] = kept[n] => m = n
      /\ \A n \in 1 .. c : 1 .. n \subseteq real => kept[n] = n
  BY <1>1, <1>5, KeptFacts
<1>7. ASSUME NEW i \in DOMAIN trades
      PROVE  D!checkFillWithApproval(TakersFill(trades[i]), taker)
  <2> DEFINE x == kept[i]
             l == swaps[x].fromLeft
             r == swaps[x].fromRight
             f == TakersFill(trades[i])
  <2>1. i \in 1 .. c /\ x \in real /\ x \in 1 .. k
    BY <1>1, <1>2, <1>5
  <2>2. l \in Nat /\ r \in Nat \ {0} /\ l * taker.buyAmount <= taker.sellAmount * r
    BY <1>4, <2>1 DEF real, IsSwap
  <2>3. /\ f.approvalId = taker.id /\ f.buyAmount = r /\ f.sellAmount = l
        /\ f.buyAsset = taker.buyAsset /\ f.sellAsset = taker.sellAsset
    BY <1>3, <2>1 DEF TakersFill, FillOf, createFillParams
  <2> HIDE DEF f, l, r, x
  <2>4. D!checkFillWithApproval(f, taker)
    <3>1. r > 0
      BY <2>2
    <3> QED
      BY <2>2, <2>3, <3>1 DEF D!checkFillWithApproval
  <2> QED
    BY <2>4 DEF f
<1>8. /\ Total(DOMAIN trades, LAMBDA i : trades[i].leftSell) <= taker.sellAmount
      /\ taker.intent =>
            Total(DOMAIN trades, LAMBDA i : trades[i].rightSell) <= taker.buyAmount
  <2> DEFINE T == PlacesOf(kept, c)
  <2>1. \A x \in real : swaps[x].fromLeft \in Int /\ swaps[x].fromRight \in Int
    BY <1>4, <1>5
  <2>2. /\ T \in SUBSET real
        /\ SumFunctionOnSet(Paid(1 .. c, trades), 1 .. c)
              = SumFunctionOnSet(Given(T, swaps), T)
        /\ SumFunctionOnSet(Got(1 .. c, trades), 1 .. c)
              = SumFunctionOnSet(Received(T, swaps), T)
    <3>1. IsZipOf(trades, c, kept, swaps, real)
      BY <1>1, <1>3, <1>6, <2>1 DEF IsZipOf
    <3> QED
      BY <3>1, TotalsOfSwaps
  <2> HIDE DEF T
  <2>3. CanMeet(taker, sorted)
    BY SortedIs
  <2>4. T \in SUBSET DOMAIN swapsOf(taker, sorted)
    BY <2>2 DEF real, swaps
  <2>5. /\ SumFunctionOnSet(Given(T, swaps), T) <= taker.sellAmount
        /\ taker.intent => SumFunctionOnSet(Received(T, swaps), T) <= taker.buyAmount
    BY <2>3, <2>4, TakerTotals DEF swaps
  <2> QED
    BY <1>2, <2>2, <2>5, TotalsAre
<1>9. ASSUME NEW i \in DOMAIN trades, 1 .. i \subseteq real
      PROVE  \E m \in makers : m.id = trades[i].right /\ MakerFillOk(trades[i], m)
  <2> DEFINE m == sorted[i]
             l == swaps[i].fromLeft
             r == swaps[i].fromRight
             f == MakersFill(trades[i], m)
  <2>1. i \in 1 .. c /\ kept[i] = i /\ i \in real
    BY <1>1, <1>2, <1>6, <1>9
  <2>2. trades[i].leftSell = l /\ trades[i].rightSell = r /\ trades[i].right = m.id
    BY <1>3, <2>1
  <2>3. /\ m \in makers /\ l \in Nat \ {0} /\ r \in Nat \ {0}
        /\ r * m.buyAmount <= m.sellAmount * l
        /\ (IF m.intent THEN l ELSE r) <= m.remaining
        /\ r <= m.sellAmount
    BY <2>1, MakerKeepsWithin
  <2> HIDE DEF m, l, r
  <2>4. /\ f.approvalId = m.id /\ f.buyAmount = l /\ f.sellAmount = r
        /\ f.buyAsset = m.buyAsset /\ f.sellAsset = m.sellAsset
    BY <2>2 DEF MakersFill, FillOf, createFillParams
  <2> HIDE DEF f
  <2>5. D!checkFillWithApproval(f, m)
    <3>1. l > 0
      BY <2>3
    <3> QED
      BY <2>3, <2>4, <3>1 DEF D!checkFillWithApproval
  <2>6. MakerFillOk(trades[i], m)
    BY <2>2, <2>3, <2>5 DEF MakerFillOk, f
  <2> QED
    BY <2>2, <2>3, <2>6
<1> QED
  BY <1>1, <1>7, <1>8, <1>9 DEF FillsProvable, TakerAccepted, MakersAccepted

\* A swap after which the taker wants more has taken all of its maker.
LEMMA MakerIsExhausted ==
    ASSUME BookInv, NEW i \in real, NEW j \in real, j < i
    PROVE  swaps[j].fromRight = sorted[j].remaining \/ swaps[j].fromLeft = sorted[j].remaining
<1> DEFINE rest == Cascade(taker, sorted)
           now == [taker EXCEPT !.remaining = rest[j - 1]]
           m == sorted[j]
<1>1. CanMeet(taker, sorted)
  BY SortedIs
<1>2. Len(sorted) \in Nat
  BY <1>1 DEF CanMeet
<1>3. PICK k \in 0 .. Len(sorted) :
         /\ DOMAIN swaps = 1 .. k
         /\ \A n \in 1 .. k : rest[n - 1] > 0 /\ swaps[n] = Meet(taker, rest[n - 1], sorted[n])
  BY <1>1, SwapsAreFirst DEF swaps
<1>4. \A n \in DOMAIN swaps : /\ rest[n - 1] \in Nat /\ rest[n] \in Nat
                             /\ Filled(taker, swaps[n]) \in Nat
                             /\ rest[n] = rest[n - 1] - Filled(taker, swaps[n])
  BY <1>1, EachSwap DEF swaps
<1>5. i \in 1 .. k /\ j \in 1 .. k /\ IsSwap(swaps[j])
  BY <1>3 DEF real
<1>6. j + 1 \in 1 .. k /\ (j + 1) - 1 = j /\ j \in 1 .. Len(sorted)
  BY <1>2, <1>5
<1>7. rest[j] > 0 /\ swaps[j] = Meet(taker, rest[j - 1], m)
  BY <1>3, <1>5, <1>6
<1>8. /\ rest[j - 1] \in Nat /\ rest[j] \in Nat /\ Filled(taker, swaps[j]) \in Nat
      /\ rest[j] = rest[j - 1] - Filled(taker, swaps[j])
  BY <1>3, <1>4, <1>5
<1> HIDE DEF rest, m
<1>9. Filled(taker, swaps[j]) # rest[j - 1]
  BY <1>7, <1>8
<1>10. /\ now.remaining = rest[j - 1] /\ now.intent = taker.intent
       /\ now.buyAmount = taker.buyAmount /\ now.sellAmount = taker.sellAmount
  BY <1>1 DEF CanMeet
<1>11. IsOrder(m) /\ m.intent # taker.intent /\ IsOrder(taker)
  BY <1>1, <1>6 DEF CanMeet, m
<1>12. IsOrder(now) /\ now.intent # m.intent
  BY <1>8, <1>10, <1>11 DEF IsOrder
<1>13. swaps[j] = matchLeftRight(now, m)
  BY <1>7 DEF Meet
<1> HIDE DEF now
<1>14. \/ (IF now.intent THEN swaps[j].fromRight ELSE swaps[j].fromLeft) = now.remaining
       \/ (IF m.intent THEN swaps[j].fromLeft ELSE swaps[j].fromRight) = m.remaining
  BY <1>5, <1>11, <1>12, <1>13, SwapsExhaust
<1>15. (IF m.intent THEN swaps[j].fromLeft ELSE swaps[j].fromRight) = m.remaining
  BY <1>9, <1>10, <1>14 DEF Filled
<1> QED
  BY <1>15 DEF m

\* On such a book nobody with a better price is passed over.  (Matching.ts:165)
THEOREM BookServesBestFirst == BookInv => BestFirst
<1> SUFFICES ASSUME BookInv, NEW i \in real, NEW m \in filter(taker, makers),
                    better(m, sorted[i])
             PROVE  \E j \in 1 .. i - 1 :
                       /\ sorted[j] = m
                       /\ j \in real => \/ swaps[j].fromRight = m.remaining
                                        \/ swaps[j].fromLeft = m.remaining
  BY ZenonT(180) DEF BestFirst
<1>1. i \in 1 .. Len(sorted)
  <2>1. PICK k \in 0 .. Len(sorted) : DOMAIN swaps = 1 .. k
    BY SwapsAre
  <2>2. i \in DOMAIN swaps /\ Len(sorted) \in Nat
    BY SwapsAre DEF real
  <2> QED
    BY <2>1, <2>2
<1>2. PICK j \in 1 .. i - 1 : sorted[j] = m
  BY <1>1, SortedIs
<1>3. j < i
  BY <1>1
<1>4. ASSUME j \in real
      PROVE  swaps[j].fromRight = m.remaining \/ swaps[j].fromLeft = m.remaining
  BY <1>2, <1>3, <1>4, MakerIsExhausted
<1> QED
  BY <1>2, <1>4

\* For every market, every taker and every book that can come about: the engine gives
\* up on nothing, the contract accepts the fills of the taker in a dispute, and those of
\* the makers up to the first swap that was dropped.  (Matching.ts:165, 288)
THEOREM FillsAreProvable == MatchingSpec => []FillsProvable
BY BookInit, BookStep, BookProves, PTL DEF MatchingSpec

\* The taker gets the best prices of the book, for every market, taker and book: a
\* maker that trades leaves nobody with a better price, or older at the same one,
\* behind, unless there was nothing to exchange.  (Matching.ts:165, 252)
THEOREM BestPricesFirst == MatchingSpec => []BestFirst
BY BookInit, BookStep, BookServesBestFirst, PTL DEF MatchingSpec
=============================================================================
