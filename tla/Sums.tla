--------------------------------- MODULE Sums ---------------------------------
(***************************************************************************)
(* Arithmetic that the proofs share.  Sums over finite sets: the folds of  *)
(* the community modules are recursive functions over the subsets of their *)
(* domain; the lemmas say what they compute, for functions with integer    *)
(* values.  Products, as far as prices need them.  Sets in order: every    *)
(* element of a finite set has its place.                                  *)
(***************************************************************************)
EXTENDS Integers, FiniteSets, FiniteSetsExt, Functions, FiniteSetTheorems, TLAPS

\* The element that a fold takes out of a set.
Chosen(s) == CHOOSE x \in s : TRUE

\* g is the function that the definition of the sum of f over S is about.
IsTally(g, f, S) ==
    g = [s \in SUBSET S |-> IF s = {} THEN 0 ELSE f[Chosen(s)] + g[s \ {Chosen(s)}]]

Tally(f, S) == CHOOSE g : IsTally(g, f, S)

LEMMA SumIsTally ==
    ASSUME NEW f, NEW S
    PROVE  SumFunctionOnSet(f, S) = Tally(f, S)[S]
BY Zenon DEF SumFunctionOnSet, FoldFunctionOnSet, MapThenFoldSet, IsTally, Tally, Chosen

LEMMA ChosenIn == ASSUME NEW s, s # {} PROVE Chosen(s) \in s
BY DEF Chosen

\* Induction over the subsets of a finite set, as a fact about sets of them.
LEMMA SubsetInduction ==
    ASSUME NEW S, IsFiniteSet(S), NEW Good,
           {} \in Good,
           \A s \in SUBSET S : s # {} /\ (\A x \in s : s \ {x} \in Good) => s \in Good
    PROVE  SUBSET S \subseteq Good
<1> SUFFICES ASSUME ~(SUBSET S \subseteq Good) PROVE FALSE
  OBVIOUS
<1> DEFINE Bad == (SUBSET S) \ Good
           Smaller == StrictSubsetOrdering(S)
           All == FiniteSubsetsOf(S)
<1>1. IsWellFoundedOn(Smaller, All)
  BY FS_StrictSubsetOrderingWellFounded
<1>2. Bad \subseteq All /\ Bad # {}
  BY FS_Subset DEF FiniteSubsetsOf
<1>3. \E s \in Bad : \A t \in Bad : <<t, s>> \notin Smaller
  <2> HIDE DEF Bad, Smaller, All
  <2> QED
    BY <1>1, <1>2, WFMin, SMT
<1>4. PICK s \in Bad : \A t \in Bad : <<t, s>> \notin Smaller
  BY <1>3, Zenon
<1>5. ASSUME NEW x \in s PROVE s \ {x} \in Good
  <2>1. s \ {x} \in SUBSET S /\ s \ {x} \subseteq s /\ s \ {x} # s
    BY <1>4
  <2>2. <<s \ {x}, s>> \in Smaller
    BY <1>4, <2>1 DEF StrictSubsetOrdering
  <2> QED
    BY <1>4, <2>1, <2>2
<1> QED
  BY <1>4, <1>5

\* Induction over the naturals, likewise.
LEMMA NatInductionOnSet ==
    ASSUME NEW Good, 0 \in Good, \A n \in Nat : n \in Good => n + 1 \in Good
    PROVE  Nat \subseteq Good
<1> SUFFICES ASSUME ~(Nat \subseteq Good) PROVE FALSE
  OBVIOUS
<1> DEFINE Bad == Nat \ Good
           Smaller == {p \in Nat \X Nat : p[1] < p[2]}
<1>1. IsWellFoundedOn(Smaller, Nat)
  BY NatLessThanWellFounded DEF OpToRel
<1>2. \E n \in Bad : \A m \in Bad : <<m, n>> \notin Smaller
  <2>1. Bad \subseteq Nat /\ Bad # {}
    OBVIOUS
  <2> HIDE DEF Bad, Smaller
  <2> QED
    BY <1>1, <2>1, WFMin, Zenon
<1>3. PICK n \in Bad : \A m \in Bad : <<m, n>> \notin Smaller
  BY <1>2, Zenon
<1>4. n \in Nat /\ n # 0
  OBVIOUS
<1>5. n - 1 \in Nat /\ (n - 1) + 1 = n /\ n - 1 < n
  BY <1>4
<1>6. <<n - 1, n>> \in Smaller
  BY <1>4, <1>5
<1> QED
  BY <1>3, <1>5, <1>6

\* The least of some natural numbers is one of them.
LEMMA LeastIsIn ==
    ASSUME NEW S \in SUBSET Nat, S # {}
    PROVE  Min(S) \in S /\ \A y \in S : Min(S) <= y
<1>1. \E x \in S : \A y \in S : x <= y
  <2> DEFINE Smaller == {p \in Nat \X Nat : p[1] < p[2]}
  <2>1. IsWellFoundedOn(Smaller, Nat)
    BY NatLessThanWellFounded DEF OpToRel
  <2>2. PICK x \in S : \A y \in S : ~(<<y, x>> \in Smaller)
    <3> HIDE DEF Smaller
    <3> QED
      BY <2>1, WFMin, Zenon
  <2>3. ASSUME NEW y \in S PROVE x <= y
    <3>1. x \in Nat /\ y \in Nat /\ ~(y < x)
      BY <2>2
    <3> QED
      BY <3>1
  <2> QED
    BY <2>3
<1> QED
  BY <1>1 DEF Min

\* A nonempty set of numbers up to n has a greatest one.
LEMMA GreatestIsIn ==
    ASSUME NEW n \in Nat, NEW S \in SUBSET (0..n), S # {}
    PROVE  Max(S) \in S /\ \A y \in S : y <= Max(S)
<1>1. \E x \in S : \A y \in S : x >= y
  <2> DEFINE Gaps == {n - y : y \in S}
  <2>1. Gaps \in SUBSET Nat /\ Gaps # {}
    <3>1. \A y \in S : n - y \in Nat
      OBVIOUS
    <3>2. PICK y \in S : TRUE
      OBVIOUS
    <3>3. n - y \in Gaps
      OBVIOUS
    <3> QED
      BY <3>1, <3>3
  <2>2. Min(Gaps) \in Gaps /\ \A gap \in Gaps : Min(Gaps) <= gap
    <3> HIDE DEF Gaps
    <3> QED
      BY <2>1, LeastIsIn
  <2>3. PICK x \in S : Min(Gaps) = n - x
    BY <2>2
  <2>4. ASSUME NEW y \in S PROVE x >= y
    <3>1. n - x <= n - y
      BY <2>2, <2>3
    <3> QED
      BY <3>1
  <2> QED
    BY <2>4
<1>2. \A y \in S : Max(S) >= y /\ Max(S) \in S
  BY <1>1 DEF Max
<1> QED
  BY <1>1, <1>2

\* The recursive function exists: the definition of the sum means something.
LEMMA TallyIsOne == ASSUME NEW f, NEW S, IsFiniteSet(S) PROVE IsTally(Tally(f, S), f, S)
<1> SUFFICES \E g : IsTally(g, f, S)
  BY Zenon DEF Tally
<1> DEFINE Step(g, s) == IF s = {} THEN 0 ELSE f[Chosen(s)] + g[s \ {Chosen(s)}]
           Upto(n) == {s \in SUBSET S : Cardinality(s) <= n}
           Has == {n \in Nat : \E g : g = [s \in Upto(n) |-> Step(g, s)]}
<1>1. \A s \in SUBSET S : IsFiniteSet(s) /\ Cardinality(s) \in Nat
  BY FS_Subset, FS_CardinalityType
<1>2. \A s \in SUBSET S : s # {} => /\ s \ {Chosen(s)} \in SUBSET S
                                   /\ Cardinality(s \ {Chosen(s)}) = Cardinality(s) - 1
  BY <1>1, ChosenIn, FS_RemoveElement
<1>3. 0 \in Has
  <2>1. \A s \in Upto(0) : s = {}
    BY <1>1, FS_EmptySet
  <2> DEFINE g == [s \in Upto(0) |-> 0]
  <2>2. g = [s \in Upto(0) |-> Step(g, s)]
    BY <2>1
  <2> HIDE DEF g, Step
  <2> QED
    BY <2>2
<1>4. ASSUME NEW n \in Nat, n \in Has PROVE n + 1 \in Has
  <2>1. PICK g : g = [s \in Upto(n) |-> Step(g, s)]
    BY <1>4
  <2> DEFINE h == [s \in Upto(n + 1) |-> Step(g, s)]
  <2>2. \A s \in Upto(n) : s \in Upto(n + 1) /\ h[s] = g[s]
    <3>1. \A s \in Upto(n) : s \in Upto(n + 1)
      BY <1>1
    <3>2. \A s \in Upto(n) : g[s] = Step(g, s)
      <4> HIDE DEF Step, Upto
      <4> QED
        BY <2>1
    <3> HIDE DEF Step, Upto
    <3> QED
      BY <3>1, <3>2
  <2>3. \A s \in Upto(n + 1) : s # {} => s \ {Chosen(s)} \in Upto(n)
    BY <1>1, <1>2
  <2>4. \A s \in Upto(n + 1) : Step(h, s) = Step(g, s)
    BY <2>2, <2>3
  <2>5. h = [s \in Upto(n + 1) |-> Step(h, s)]
    BY <2>4
  <2> HIDE DEF h, Step
  <2> QED
    BY <2>5
<1>5. Cardinality(S) \in Nat /\ Cardinality(S) \in Has
  <2> HIDE DEF Has
  <2> QED
    BY <1>1, <1>3, <1>4, NatInductionOnSet
<1>6. PICK g : g = [s \in Upto(Cardinality(S)) |-> Step(g, s)]
  BY <1>5
<1>7. Upto(Cardinality(S)) = SUBSET S
  BY <1>1, FS_Subset
<1> QED
  BY <1>6, <1>7 DEF IsTally

LEMMA TallyIsUnique ==
    ASSUME NEW f, NEW S, IsFiniteSet(S), NEW T, NEW g, NEW h,
           IsTally(g, f, S), IsTally(h, f, T), NEW u \in SUBSET S, u \in SUBSET T
    PROVE  g[u] = h[u]
<1> DEFINE Good == {s \in SUBSET S : s \in SUBSET T => g[s] = h[s]}
<1>1. \A s \in SUBSET S :
         g[s] = IF s = {} THEN 0 ELSE f[Chosen(s)] + g[s \ {Chosen(s)}]
  BY DEF IsTally
<1>2. \A s \in SUBSET T :
         h[s] = IF s = {} THEN 0 ELSE f[Chosen(s)] + h[s \ {Chosen(s)}]
  BY DEF IsTally
<1>3. {} \in Good
  BY <1>1, <1>2
<1>4. ASSUME NEW s \in SUBSET S, s # {}, \A x \in s : s \ {x} \in Good
      PROVE  s \in Good
  BY <1>1, <1>2, <1>4, ChosenIn
<1>5. SUBSET S \subseteq Good
  <2> HIDE DEF Good
  <2> QED
    BY <1>3, <1>4, SubsetInduction
<1> QED
  BY <1>5

LEMMA SumEmpty == ASSUME NEW f PROVE SumFunctionOnSet(f, {}) = 0
<1>1. IsTally(Tally(f, {}), f, {})
  BY TallyIsOne, FS_EmptySet
<1> QED
  BY <1>1, SumIsTally DEF IsTally

LEMMA SumChosen ==
    ASSUME NEW f, NEW S, IsFiniteSet(S), S # {}
    PROVE  SumFunctionOnSet(f, S) = f[Chosen(S)] + SumFunctionOnSet(f, S \ {Chosen(S)})
<1> DEFINE rest == S \ {Chosen(S)}
           g == Tally(f, S)
           h == Tally(f, rest)
<1>1. IsFiniteSet(rest) /\ rest \in SUBSET S /\ rest \in SUBSET rest
  BY FS_RemoveElement
<1>2. IsTally(g, f, S) /\ IsTally(h, f, rest)
  BY <1>1, TallyIsOne
<1>3. g[rest] = h[rest]
  <2> HIDE DEF g, h, rest
  <2> QED
    BY <1>1, <1>2, TallyIsUnique
<1>4. g[S] = f[Chosen(S)] + g[rest]
  <2> HIDE DEF g
  <2> QED
    BY <1>2 DEF IsTally
<1> QED
  BY <1>3, <1>4, SumIsTally

LEMMA SumInt ==
    ASSUME NEW S, IsFiniteSet(S), NEW f, \A x \in S : f[x] \in Int
    PROVE  SumFunctionOnSet(f, S) \in Int
<1> DEFINE Good == {s \in SUBSET S : SumFunctionOnSet(f, s) \in Int}
<1>1. {} \in Good
  BY SumEmpty
<1>2. ASSUME NEW s \in SUBSET S, s # {}, \A x \in s : s \ {x} \in Good
      PROVE  s \in Good
  <2>1. IsFiniteSet(s) /\ Chosen(s) \in s
    BY <1>2, FS_Subset, ChosenIn
  <2>2. SumFunctionOnSet(f, s) = f[Chosen(s)] + SumFunctionOnSet(f, s \ {Chosen(s)})
    BY <1>2, <2>1, SumChosen
  <2> QED
    BY <1>2, <2>1, <2>2
<1>3. SUBSET S \subseteq Good
  <2> HIDE DEF Good
  <2> QED
    BY <1>1, <1>2, SubsetInduction
<1> QED
  BY <1>3

\* The order in which the elements are taken does not matter.
LEMMA SumTakeOut ==
    ASSUME NEW S, IsFiniteSet(S), NEW f, \A x \in S : f[x] \in Int, NEW y \in S
    PROVE  SumFunctionOnSet(f, S) = f[y] + SumFunctionOnSet(f, S \ {y})
<1> DEFINE Takes(s, x) == SumFunctionOnSet(f, s) = f[x] + SumFunctionOnSet(f, s \ {x})
           Good == {s \in SUBSET S : \A x \in s : Takes(s, x)}
<1>1. {} \in Good
  OBVIOUS
<1>2. ASSUME NEW s \in SUBSET S, s # {}, \A x \in s : s \ {x} \in Good, NEW x \in s
      PROVE  Takes(s, x)
  <2> DEFINE c == Chosen(s)
  <2>1. IsFiniteSet(s) /\ c \in s /\ Takes(s, c)
    BY <1>2, FS_Subset, ChosenIn, SumChosen
  <2>2. CASE x = c
    BY <2>1, <2>2
  <2>3. CASE x # c
    <3> HIDE DEF c
    <3>1. Takes(s \ {c}, x) /\ Takes(s \ {x}, c)
      BY <1>2, <2>1, <2>3
    <3>2. (s \ {c}) \ {x} = (s \ {x}) \ {c} /\ IsFiniteSet((s \ {c}) \ {x})
      BY <2>1, FS_RemoveElement
    <3>3. SumFunctionOnSet(f, (s \ {c}) \ {x}) \in Int
      BY <3>2, SumInt
    <3>4. f[x] \in Int /\ f[c] \in Int
      BY <2>1
    <3> DEFINE R == SumFunctionOnSet(f, (s \ {c}) \ {x})
               P == SumFunctionOnSet(f, s \ {c})
               Q == SumFunctionOnSet(f, s \ {x})
               W == SumFunctionOnSet(f, s)
    <3>5. W = f[c] + P /\ P = f[x] + R /\ Q = f[c] + R /\ R \in Int
      BY <2>1, <3>1, <3>2, <3>3
    <3>6. W = f[x] + Q
      <4> HIDE DEF W, P, Q, R
      <4> QED
        BY <3>4, <3>5
    <3> QED
      BY <3>6
  <2> QED
    BY <2>2, <2>3
<1>3. \A s \in SUBSET S : s # {} /\ (\A x \in s : s \ {x} \in Good) => s \in Good
  BY <1>2
<1>4. SUBSET S \subseteq Good
  <2> HIDE DEF Good
  <2> QED
    BY <1>1, <1>3, SubsetInduction
<1>5. Takes(S, y)
  BY <1>4
<1> QED
  BY <1>5
-----------------------------------------------------------------------------
(* What proofs about sums need. *)

LEMMA SumNat ==
    ASSUME NEW S, IsFiniteSet(S), NEW f, \A x \in S : f[x] \in Nat
    PROVE  SumFunctionOnSet(f, S) \in Nat
<1> DEFINE Good == {s \in SUBSET S : SumFunctionOnSet(f, s) \in Nat}
<1>1. {} \in Good
  BY SumEmpty
<1>2. ASSUME NEW s \in SUBSET S, s # {}, \A x \in s : s \ {x} \in Good
      PROVE  s \in Good
  <2>1. IsFiniteSet(s) /\ Chosen(s) \in s
    BY <1>2, FS_Subset, ChosenIn
  <2>2. SumFunctionOnSet(f, s) = f[Chosen(s)] + SumFunctionOnSet(f, s \ {Chosen(s)})
    BY <1>2, <2>1, SumChosen
  <2> QED
    BY <1>2, <2>1, <2>2
<1>3. SUBSET S \subseteq Good
  <2> HIDE DEF Good
  <2> QED
    BY <1>1, <1>2, SubsetInduction
<1> QED
  BY <1>3

\* Two functions are summed at once.
LEMMA SumPlus ==
    ASSUME NEW S, IsFiniteSet(S), NEW f, NEW g, NEW h,
           \A x \in S : f[x] \in Int /\ g[x] \in Int /\ h[x] = f[x] + g[x]
    PROVE  SumFunctionOnSet(h, S) = SumFunctionOnSet(f, S) + SumFunctionOnSet(g, S)
<1> DEFINE Good == {s \in SUBSET S :
                SumFunctionOnSet(h, s) = SumFunctionOnSet(f, s) + SumFunctionOnSet(g, s)}
<1>1. {} \in Good
  BY SumEmpty
<1>2. ASSUME NEW s \in SUBSET S, s # {}, \A x \in s : s \ {x} \in Good
      PROVE  s \in Good
  <2> DEFINE c == Chosen(s)
             r == s \ {c}
  <2>1. IsFiniteSet(s) /\ c \in s /\ IsFiniteSet(r) /\ r \in Good
    BY <1>2, FS_Subset, ChosenIn, FS_RemoveElement
  <2>2. /\ SumFunctionOnSet(f, s) = f[c] + SumFunctionOnSet(f, r)
        /\ SumFunctionOnSet(g, s) = g[c] + SumFunctionOnSet(g, r)
        /\ SumFunctionOnSet(h, s) = h[c] + SumFunctionOnSet(h, r)
    BY <1>2, <2>1, SumChosen
  <2>3. SumFunctionOnSet(f, r) \in Int /\ SumFunctionOnSet(g, r) \in Int
    <3>1. \A x \in r : f[x] \in Int /\ g[x] \in Int
      OBVIOUS
    <3> HIDE DEF r
    <3> QED
      BY <2>1, <3>1, SumInt
  <2>4. SumFunctionOnSet(h, r) = SumFunctionOnSet(f, r) + SumFunctionOnSet(g, r)
    BY <2>1
  <2>5. f[c] \in Int /\ g[c] \in Int /\ h[c] = f[c] + g[c]
    BY <2>1
  <2>6. SumFunctionOnSet(h, s) = SumFunctionOnSet(f, s) + SumFunctionOnSet(g, s)
    <3> HIDE DEF r, c
    <3> QED
      BY <2>2, <2>3, <2>4, <2>5
  <2> QED
    BY <2>6
<1>3. SUBSET S \subseteq Good
  <2> HIDE DEF Good
  <2> QED
    BY <1>1, <1>2, SubsetInduction
<1> QED
  BY <1>3

LEMMA SumZero ==
    ASSUME NEW S, IsFiniteSet(S), NEW f, \A x \in S : f[x] = 0
    PROVE  SumFunctionOnSet(f, S) = 0
<1>1. SumFunctionOnSet(f, S) \in Int
  BY SumInt
<1> DEFINE z == SumFunctionOnSet(f, S)
<1>2. z = z + z /\ z \in Int
  BY <1>1, SumPlus
<1>3. z = 0
  <2> HIDE DEF z
  <2> QED
    BY <1>2
<1> QED
  BY <1>3

LEMMA SumLeq ==
    ASSUME NEW S, IsFiniteSet(S), NEW f, NEW g,
           \A x \in S : f[x] \in Int /\ g[x] \in Int /\ f[x] <= g[x]
    PROVE  SumFunctionOnSet(f, S) <= SumFunctionOnSet(g, S)
<1> DEFINE d == [x \in S |-> g[x] - f[x]]
<1>1. \A x \in S : d[x] \in Nat
  OBVIOUS
<1>2. \A x \in S : f[x] \in Int /\ d[x] \in Int /\ g[x] = f[x] + d[x]
  OBVIOUS
<1> HIDE DEF d
<1>3. /\ SumFunctionOnSet(d, S) \in Nat
      /\ SumFunctionOnSet(f, S) \in Int
  BY <1>1, SumNat, SumInt
<1>4. SumFunctionOnSet(g, S) = SumFunctionOnSet(f, S) + SumFunctionOnSet(d, S)
  BY <1>2, SumPlus
<1> QED
  BY <1>3, <1>4

LEMMA SumEqual ==
    ASSUME NEW S, IsFiniteSet(S), NEW f, NEW g, \A x \in S : f[x] \in Int /\ f[x] = g[x]
    PROVE  SumFunctionOnSet(f, S) = SumFunctionOnSet(g, S)
<1>1. SumFunctionOnSet(f, S) \in Int /\ SumFunctionOnSet(g, S) \in Int
  BY SumInt
<1>2. SumFunctionOnSet(f, S) <= SumFunctionOnSet(g, S)
  BY SumLeq
<1>3. SumFunctionOnSet(g, S) <= SumFunctionOnSet(f, S)
  BY SumLeq
<1> QED
  BY <1>1, <1>2, <1>3

\* One value changes.
LEMMA SumChange ==
    ASSUME NEW S, IsFiniteSet(S), NEW f, NEW g, NEW y \in S, \A x \in S : f[x] \in Int,
           g[y] \in Int, \A x \in S \ {y} : g[x] = f[x]
    PROVE  SumFunctionOnSet(g, S) = SumFunctionOnSet(f, S) - f[y] + g[y]
<1> DEFINE r == S \ {y}
<1>1. IsFiniteSet(r) /\ \A x \in r : f[x] \in Int /\ f[x] = g[x]
  BY FS_RemoveElement
<1>2. SumFunctionOnSet(f, r) \in Int /\ SumFunctionOnSet(f, r) = SumFunctionOnSet(g, r)
  <2> HIDE DEF r
  <2> QED
    BY <1>1, SumInt, SumEqual
<1>3. \A x \in S : g[x] \in Int
  OBVIOUS
<1>4. /\ SumFunctionOnSet(f, S) = f[y] + SumFunctionOnSet(f, r)
      /\ SumFunctionOnSet(g, S) = g[y] + SumFunctionOnSet(g, r)
  BY <1>3, SumTakeOut
<1> HIDE DEF r
<1> QED
  BY <1>2, <1>4

\* No term is more than the sum of all.
LEMMA SumAtLeast ==
    ASSUME NEW S, IsFiniteSet(S), NEW f, \A x \in S : f[x] \in Nat, NEW y \in S
    PROVE  f[y] <= SumFunctionOnSet(f, S)
<1> DEFINE r == S \ {y}
<1>1. IsFiniteSet(r) /\ \A x \in r : f[x] \in Nat
  BY FS_RemoveElement
<1>2. SumFunctionOnSet(f, r) \in Nat
  <2> HIDE DEF r
  <2> QED
    BY <1>1, SumNat
<1>3. SumFunctionOnSet(f, S) = f[y] + SumFunctionOnSet(f, r)
  BY SumTakeOut
<1> QED
  BY <1>2, <1>3

\* The sum of two parts.
LEMMA SumSplit ==
    ASSUME NEW S, IsFiniteSet(S), NEW f, \A x \in S : f[x] \in Int, NEW T \in SUBSET S
    PROVE  /\ SumFunctionOnSet(f, S) = SumFunctionOnSet(f, T) + SumFunctionOnSet(f, S \ T)
           /\ SumFunctionOnSet(f, T) \in Int /\ SumFunctionOnSet(f, S \ T) \in Int
<1> DEFINE g == [x \in S |-> IF x \in T THEN f[x] ELSE 0]
           h == [x \in S |-> IF x \in T THEN 0 ELSE f[x]]
           Splits(s) == /\ SumFunctionOnSet(g, s) = SumFunctionOnSet(f, s \cap T)
                        /\ SumFunctionOnSet(h, s) = SumFunctionOnSet(f, s \ T)
           Good == {s \in SUBSET S : Splits(s)}
<1>1. {} \in Good
  BY SumEmpty
<1>2. ASSUME NEW s \in SUBSET S, s # {}, \A x \in s : s \ {x} \in Good
      PROVE  s \in Good
  <2>1. PICK x \in s : TRUE
    BY <1>2
  <2> DEFINE r == s \ {x}
  <2>2. /\ IsFiniteSet(s) /\ IsFiniteSet(s \cap T) /\ IsFiniteSet(s \ T)
        /\ \A y \in s : f[y] \in Int /\ g[y] \in Int /\ h[y] \in Int
    BY FS_Subset
  <2>3. /\ SumFunctionOnSet(g, s) = g[x] + SumFunctionOnSet(g, r)
        /\ SumFunctionOnSet(h, s) = h[x] + SumFunctionOnSet(h, r)
    <3> HIDE DEF g, h
    <3> QED
      BY <2>2, SumTakeOut
  <2>4. /\ SumFunctionOnSet(g, r) = SumFunctionOnSet(f, r \cap T)
        /\ SumFunctionOnSet(h, r) = SumFunctionOnSet(f, r \ T)
    BY <1>2
  <2>5. SumFunctionOnSet(f, r \cap T) \in Int /\ SumFunctionOnSet(f, r \ T) \in Int
    <3>1. /\ IsFiniteSet(r \cap T) /\ IsFiniteSet(r \ T)
          /\ \A y \in r \cap T : f[y] \in Int
          /\ \A y \in r \ T : f[y] \in Int
      BY <2>2, FS_Subset
    <3> HIDE DEF r
    <3> QED
      BY <3>1, SumInt
  <2>6. CASE x \in T
    <3>1. (s \cap T) \ {x} = r \cap T /\ s \ T = r \ T /\ x \in s \cap T
      BY <2>6
    <3>2. SumFunctionOnSet(f, s \cap T) = f[x] + SumFunctionOnSet(f, r \cap T)
      <4>1. \A y \in s \cap T : f[y] \in Int
        BY <2>2
      <4>2. SumFunctionOnSet(f, s \cap T) = f[x] + SumFunctionOnSet(f, (s \cap T) \ {x})
        BY <2>2, <3>1, <4>1, SumTakeOut
      <4> QED
        BY <3>1, <4>2
    <3>3. g[x] = f[x] /\ h[x] = 0
      BY <2>6
    <3> HIDE DEF g, h, r
    <3>4. SumFunctionOnSet(g, s) = f[x] + SumFunctionOnSet(f, r \cap T)
      BY <2>3, <2>4, <3>3
    <3>5. SumFunctionOnSet(h, s) = 0 + SumFunctionOnSet(f, r \ T)
      BY <2>3, <2>4, <3>3
    <3>6. SumFunctionOnSet(h, s) = SumFunctionOnSet(f, r \ T)
      BY <2>5, <3>5
    <3> QED
      BY <3>1, <3>2, <3>4, <3>6
  <2>7. CASE x \notin T
    <3>1. s \cap T = r \cap T /\ (s \ T) \ {x} = r \ T /\ x \in s \ T
      BY <2>7
    <3>2. SumFunctionOnSet(f, s \ T) = f[x] + SumFunctionOnSet(f, r \ T)
      <4>1. \A y \in s \ T : f[y] \in Int
        BY <2>2
      <4>2. SumFunctionOnSet(f, s \ T) = f[x] + SumFunctionOnSet(f, (s \ T) \ {x})
        BY <2>2, <3>1, <4>1, SumTakeOut
      <4> QED
        BY <3>1, <4>2
    <3>3. g[x] = 0 /\ h[x] = f[x]
      BY <2>7
    <3> HIDE DEF g, h, r
    <3>4. SumFunctionOnSet(h, s) = f[x] + SumFunctionOnSet(f, r \ T)
      BY <2>3, <2>4, <3>3
    <3>5. SumFunctionOnSet(g, s) = 0 + SumFunctionOnSet(f, r \cap T)
      BY <2>3, <2>4, <3>3
    <3>6. SumFunctionOnSet(g, s) = SumFunctionOnSet(f, r \cap T)
      BY <2>5, <3>5
    <3> QED
      BY <3>1, <3>2, <3>4, <3>6
  <2> QED
    BY <2>6, <2>7
<1>3. S \in Good
  <2> HIDE DEF Good
  <2> QED
    BY <1>1, <1>2, SubsetInduction
<1>4. S \cap T = T /\ IsFiniteSet(T) /\ IsFiniteSet(S \ T)
  BY FS_Subset
<1>5. \A x \in S : g[x] \in Int /\ h[x] \in Int /\ f[x] = g[x] + h[x]
  OBVIOUS
<1>6. SumFunctionOnSet(f, S) = SumFunctionOnSet(g, S) + SumFunctionOnSet(h, S)
  <2> HIDE DEF g, h
  <2> QED
    BY <1>5, SumPlus
<1>7. SumFunctionOnSet(f, T) \in Int /\ SumFunctionOnSet(f, S \ T) \in Int
  <2>1. (\A x \in T : f[x] \in Int) /\ (\A x \in S \ T : f[x] \in Int)
    OBVIOUS
  <2> QED
    BY <1>4, <2>1, SumInt
<1>8. SumFunctionOnSet(f, S) = SumFunctionOnSet(f, T) + SumFunctionOnSet(f, S \ T)
  BY <1>3, <1>4, <1>6
<1> QED
  BY <1>7, <1>8

\* Sums that are equal although no term of the one is more than that of the other have
\* the same terms.
LEMMA SumTight ==
    ASSUME NEW S, IsFiniteSet(S), NEW f, NEW g,
           \A x \in S : f[x] \in Int /\ g[x] \in Int /\ f[x] <= g[x],
           SumFunctionOnSet(f, S) = SumFunctionOnSet(g, S)
    PROVE  \A x \in S : f[x] = g[x]
<1> DEFINE d == [x \in S |-> g[x] - f[x]]
<1>1. \A x \in S : d[x] \in Nat /\ d[x] = g[x] - f[x]
  OBVIOUS
<1>2. \A x \in S : f[x] \in Int /\ d[x] \in Int /\ g[x] = f[x] + d[x]
  OBVIOUS
<1> HIDE DEF d
<1>3. SumFunctionOnSet(g, S) = SumFunctionOnSet(f, S) + SumFunctionOnSet(d, S)
  BY <1>2, SumPlus
<1>4. SumFunctionOnSet(f, S) \in Int /\ SumFunctionOnSet(d, S) \in Nat
  BY <1>1, SumInt, SumNat
<1>5. SumFunctionOnSet(d, S) = 0
  BY <1>3, <1>4
<1>6. \A x \in S : d[x] <= 0
  BY <1>1, <1>5, SumAtLeast
<1> QED
  BY <1>1, <1>6

\* A sum over fewer elements is not more.
LEMMA SumSubset ==
    ASSUME NEW S, IsFiniteSet(S), NEW f, \A x \in S : f[x] \in Nat, NEW T \in SUBSET S
    PROVE  SumFunctionOnSet(f, T) <= SumFunctionOnSet(f, S)
<1> DEFINE Good == {s \in SUBSET S : SumFunctionOnSet(f, s \cap T) <= SumFunctionOnSet(f, s)}
<1>1. {} \in Good
  BY SumEmpty
<1>2. ASSUME NEW s \in SUBSET S, s # {}, \A x \in s : s \ {x} \in Good
      PROVE  s \in Good
  <2>1. PICK x \in s : TRUE
    BY <1>2
  <2> DEFINE r == s \ {x}
             P == SumFunctionOnSet(f, s)
             Q == SumFunctionOnSet(f, r)
             A == SumFunctionOnSet(f, s \cap T)
             B == SumFunctionOnSet(f, r \cap T)
  <2>2. IsFiniteSet(s) /\ IsFiniteSet(r) /\ IsFiniteSet(s \cap T) /\ IsFiniteSet(r \cap T)
    BY FS_Subset, FS_RemoveElement
  <2>3. P = f[x] + Q
    BY <2>2, SumTakeOut
  <2>4. B <= Q /\ f[x] \in Nat
    BY <1>2
  <2>5. B \in Int /\ Q \in Int
    <3>1. \A z \in r : f[z] \in Int
      OBVIOUS
    <3>2. \A z \in r \cap T : f[z] \in Int
      OBVIOUS
    <3> HIDE DEF r
    <3> QED
      BY <2>2, <3>1, <3>2, SumInt
  <2>6. A <= P
    <3>1. CASE x \in T
      <4> DEFINE u == s \cap T
      <4>1. r \cap T = u \ {x} /\ x \in u /\ \A z \in u : f[z] \in Int
        BY <3>1
      <4>2. SumFunctionOnSet(f, u) = f[x] + SumFunctionOnSet(f, u \ {x})
        <5> HIDE DEF u
        <5> QED
          BY <2>2, <4>1, SumTakeOut DEF u
      <4>3. A = f[x] + B
        BY <4>1, <4>2
      <4> HIDE DEF A, B, P, Q
      <4> QED
        BY <2>3, <2>4, <2>5, <4>3
    <3>2. CASE x \notin T
      <4>1. s \cap T = r \cap T
        BY <3>2
      <4>2. A = B
        BY <4>1
      <4> HIDE DEF A, B, P, Q
      <4> QED
        BY <2>3, <2>4, <2>5, <4>2
    <3> QED
      BY <3>1, <3>2
  <2> QED
    BY <2>6
<1>3. SUBSET S \subseteq Good
  <2> HIDE DEF Good
  <2> QED
    BY <1>1, <1>2, SubsetInduction
<1>4. S \cap T = T
  OBVIOUS
<1> QED
  BY <1>3, <1>4

\* An element of which nothing is known to be in the set counts if it is.
LEMMA SumTakeOutOrNot ==
    ASSUME NEW S, IsFiniteSet(S), NEW f, \A x \in S : f[x] \in Int,
           NEW y, NEW v \in Int, IF y \in S THEN v = f[y] ELSE v = 0
    PROVE  SumFunctionOnSet(f, S) = v + SumFunctionOnSet(f, S \ {y})
<1>1. SumFunctionOnSet(f, S) \in Int
  BY SumInt
<1>2. CASE y \in S
  BY <1>2, SumTakeOut
<1>3. CASE y \notin S
  <2>1. S \ {y} = S /\ v = 0
    BY <1>3
  <2>2. SumFunctionOnSet(f, S \ {y}) = SumFunctionOnSet(f, S)
    BY <2>1
  <2> QED
    BY <1>1, <2>1, <2>2
<1> QED
  BY <1>2, <1>3

\* A sum over at most three elements, written out.
LEMMA SumOfThree ==
    ASSUME NEW x, NEW y, NEW z, x # y, x # z, y # z, NEW f, NEW g, NEW S \in SUBSET {x, y, z},
           \A i \in {x, y, z} : f[i] \in Int /\ (i \notin S => f[i] = 0),
           \A i \in S : g[i] = f[i]
    PROVE  SumFunctionOnSet(g, S) = f[x] + f[y] + f[z]
<1> DEFINE A == S \ {x}
           B == A \ {y}
<1>1. IsFiniteSet({x, y, z})
  <2>1. IsFiniteSet({x}) /\ {x, y, z} = ({x} \cup {y}) \cup {z}
    BY FS_Singleton
  <2>2. IsFiniteSet({x} \cup {y})
    BY <2>1, FS_AddElement
  <2> QED
    BY <2>1, <2>2, FS_AddElement
<1>2. IsFiniteSet(S) /\ IsFiniteSet(A) /\ IsFiniteSet(B)
  BY <1>1, FS_Subset
<1>3. SumFunctionOnSet(g, S) = f[x] + SumFunctionOnSet(g, A)
  <2>1. (\A i \in S : g[i] \in Int) /\ (IF x \in S THEN f[x] = g[x] ELSE f[x] = 0)
    OBVIOUS
  <2> QED
    BY <1>2, <2>1, SumTakeOutOrNot
<1>4. SumFunctionOnSet(g, A) = f[y] + SumFunctionOnSet(g, B)
  <2>1. (\A i \in A : g[i] \in Int) /\ (IF y \in A THEN f[y] = g[y] ELSE f[y] = 0)
    OBVIOUS
  <2> HIDE DEF A
  <2> QED
    BY <1>2, <2>1, SumTakeOutOrNot DEF B
<1>5. SumFunctionOnSet(g, B) = f[z] + SumFunctionOnSet(g, B \ {z})
  <2>1. (\A i \in B : g[i] \in Int) /\ (IF z \in B THEN f[z] = g[z] ELSE f[z] = 0)
    OBVIOUS
  <2> HIDE DEF B
  <2> QED
    BY <1>2, <2>1, SumTakeOutOrNot
<1>6. B \ {z} = {}
  OBVIOUS
<1>7. SumFunctionOnSet(g, B \ {z}) = 0
  BY <1>6, SumEmpty
<1> HIDE DEF A, B
<1> QED
  BY <1>3, <1>4, <1>5, <1>7

\* The terms are the same under other names.
LEMMA SumRenamed ==
    ASSUME NEW S, IsFiniteSet(S), NEW f, NEW g, NEW name,
           \A x \in S : f[x] \in Int /\ g[name[x]] = f[x],
           \A x, y \in S : name[x] = name[y] => x = y
    PROVE  SumFunctionOnSet(g, {name[x] : x \in S}) = SumFunctionOnSet(f, S)
<1> DEFINE Named(s) == {name[x] : x \in s}
           Good == {s \in SUBSET S : SumFunctionOnSet(g, Named(s)) = SumFunctionOnSet(f, s)}
<1>1. {} \in Good
  <2>1. Named({}) = {}
    OBVIOUS
  <2> QED
    BY <2>1, SumEmpty
<1>2. ASSUME NEW s \in SUBSET S, s # {}, \A x \in s : s \ {x} \in Good
      PROVE  s \in Good
  <2>1. PICK x \in s : TRUE
    BY <1>2
  <2> DEFINE r == s \ {x}
             T == Named(s)
  <2>2. IsFiniteSet(s) /\ IsFiniteSet(T) /\ name[x] \in T
    <3> DEFINE b == [y \in s |-> name[y]]
    <3>1. IsFiniteSet(s)
      BY FS_Subset
    <3>2. b \in [s -> T] /\ \A y \in T : \E z \in s : b[z] = y
      OBVIOUS
    <3>3. b \in Surjection(s, T)
      <4> HIDE DEF b, T
      <4> QED
        BY <3>2 DEF Surjection
    <3>4. IsFiniteSet(T)
      <4> HIDE DEF b, T
      <4> QED
        BY <3>1, <3>3, FS_Surjection
    <3> QED
      BY <2>1, <3>1, <3>4
  <2>3. T \ {name[x]} = Named(r)
    OBVIOUS
  <2>4. \A y \in T : g[y] \in Int
    OBVIOUS
  <2>5. SumFunctionOnSet(g, T) = g[name[x]] + SumFunctionOnSet(g, Named(r))
    <3>1. SumFunctionOnSet(g, T) = g[name[x]] + SumFunctionOnSet(g, T \ {name[x]})
      <4> HIDE DEF T
      <4> QED
        BY <2>2, <2>4, SumTakeOut
    <3> QED
      BY <2>3, <3>1
  <2>6. SumFunctionOnSet(f, s) = f[x] + SumFunctionOnSet(f, r)
    BY <2>2, SumTakeOut
  <2>7. g[name[x]] = f[x] /\ SumFunctionOnSet(g, Named(r)) = SumFunctionOnSet(f, r)
    BY <1>2
  <2> QED
    BY <2>5, <2>6, <2>7
<1>3. SUBSET S \subseteq Good
  <2> HIDE DEF Good
  <2> QED
    BY <1>1, <1>2, SubsetInduction
<1> QED
  BY <1>3

\* name takes the elements of S, with their values of f, one to one to those of T, with
\* the same values of g.
Carries(name, S, f, T, g) ==
    /\ \A x \in S : name[x] \in T /\ f[x] \in Int /\ g[name[x]] = f[x]
    /\ \A x, y \in S : name[x] = name[y] => x = y
    /\ \A t \in T : \E x \in S : name[x] = t

LEMMA SumCarried ==
    ASSUME NEW S, IsFiniteSet(S), NEW T, NEW f, NEW g, NEW name, Carries(name, S, f, T, g)
    PROVE  SumFunctionOnSet(g, T) = SumFunctionOnSet(f, S)
<1>1. T = {name[x] : x \in S}
  BY DEF Carries
<1>2. SumFunctionOnSet(g, {name[x] : x \in S}) = SumFunctionOnSet(f, S)
  <2>1. /\ \A x \in S : f[x] \in Int /\ g[name[x]] = f[x]
        /\ \A x, y \in S : name[x] = name[y] => x = y
    BY DEF Carries
  <2> QED
    BY <2>1, SumRenamed
<1> QED
  BY <1>1, <1>2

(* Products. *)

LEMMA Monotone ==
    ASSUME NEW y \in Nat, NEW u \in Int, NEW v \in Int, u <= v
    PROVE  y * u <= y * v
<1>1. v - u \in Nat /\ y * (v - u) \in Nat /\ y * (v - u) = y * v - y * u
  OBVIOUS
<1> QED
  BY <1>1

LEMMA Cancel ==
    ASSUME NEW k \in Nat \ {0}, NEW u \in Nat, NEW v \in Nat
    PROVE  (k * u <= k * v => u <= v) /\ (k * u < k * v => u < v)
<1>1. ASSUME v + 1 <= u PROVE k * v + k <= k * u
  <2>1. k * (v + 1) <= k * u
    BY <1>1, Monotone
  <2>2. k * (v + 1) = k * v + k
    OBVIOUS
  <2> QED
    BY <2>1, <2>2
<1>2. ASSUME v <= u PROVE k * v <= k * u
  BY <1>2, Monotone
<1>3. k * u \in Nat /\ k * v \in Nat
  OBVIOUS
<1> QED
  BY <1>1, <1>2, <1>3

\* Prices as quotients of two amounts are in order.
LEMMA PricesTransitive ==
    ASSUME NEW xa \in Nat \ {0}, NEW ya \in Nat \ {0}, NEW xb \in Nat \ {0},
           NEW yb \in Nat \ {0}, NEW xc \in Nat \ {0}, NEW yc \in Nat \ {0},
           xa * yb <= xb * ya, xb * yc <= xc * yb
    PROVE  /\ xa * yc <= xc * ya
           /\ xa * yb < xb * ya \/ xb * yc < xc * yb => xa * yc < xc * ya
<1>1. yc * (xa * yb) <= yc * (xb * ya) /\ ya * (xb * yc) <= ya * (xc * yb)
  <2>1. xa * yb \in Nat /\ xb * ya \in Nat /\ xb * yc \in Nat /\ xc * yb \in Nat
    OBVIOUS
  <2> QED
    BY <2>1, Monotone
<1>2. /\ yc * (xa * yb) = yb * (xa * yc) /\ ya * (xc * yb) = yb * (xc * ya)
      /\ yc * (xb * ya) = ya * (xb * yc)
  OBVIOUS
<1>3. xa * yc \in Nat /\ xc * ya \in Nat
  OBVIOUS
<1>4. yb * (xa * yc) <= yb * (xc * ya)
  <2> DEFINE p == yb * (xa * yc)
             q == yc * (xb * ya)
             s == yb * (xc * ya)
  <2>1. p <= q /\ q <= s /\ p \in Int /\ q \in Int /\ s \in Int
    BY <1>1, <1>2
  <2> HIDE DEF p, q, s
  <2>2. p <= s
    BY <2>1
  <2> QED
    BY <2>2 DEF p, s
<1>5. xa * yc <= xc * ya
  BY <1>3, <1>4, Cancel
<1>6. ASSUME xa * yb < xb * ya \/ xb * yc < xc * yb PROVE xa * yc < xc * ya
  <2>1. yc * (xa * yb) < yc * (xb * ya) \/ ya * (xb * yc) < ya * (xc * yb)
    <3>1. xa * yb \in Nat /\ xb * ya \in Nat /\ xb * yc \in Nat /\ xc * yb \in Nat
      OBVIOUS
    <3>2. yc * (xa * yb) >= yc * (xb * ya) => xa * yb >= xb * ya
      BY <3>1, Cancel
    <3>3. ya * (xb * yc) >= ya * (xc * yb) => xb * yc >= xc * yb
      BY <3>1, Cancel
    <3>4. /\ yc * (xa * yb) \in Int /\ yc * (xb * ya) \in Int
          /\ ya * (xb * yc) \in Int /\ ya * (xc * yb) \in Int
      BY <3>1
    <3> QED
      BY <1>6, <3>1, <3>2, <3>3, <3>4
  <2>2. yb * (xa * yc) < yb * (xc * ya)
    <3> DEFINE p == yb * (xa * yc)
               q == yc * (xb * ya)
               s == yb * (xc * ya)
    <3>1. p <= q /\ q <= s /\ p \in Int /\ q \in Int /\ s \in Int /\ (p < q \/ q < s)
      BY <1>1, <1>2, <2>1
    <3> HIDE DEF p, q, s
    <3>2. p < s
      BY <3>1
    <3> QED
      BY <3>2 DEF p, s
  <2> QED
    BY <1>3, <2>2, Cancel
<1> QED
  BY <1>5, <1>6

(* Sets in order. *)

\* The elements of S in the order R: the n-th is the one with n - 1 before it.
Ranking(S, R) ==
    [n \in 1 .. Cardinality(S) |->
        CHOOSE x \in S : Cardinality({y \in S : <<y, x>> \in R}) = n - 1]

IsStrictOrder(R, S) ==
    /\ \A x \in S : <<x, x>> \notin R
    /\ \A x, y, z \in S : <<x, y>> \in R /\ <<y, z>> \in R => <<x, z>> \in R
    /\ \A x, y \in S : x = y \/ <<x, y>> \in R \/ <<y, x>> \in R

\* Each has its place when R is a strict total order on the finite set S.
LEMMA RankedFacts ==
    ASSUME NEW S, IsFiniteSet(S), NEW R, IsStrictOrder(R, S)
    PROVE  /\ Cardinality(S) \in Nat
           /\ Ranking(S, R) \in [1 .. Cardinality(S) -> S]
           /\ \A n \in 1 .. Cardinality(S), x \in S :
                 <<x, Ranking(S, R)[n]>> \in R => \E k \in 1 .. n - 1 : Ranking(S, R)[k] = x
           /\ \A n \in 1 .. Cardinality(S) :
                 Cardinality({y \in S : <<y, Ranking(S, R)[n]>> \in R}) = n - 1
<1> DEFINE n == Cardinality(S)
           Below(x) == {y \in S : <<y, x>> \in R}
           T == 0 .. n - 1
           rank == [x \in S |-> Cardinality(Below(x))]
<1>0. /\ \A x \in S : <<x, x>> \notin R
      /\ \A x, y, z \in S : <<x, y>> \in R /\ <<y, z>> \in R => <<x, z>> \in R
      /\ \A x, y \in S : x = y \/ <<x, y>> \in R \/ <<y, x>> \in R
  BY DEF IsStrictOrder
<1>1. n \in Nat
  BY FS_CardinalityType
<1>2. IsFiniteSet(T) /\ Cardinality(T) = n
  <2> HIDE DEF n
  <2>1. n - 1 \in Int /\ 0 \in Int /\ (0 > n - 1 => n = 0)
    BY <1>1
  <2>2. IsFiniteSet(0 .. n - 1) /\ Cardinality(0 .. n - 1) = IF 0 > n - 1 THEN 0 ELSE n - 1 - 0 + 1
    BY <2>1, FS_Interval
  <2> QED
    BY <1>1, <2>1, <2>2
<1>3. ASSUME NEW x \in S
      PROVE  IsFiniteSet(Below(x)) /\ Cardinality(Below(x)) \in T
  <2>1. IsFiniteSet(S \ {x}) /\ Cardinality(S \ {x}) = n - 1
    BY FS_RemoveElement
  <2>2. Below(x) \in SUBSET (S \ {x})
    BY <1>0
  <2>3. IsFiniteSet(Below(x)) /\ Cardinality(Below(x)) <= n - 1
    <3> HIDE DEF Below, n
    <3>1. IsFiniteSet(Below(x)) /\ Cardinality(Below(x)) <= Cardinality(S \ {x})
      BY <2>1, <2>2, FS_Subset
    <3> QED
      BY <2>1, <3>1
  <2>4. Cardinality(Below(x)) \in Nat
    BY <2>3, FS_CardinalityType
  <2> QED
    BY <1>1, <2>3, <2>4
<1>4. ASSUME NEW x \in S, NEW y \in S, <<x, y>> \in R
      PROVE  Cardinality(Below(x)) # Cardinality(Below(y))
  <2>1. Below(x) \in SUBSET Below(y)
    BY <1>0, <1>4
  <2>2. x \in Below(y) /\ x \notin Below(x)
    BY <1>0, <1>4
  <2> QED
    BY <1>3, <2>1, <2>2, FS_Subset
<1>5. rank \in Injection(S, T)
  <2>1. rank \in [S -> T]
    BY <1>3
  <2>2. ASSUME NEW x \in S, NEW y \in S, rank[x] = rank[y] PROVE x = y
    <3>1. <<x, y>> \notin R /\ <<y, x>> \notin R
      BY <1>4, <2>2
    <3> QED
      BY <1>0, <3>1
  <2> QED
    BY <2>1, <2>2 DEF Injection, IsInjective
<1>6. rank \in Surjection(S, T)
  <2> HIDE DEF rank, T
  <2> QED
    BY <1>1, <1>2, <1>5, FS_Injection
<1>7. \A k \in 1 .. n : \E x \in S : Cardinality(Below(x)) = k - 1
  <2>1. \A t \in T : \E x \in S : rank[x] = t
    BY <1>6 DEF Surjection
  <2>2. \A k \in 1 .. n : k - 1 \in T
    BY <1>1
  <2> QED
    BY <2>1, <2>2
<1>8. /\ Ranking(S, R) \in [1 .. n -> S]
      /\ \A k \in 1 .. n : Cardinality(Below(Ranking(S, R)[k])) = k - 1
  BY <1>7 DEF Ranking
<1>9. ASSUME NEW k \in 1 .. n, NEW x \in S, <<x, Ranking(S, R)[k]>> \in R
      PROVE  \E j \in 1 .. k - 1 : Ranking(S, R)[j] = x
  <2> DEFINE y == Ranking(S, R)[k]
             j == Cardinality(Below(x)) + 1
  <2>1. y \in S /\ Cardinality(Below(y)) = k - 1 /\ <<x, y>> \in R
    BY <1>8, <1>9
  <2> HIDE DEF y
  <2>2. IsFiniteSet(Below(y)) /\ Cardinality(Below(x)) \in T /\ Cardinality(Below(y)) \in T
    BY <1>3, <2>1
  <2>3. Below(x) \in SUBSET Below(y)
    BY <1>0, <2>1
  <2>4. Cardinality(Below(x)) <= Cardinality(Below(y))
    <3> HIDE DEF Below
    <3> QED
      BY <2>2, <2>3, FS_Subset
  <2>5. Cardinality(Below(x)) # Cardinality(Below(y))
    BY <1>4, <2>1
  <2>6. j \in 1 .. k - 1 /\ j \in 1 .. n /\ j - 1 = Cardinality(Below(x))
    <3> HIDE DEF Below, n
    <3> QED
      BY <1>1, <2>1, <2>2, <2>4, <2>5
  <2> HIDE DEF j
  <2> DEFINE z == Ranking(S, R)[j]
  <2>7. z \in S /\ Cardinality(Below(z)) = j - 1
    BY <1>8, <2>6
  <2> HIDE DEF z
  <2>8. <<x, z>> \notin R /\ <<z, x>> \notin R
    BY <1>4, <2>6, <2>7
  <2>9. z = x
    BY <1>0, <2>7, <2>8
  <2> QED
    BY <2>6, <2>9 DEF z
<1> QED
  BY <1>1, <1>8, <1>9

LEMMA NumbersRanked ==
    ASSUME NEW S \in SUBSET Nat, IsFiniteSet(S)
    PROVE  /\ Cardinality(S) \in Nat
           /\ Ranking(S, {x \in S \X S : x[1] < x[2]}) \in [1 .. Cardinality(S) -> S]
           /\ \A n \in 1 .. Cardinality(S) :
                 Cardinality({y \in S : y < Ranking(S, {x \in S \X S : x[1] < x[2]})[n]})
                    = n - 1
<1> DEFINE R == {x \in S \X S : x[1] < x[2]}
<1>1. \A x, y \in S : <<x, y>> \in R <=> x < y
  OBVIOUS
<1>2. \A x \in S : <<x, x>> \notin R
  BY <1>1
<1>3. \A x, y, z \in S : <<x, y>> \in R /\ <<y, z>> \in R => <<x, z>> \in R
  BY <1>1
<1>4. \A x, y \in S : x = y \/ <<x, y>> \in R \/ <<y, x>> \in R
  <2>1. \A x, y \in S : x = y \/ x < y \/ y < x
    OBVIOUS
  <2> HIDE DEF R
  <2> QED
    BY <1>1, <2>1
<1> HIDE DEF R
<1>5. /\ Cardinality(S) \in Nat /\ Ranking(S, R) \in [1 .. Cardinality(S) -> S]
      /\ \A n \in 1 .. Cardinality(S) :
            Cardinality({y \in S : <<y, Ranking(S, R)[n]>> \in R}) = n - 1
  <2>1. IsStrictOrder(R, S)
    BY <1>2, <1>3, <1>4 DEF IsStrictOrder
  <2> QED
    BY <2>1, RankedFacts
<1>6. ASSUME NEW n \in 1 .. Cardinality(S)
      PROVE  {y \in S : <<y, Ranking(S, R)[n]>> \in R} = {y \in S : y < Ranking(S, R)[n]}
  <2> DEFINE z == Ranking(S, R)[n]
  <2>1. z \in S
    BY <1>5
  <2> HIDE DEF z
  <2>2. {y \in S : <<y, z>> \in R} = {y \in S : y < z}
    BY <1>1, <2>1
  <2> QED
    BY <2>2 DEF z
<1>7. \A n \in 1 .. Cardinality(S) : Cardinality({y \in S : y < Ranking(S, R)[n]}) = n - 1
  BY <1>5, <1>6
<1> QED
  BY <1>5, <1>7 DEF R

\* By the quotient of p and q, and by age among those of one quotient.
ByQuotient(S, p, q, age) ==
    {x \in S \X S : \/ p[x[1]] * q[x[2]] < p[x[2]] * q[x[1]]
                    \/ p[x[1]] * q[x[2]] = p[x[2]] * q[x[1]] /\ age[x[1]] < age[x[2]]}

LEMMA QuotientOrder ==
    ASSUME NEW S, NEW p, NEW q, NEW age,
           \A m \in S : p[m] \in Nat \ {0} /\ q[m] \in Nat \ {0} /\ age[m] \in Nat,
           \A a, b \in S : age[a] = age[b] => a = b
    PROVE  IsStrictOrder(ByQuotient(S, p, q, age), S)
<1> DEFINE R == ByQuotient(S, p, q, age)
<1>0. \A a, b \in S :
         <<a, b>> \in R <=> (p[a] * q[b] < p[b] * q[a]
                              \/ (p[a] * q[b] = p[b] * q[a] /\ age[a] < age[b]))
  BY DEF ByQuotient
<1> HIDE DEF R
<1>1. \A a, b \in S : p[a] * q[b] \in Nat
  OBVIOUS
<1>2. \A x \in S : <<x, x>> \notin R
  <2> TAKE x \in S
  <2> DEFINE u == p[x] * q[x]
  <2>1. u \in Nat /\ age[x] \in Nat /\ (<<x, x>> \in R <=> (u < u \/ (u = u /\ age[x] < age[x])))
    BY <1>0, <1>1
  <2> HIDE DEF u
  <2> QED
    BY <2>1
<1>3. ASSUME NEW a \in S, NEW b \in S, NEW c \in S, <<a, b>> \in R, <<b, c>> \in R
      PROVE  <<a, c>> \in R
  <2> DEFINE ab == p[a] * q[b]
             ba == p[b] * q[a]
             bc == p[b] * q[c]
             cb == p[c] * q[b]
             ac == p[a] * q[c]
             ca == p[c] * q[a]
  <2>1. /\ ab \in Nat /\ ba \in Nat /\ bc \in Nat /\ cb \in Nat /\ ac \in Nat /\ ca \in Nat
        /\ age[a] \in Nat /\ age[b] \in Nat /\ age[c] \in Nat
    BY <1>1
  <2>2. /\ <<a, b>> \in R <=> (ab < ba \/ (ab = ba /\ age[a] < age[b]))
        /\ <<b, c>> \in R <=> (bc < cb \/ (bc = cb /\ age[b] < age[c]))
        /\ <<a, c>> \in R <=> (ac < ca \/ (ac = ca /\ age[a] < age[c]))
    BY <1>0
  <2>3. ab <= ba /\ bc <= cb => ac <= ca /\ (ab < ba \/ bc < cb => ac < ca)
    <3>1. /\ p[a] \in Nat \ {0} /\ q[a] \in Nat \ {0} /\ p[b] \in Nat \ {0}
          /\ q[b] \in Nat \ {0} /\ p[c] \in Nat \ {0} /\ q[c] \in Nat \ {0}
      OBVIOUS
    <3> QED
      BY <3>1, PricesTransitive
  <2> HIDE DEF ab, ba, bc, cb, ac, ca
  <2> QED
    BY <1>3, <2>1, <2>2, <2>3
<1>4. ASSUME NEW a \in S, NEW b \in S, a # b
      PROVE  <<a, b>> \in R \/ <<b, a>> \in R
  <2> DEFINE ab == p[a] * q[b]
             ba == p[b] * q[a]
             u == age[a]
             v == age[b]
  <2>1. ab \in Nat /\ ba \in Nat /\ u \in Nat /\ v \in Nat /\ u # v
    BY <1>1, <1>4
  <2>2. /\ <<a, b>> \in R <=> (ab < ba \/ (ab = ba /\ u < v))
        /\ <<b, a>> \in R <=> (ba < ab \/ (ba = ab /\ v < u))
    BY <1>0
  <2> HIDE DEF ab, ba, u, v
  <2> QED
    BY <2>1, <2>2
<1> QED
  BY <1>2, <1>3, <1>4 DEF IsStrictOrder, R

=============================================================================
