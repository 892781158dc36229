---- MODULE SumTheorems ----
(***************************************************************************)
(* What the proofs of this project use of sums over finite sets: the       *)
(* operator SumFunction of the community modules, unfolded once and for    *)
(* all.  Nothing here is about the cache.                                  *)
(*                                                                         *)
(* Induction is stated with sets instead of predicates: a set of numbers   *)
(* is Nat, a set of subsets is the power set.  Both come down to the fact  *)
(* that a non-empty set of numbers has a least element.                    *)
(***************************************************************************)
EXTENDS Integers, Functions, FiniteSetTheorems, WellFoundedInduction, TLAPS

\* A non-empty set of natural numbers has a least element.
LEMMA Least ==
  ASSUME NEW T, T \subseteq Nat, T # {}
  PROVE  \E n \in T : \A m \in T : n <= m
<1> DEFINE R == {p \in Nat \X Nat : p[1] < p[2]}
<1>1. IsWellFoundedOn(R, Nat)
  BY NatLessThanWellFounded, Zenon DEF OpToRel
<1> HIDE DEF R
<1>2. PICK n \in T : \A m \in T : ~(<<m, n>> \in R)
  BY <1>1, WFMin
<1>3. ASSUME NEW m \in T, m < n PROVE <<m, n>> \in R
  <2>1. <<m, n>> \in Nat \X Nat /\ <<m, n>>[1] < <<m, n>>[2]
    BY <1>3
  <2>2. QED BY <2>1, Zenon DEF R
<1>4. ASSUME NEW m \in T PROVE n <= m
  <2>1. m \in Nat /\ n \in Nat
    OBVIOUS
  <2>2. ~(m < n)
    BY <1>2, <1>3
  <2>3. QED BY <2>1, <2>2
<1>5. QED BY <1>4

\* A set of numbers that has 0, and the successor of each of its members up to
\* a bound, has all numbers up to that bound.
LEMMA AllUpTo ==
  ASSUME NEW N \in Nat, NEW A,
         0 \in A, \A n \in 0..(N - 1) : n \in A => n + 1 \in A
  PROVE  0..N \subseteq A
<1> DEFINE T == (0..N) \ A
<1>1. SUFFICES ASSUME T # {} PROVE FALSE
  OBVIOUS
<1>0. T \subseteq Nat
  OBVIOUS
<1>2. PICK n \in T : \A m \in T : n <= m
  <2> HIDE DEF T
  <2>1. QED BY <1>0, <1>1, Least
<1>3. n # 0 /\ n \in 1..N
  BY <1>2
<1>4. n - 1 \in 0..(N - 1) /\ n - 1 \in A
  BY <1>2, <1>3
<1>5. QED BY <1>2, <1>3, <1>4

\* A set of subsets that has every subset whose parts with one element less it
\* has is the power set.
LEMMA AllSubsets ==
  ASSUME NEW S, IsFiniteSet(S), NEW A,
         \A s \in SUBSET S : (\A x \in s : s \ {x} \in A) => s \in A
  PROVE  SUBSET S \subseteq A
<1> DEFINE B == (SUBSET S) \ A
           T == {Cardinality(s) : s \in B}
<1>1. SUFFICES ASSUME T # {} PROVE FALSE
  OBVIOUS
<1>2. \A s \in SUBSET S : IsFiniteSet(s) /\ Cardinality(s) \in Nat
  BY FS_Subset, FS_CardinalityType
<1>3. T \subseteq Nat
  BY <1>2
<1>4. PICK n \in T : \A m \in T : n <= m
  BY <1>1, <1>3, Least
<1>5. PICK s \in B : Cardinality(s) = n
  BY <1>4
<1>6. ASSUME NEW x \in s PROVE s \ {x} \in A
  <2>1. Cardinality(s \ {x}) = Cardinality(s) - 1
    BY <1>2, FS_RemoveElement
  <2>2. s \ {x} \in SUBSET S
    OBVIOUS
  <2>3. s \ {x} \in A \/ s \ {x} \in B
    BY <2>2
  <2>4. s \ {x} \in B => Cardinality(s \ {x}) \in T
    <3> HIDE DEF B
    <3>1. QED OBVIOUS
  <2>5. n \in Nat /\ Cardinality(s \ {x}) < n
    BY <1>2, <1>5, <2>1
  <2>6. Cardinality(s \ {x}) \in Nat
    BY <1>2, <2>2
  <2> HIDE DEF T
  <2>7. QED BY <1>4, <2>3, <2>4, <2>5, <2>6
<1>7. QED BY <1>5, <1>6

----
(* The recursive function inside SumFunction.                              *)

\* What the fold takes out of a set.
Pick(s) == CHOOSE x \in s : TRUE

\* One level of the fold.
FoldLevel(f, g, s) == IF s = {} THEN 0 ELSE f[Pick(s)] + g[s \ {Pick(s)}]

FoldLevels(g, f, S) == \A s \in SUBSET S : g[s] = FoldLevel(f, g, s)

\* The partial sums of f, by subset of its domain.
PartialSums(f) ==
  CHOOSE g : g = [s \in SUBSET DOMAIN f |-> FoldLevel(f, g, s)]

LEMMA PickIsIn == \A s : s # {} => Pick(s) \in s
BY DEF Pick

\* SumFunction is the partial sum of the whole domain.
LEMMA SumUnfolds == \A f : SumFunction(f) = PartialSums(f)[DOMAIN f]
BY DEF SumFunction, SumFunctionOnSet, FoldFunctionOnSet, MapThenFoldSet,
       PartialSums, FoldLevel, Pick

Small(whole, n) == {part \in SUBSET whole : Cardinality(part) <= n}

\* A function with the equations of PartialSums exists.
LEMMA PartialSumsExist ==
  ASSUME NEW S, IsFiniteSet(S), NEW f \in [S -> Nat]
  PROVE  \E g \in [SUBSET S -> Nat] : FoldLevels(g, f, S)
<1> DEFINE N == Cardinality(S)
           Has(n) == \E g \in [Small(S, n) -> Nat] :
                       \A s \in Small(S, n) : g[s] = FoldLevel(f, g, s)
           A == {n \in 0..N : Has(n)}
<1>1. N \in Nat
  BY FS_CardinalityType
<1>2. \A s \in SUBSET S : IsFiniteSet(s) /\ Cardinality(s) \in Nat /\ Cardinality(s) <= N
  BY FS_Subset, FS_CardinalityType
<1>3. 0 \in A
  <2> DEFINE g == [s \in Small(S, 0) |-> 0]
  <2>1. \A s \in Small(S, 0) : s = {}
    BY <1>2, FS_EmptySet DEF Small
  <2>2. \A s \in Small(S, 0) : g[s] = FoldLevel(f, g, s)
    BY <2>1 DEF FoldLevel
  <2>3. g \in [Small(S, 0) -> Nat]
    OBVIOUS
  <2>4. Has(0)
    BY <2>2, <2>3
  <2>5. QED BY <1>1, <2>4
<1>4. ASSUME NEW n \in 0..(N - 1), n \in A PROVE n + 1 \in A
  <2>1. PICK g \in [Small(S, n) -> Nat] : \A s \in Small(S, n) : g[s] = FoldLevel(f, g, s)
    BY <1>4
  <2> DEFINE h == [s \in Small(S, n + 1) |-> FoldLevel(f, g, s)]
  <2>2. ASSUME NEW s \in Small(S, n + 1), s # {}
        PROVE  s \ {Pick(s)} \in Small(S, n) /\ Pick(s) \in S
    <3>1. Pick(s) \in s /\ s \in SUBSET S
      BY <2>2, PickIsIn DEF Small
    <3>2. Cardinality(s \ {Pick(s)}) = Cardinality(s) - 1
      BY <1>2, <3>1, FS_RemoveElement
    <3>3. Cardinality(s) \in Nat /\ Cardinality(s) <= n + 1
      BY <1>2, <3>1 DEF Small
    <3>4. Cardinality(s \ {Pick(s)}) <= n
      BY <3>2, <3>3
    <3>5. QED BY <3>1, <3>4 DEF Small
  <2>3. \A s \in Small(S, n + 1) : FoldLevel(f, g, s) \in Nat
    BY <2>2 DEF FoldLevel
  <2>4. \A s \in Small(S, n) : s \in Small(S, n + 1) /\ h[s] = g[s]
    BY <1>2, <2>1 DEF Small
  <2>5. \A s \in Small(S, n + 1) : h[s] = FoldLevel(f, h, s)
    BY <2>2, <2>4 DEF FoldLevel
  <2>6. h \in [Small(S, n + 1) -> Nat]
    BY <2>3
  <2>7. Has(n + 1)
    BY <2>5, <2>6
  <2>8. QED BY <1>1, <2>7
<1>5. N \in A
  <2> HIDE DEF A
  <2>1. 0..N \subseteq A
    BY <1>1, <1>3, <1>4, AllUpTo
  <2>2. QED BY <1>1, <2>1
<1>6. Small(S, N) = SUBSET S
  BY <1>2 DEF Small
<1>7. QED BY <1>5, <1>6 DEF FoldLevels

\* There is only one.
LEMMA LevelsAgree ==
  ASSUME NEW S, IsFiniteSet(S), NEW f, NEW u, NEW v, FoldLevels(u, f, S), FoldLevels(v, f, S)
  PROVE  \A s \in SUBSET S : u[s] = v[s]
<1> DEFINE A == {s \in SUBSET S : u[s] = v[s]}
<1>1. ASSUME NEW s \in SUBSET S, \A x \in s : s \ {x} \in A
      PROVE  s \in A
  <2>1. u[s] = FoldLevel(f, u, s) /\ v[s] = FoldLevel(f, v, s)
    BY DEF FoldLevels
  <2>2. s # {} => u[s \ {Pick(s)}] = v[s \ {Pick(s)}]
    BY <1>1, PickIsIn
  <2>3. QED BY <2>1, <2>2 DEF FoldLevel
<1>2. SUBSET S \subseteq A
  <2> HIDE DEF A
  <2>1. QED BY <1>1, AllSubsets
<1>3. QED BY <1>2

\* The equations of a sum, with any element taken out of a set.
SumsUp(g, f, S) ==
  /\ g[{}] = 0
  /\ \A s \in SUBSET S : \A x \in s : g[s] = f[x] + g[s \ {x}]

LEMMA AnyElementFirst ==
  ASSUME NEW S, IsFiniteSet(S), NEW f \in [S -> Nat]
  PROVE  PartialSums(f) \in [SUBSET S -> Nat] /\ SumsUp(PartialSums(f), f, S)
<1> DEFINE g == PartialSums(f)
           A == {s \in SUBSET S : \A x \in s : g[s] = f[x] + g[s \ {x}]}
<1>1. g \in [SUBSET S -> Nat] /\ g = [s \in SUBSET S |-> FoldLevel(f, g, s)]
  <2>1. PICK h \in [SUBSET S -> Nat] : FoldLevels(h, f, S)
    BY PartialSumsExist, Zenon
  <2>2. h = [s \in SUBSET DOMAIN f |-> FoldLevel(f, h, s)]
    BY <2>1 DEF FoldLevels
  <2>3. g = [s \in SUBSET DOMAIN f |-> FoldLevel(f, g, s)]
    BY <2>2, Zenon DEF PartialSums
  <2>4. g = [s \in SUBSET S |-> FoldLevel(f, g, s)]
    BY <2>3
  <2> HIDE DEF g
  <2>5. FoldLevels(g, f, S)
    BY <2>4 DEF FoldLevels
  <2>6. \A s \in SUBSET S : g[s] = h[s]
    BY <2>1, <2>5, LevelsAgree
  <2>7. \A s \in SUBSET S : g[s] \in Nat
    BY <2>1, <2>6
  <2>8. QED BY <2>4, <2>7
<1> HIDE DEF g
<1>2. g[{}] = 0
  BY <1>1 DEF FoldLevel
<1>3. ASSUME NEW s \in SUBSET S, \A x \in s : s \ {x} \in A
      PROVE  s \in A
  <2>1. SUFFICES ASSUME NEW x \in s PROVE g[s] = f[x] + g[s \ {x}]
    OBVIOUS
  <2> DEFINE y == Pick(s)
  <2>2. y \in s
    BY <2>1, PickIsIn
  <2>3. g[s] = f[y] + g[s \ {y}]
    BY <1>1, <2>1 DEF FoldLevel
  <2> HIDE DEF y
  <2>4. CASE x = y
    BY <2>3, <2>4
  <2>5. CASE x # y
    <3>1. g[s \ {y}] = f[x] + g[(s \ {y}) \ {x}]
      BY <1>3, <2>2, <2>5
    <3>2. g[s \ {x}] = f[y] + g[(s \ {x}) \ {y}]
      BY <1>3, <2>2, <2>5
    <3>3. (s \ {y}) \ {x} = (s \ {x}) \ {y}
      OBVIOUS
    <3>4. (s \ {y}) \ {x} \in SUBSET S /\ x \in S /\ y \in S
      BY <2>2
    <3>5. g[(s \ {y}) \ {x}] \in Nat /\ f[x] \in Nat /\ f[y] \in Nat
      BY <1>1, <3>4
    <3>6. QED BY <2>3, <3>1, <3>2, <3>3, <3>5
  <2>6. QED BY <2>4, <2>5
<1>4. SUBSET S \subseteq A
  <2> HIDE DEF A
  <2>1. QED BY <1>3, AllSubsets
<1>5. QED BY <1>1, <1>2, <1>4 DEF g, SumsUp

----
(* The sum of a function with natural values, and what changes it.         *)

\* Whatever satisfies the equations of a sum is the sum.
LEMMA SumIs ==
  ASSUME NEW S, IsFiniteSet(S), NEW f \in [S -> Nat],
         NEW v, SumsUp(v, f, S)
  PROVE  SumFunction(f) = v[S]
<1> DEFINE g == PartialSums(f)
           A == {s \in SUBSET S : g[s] = v[s]}
<1>1. SumsUp(g, f, S)
  BY AnyElementFirst, Zenon
<1>2. SumFunction(f) = g[S]
  BY SumUnfolds
<1> HIDE DEF g
<1>3. ASSUME NEW s \in SUBSET S, \A x \in s : s \ {x} \in A
      PROVE  s \in A
  <2>1. CASE s = {}
    BY <1>1, <2>1 DEF SumsUp
  <2>2. ASSUME NEW x \in s
        PROVE  g[s] = v[s]
    <3>1. g[s] = f[x] + g[s \ {x}] /\ v[s] = f[x] + v[s \ {x}]
      BY <1>1 DEF SumsUp
    <3>2. g[s \ {x}] = v[s \ {x}]
      BY <1>3
    <3>3. QED BY <3>1, <3>2
  <2>3. QED BY <2>1, <2>2
<1>4. SUBSET S \subseteq A
  <2> HIDE DEF A
  <2>1. QED BY <1>3, AllSubsets
<1>5. QED BY <1>2, <1>4

LEMMA SumType ==
  ASSUME NEW S, IsFiniteSet(S), NEW f \in [S -> Nat]
  PROVE  SumFunction(f) \in Nat
<1>1. PartialSums(f) \in [SUBSET S -> Nat]
  BY AnyElementFirst, Zenon
<1>2. QED BY <1>1, SumUnfolds

LEMMA SumOfZeros ==
  ASSUME NEW S, IsFiniteSet(S)
  PROVE  SumFunction([x \in S |-> 0]) = 0
<1> DEFINE v == [s \in SUBSET S |-> 0]
<1>1. SumsUp(v, [x \in S |-> 0], S)
  BY DEF SumsUp
<1>2. [x \in S |-> 0] \in [S -> Nat]
  OBVIOUS
<1>3. SumFunction([x \in S |-> 0]) = v[S]
  <2> HIDE DEF v
  <2>1. QED BY <1>1, <1>2, SumIs, Zenon
<1>4. QED BY <1>3

\* A change at one place changes the sum by as much.
LEMMA SumChanges ==
  ASSUME NEW S, IsFiniteSet(S), NEW f \in [S -> Nat], NEW h \in [S -> Nat],
         NEW x \in S, \A y \in S : y # x => h[y] = f[y]
  PROVE  SumFunction(h) = SumFunction(f) + (h[x] - f[x])
<1> DEFINE g == PartialSums(f)
           v == [s \in SUBSET S |-> IF x \in s THEN g[s] + (h[x] - f[x]) ELSE g[s]]
<1>1. /\ g \in [SUBSET S -> Nat]
      /\ SumsUp(g, f, S)
      /\ SumFunction(f) = g[S]
  BY AnyElementFirst, SumUnfolds, Zenon
<1> HIDE DEF g
<1>2. v[{}] = 0
  BY <1>1 DEF SumsUp
<1>3. ASSUME NEW s \in SUBSET S, NEW y \in s
      PROVE  v[s] = h[y] + v[s \ {y}]
  <2>1. g[s] = f[y] + g[s \ {y}] /\ g[s] \in Nat /\ g[s \ {y}] \in Nat
    BY <1>1 DEF SumsUp
  <2>2. h[x] \in Nat /\ f[x] \in Nat /\ f[y] \in Nat /\ (y # x => h[y] = f[y])
    OBVIOUS
  <2>3. CASE y = x
    BY <2>1, <2>2, <2>3
  <2>4. CASE y # x
    BY <2>1, <2>2, <2>4
  <2>5. QED BY <2>3, <2>4
<1>4. SumFunction(h) = v[S]
  <2> HIDE DEF v
  <2>1. SumsUp(v, h, S)
    BY <1>2, <1>3 DEF SumsUp
  <2>2. QED BY <2>1, SumIs, Zenon
<1>5. QED BY <1>1, <1>4

\* The sum of sums.
LEMMA SumAdds ==
  ASSUME NEW S, IsFiniteSet(S), NEW f \in [S -> Nat], NEW k \in [S -> Nat]
  PROVE  SumFunction([x \in S |-> f[x] + k[x]]) = SumFunction(f) + SumFunction(k)
<1> DEFINE g == PartialSums(f)
           l == PartialSums(k)
           h == [x \in S |-> f[x] + k[x]]
           v == [s \in SUBSET S |-> g[s] + l[s]]
<1>1. /\ g \in [SUBSET S -> Nat]
      /\ SumsUp(g, f, S)
      /\ SumFunction(f) = g[S]
  BY AnyElementFirst, SumUnfolds, Zenon
<1>2. /\ l \in [SUBSET S -> Nat]
      /\ SumsUp(l, k, S)
      /\ SumFunction(k) = l[S]
  BY AnyElementFirst, SumUnfolds, Zenon
<1> HIDE DEF g, l
<1>3. v[{}] = 0
  BY <1>1, <1>2 DEF SumsUp
<1>4. ASSUME NEW s \in SUBSET S, NEW y \in s
      PROVE  v[s] = h[y] + v[s \ {y}]
  <2>1. g[s] = f[y] + g[s \ {y}] /\ l[s] = k[y] + l[s \ {y}]
    BY <1>1, <1>2 DEF SumsUp
  <2>2. /\ f[y] \in Nat /\ k[y] \in Nat /\ s \ {y} \in SUBSET S
        /\ g[s \ {y}] \in Nat /\ l[s \ {y}] \in Nat
    BY <1>1, <1>2
  <2>3. QED BY <2>1, <2>2
<1>5. h \in [S -> Nat]
  OBVIOUS
<1>6. SumFunction(h) = v[S]
  <2> HIDE DEF v, h
  <2>1. SumsUp(v, h, S)
    BY <1>3, <1>4 DEF SumsUp
  <2>2. QED BY <1>5, <2>1, SumIs, Zenon
<1>7. QED BY <1>1, <1>2, <1>6

\* The sum of a function that is nowhere greater is not greater.
LEMMA SumIsMonotonic ==
  ASSUME NEW S, IsFiniteSet(S), NEW f \in [S -> Nat], NEW h \in [S -> Nat],
         \A x \in S : f[x] <= h[x]
  PROVE  SumFunction(f) <= SumFunction(h)
<1> DEFINE k == [x \in S |-> h[x] - f[x]]
<1>1. k \in [S -> Nat]
  OBVIOUS
<1>2. h = [x \in S |-> f[x] + k[x]]
  OBVIOUS
<1> HIDE DEF k
<1>3. SumFunction(h) = SumFunction(f) + SumFunction(k)
  BY <1>1, <1>2, SumAdds
<1>4. SumFunction(f) \in Nat /\ SumFunction(k) \in Nat
  BY <1>1, SumType
<1>5. QED BY <1>3, <1>4

----
(* Greatest elements and quotients.                                        *)

\* A finite set of numbers has a greatest element.
LEMMA Greatest ==
  ASSUME NEW S, S \subseteq Nat, IsFiniteSet(S), S # {}
  PROVE  \E n \in S : \A m \in S : m <= n
<1> DEFINE HasGreatest(s) == \E n \in s : \A m \in s : m <= n
           A == {s \in SUBSET S : s = {} \/ HasGreatest(s)}
<1>1. ASSUME NEW s \in SUBSET S, \A x \in s : s \ {x} \in A
      PROVE  s \in A
  <2>1. SUFFICES ASSUME NEW x \in s PROVE HasGreatest(s)
    OBVIOUS
  <2>2. CASE s \ {x} = {}
    BY <2>2
  <2>3. ASSUME NEW n \in s \ {x}, \A m \in s \ {x} : m <= n
        PROVE  HasGreatest(s)
    <3>1. n \in Nat /\ x \in Nat /\ \A m \in s : m \in Nat
      OBVIOUS
    <3>2. CASE x <= n
      BY <2>3, <3>2
    <3>3. CASE ~(x <= n)
      BY <2>3, <3>1, <3>3
    <3>4. QED BY <3>2, <3>3
  <2>4. QED BY <1>1, <2>2, <2>3
<1>2. SUBSET S \subseteq A
  <2> HIDE DEF A
  <2>1. QED BY <1>1, AllSubsets
<1>3. QED BY <1>2

LEMMA QuotientBounds ==
  ASSUME NEW a \in Nat, NEW n \in Nat \ {0}
  PROVE  a \div n \in Nat /\ n * (a \div n) <= a /\ a < n * (a \div n) + n
OBVIOUS

LEMMA SmallerFactor ==
  ASSUME NEW n \in Nat \ {0}, NEW q \in Nat, NEW r \in Nat
  PROVE  /\ n * q <= n * r => q <= r
         /\ n * q < n * r => q < r
OBVIOUS

\* Two shares of a hundred that make up a part of n make up a part of a hundred;
\* rounding takes off less than one of each.
LEMMA TwoShares ==
  ASSUME NEW n \in Nat \ {0}, NEW a \in Nat, NEW b \in Nat, a + b <= n
  PROVE  /\ (a * 100) \div n + (b * 100) \div n <= 100
         /\ a + b = n => (a * 100) \div n + (b * 100) \div n >= 99
<1> DEFINE p == (a * 100) \div n
           q == (b * 100) \div n
<1>1. /\ p \in Nat /\ n * p <= a * 100 /\ a * 100 < n * p + n
      /\ q \in Nat /\ n * q <= b * 100 /\ b * 100 < n * q + n
  BY QuotientBounds
<1> HIDE DEF p, q
<1>2. n * p \in Nat /\ n * q \in Nat /\ n * (p + q) = n * p + n * q
  BY <1>1
<1>3. n * (p + q + 2) = n * p + n * q + n + n
  BY <1>1
<1>4. n * (p + q) <= n * 100
  BY <1>1, <1>2
<1>5. p + q <= 100
  BY <1>1, <1>4, SmallerFactor
<1>6. ASSUME a + b = n PROVE p + q >= 99
  <2>1. n * 100 < n * (p + q + 2)
    BY <1>1, <1>2, <1>3, <1>6
  <2>2. 100 < p + q + 2
    BY <1>1, <2>1, SmallerFactor
  <2>3. QED BY <1>1, <2>2
<1>7. QED BY <1>5, <1>6 DEF p, q
----
(* Sorting.                                                                *)

\* The elements of a sequence of numbers come in the order of their ranks.
LEMMA SomeOrderSorts ==
  ASSUME NEW n \in Nat, NEW s \in [1..n -> Int]
  PROVE  \E from \in Bijection(1..n, 1..n) :
           \A i, j \in 1..n : i <= j => s[from[i]] <= s[from[j]]
<1> DEFINE S == 1..n
           Ahead(i) == {j \in S : s[j] < s[i] \/ (s[j] = s[i] /\ j <= i)}
           rank == [i \in S |-> Cardinality(Ahead(i))]
<1>1. IsFiniteSet(S) /\ Cardinality(S) = n
  BY FS_Interval
<1>2. ASSUME NEW i \in S
      PROVE  IsFiniteSet(Ahead(i)) /\ Cardinality(Ahead(i)) \in 1..n
  <2>1. Ahead(i) \in SUBSET S /\ i \in Ahead(i)
    OBVIOUS
  <2> HIDE DEF Ahead, S
  <2>2. IsFiniteSet(Ahead(i)) /\ Cardinality(Ahead(i)) <= n
    BY <1>1, <2>1, FS_Subset
  <2>3. Cardinality(Ahead(i)) \in Nat /\ Cardinality(Ahead(i)) # 0
    BY <2>1, <2>2, FS_CardinalityType, FS_EmptySet
  <2>4. QED BY <2>2, <2>3
<1>3. ASSUME NEW i \in S, NEW j \in S, s[i] < s[j] \/ (s[i] = s[j] /\ i < j)
      PROVE  rank[i] < rank[j]
  <2>1. Ahead(i) \subseteq Ahead(j) /\ j \in Ahead(j) /\ j \notin Ahead(i)
    BY <1>3
  <2>2. rank[i] = Cardinality(Ahead(i)) /\ rank[j] = Cardinality(Ahead(j))
    OBVIOUS
  <2> HIDE DEF Ahead, rank
  <2>3. Cardinality(Ahead(i)) <= Cardinality(Ahead(j)) /\ Cardinality(Ahead(i)) # Cardinality(Ahead(j))
    BY <1>2, <2>1, FS_Subset
  <2>4. QED BY <1>2, <2>2, <2>3
<1>4. rank \in [S -> S]
  BY <1>2
<1>5. \A i, j \in S : rank[i] = rank[j] => i = j
  <2> SUFFICES ASSUME NEW i \in S, NEW j \in S, i # j PROVE rank[i] # rank[j]
    OBVIOUS
  <2>1. s[i] \in Int /\ s[j] \in Int /\ i \in Int /\ j \in Int
    OBVIOUS
  <2>2. rank[i] \in Int /\ rank[j] \in Int
    BY <1>4
  <2> HIDE DEF rank, S
  <2>3. \/ s[i] < s[j] \/ (s[i] = s[j] /\ i < j)
        \/ s[j] < s[i] \/ (s[j] = s[i] /\ j < i)
    BY <2>1
  <2>4. rank[i] < rank[j] \/ rank[j] < rank[i]
    BY <1>3, <2>3
  <2>5. QED BY <2>2, <2>4
<1> HIDE DEF rank
<1>6. rank \in Surjection(S, S)
  <2>1. rank \in Injection(S, S)
    BY <1>4, <1>5 DEF Injection, IsInjective
  <2>2. QED BY <1>1, <2>1, FS_Injection
<1>7. \A k \in S : \E i \in S : rank[i] = k
  BY <1>6 DEF Surjection
<1> DEFINE from == [k \in S |-> CHOOSE i \in S : rank[i] = k]
<1>8. \A k \in S : from[k] \in S /\ rank[from[k]] = k
  BY <1>7
<1>9. from \in Bijection(S, S)
  <2>1. from \in [S -> S]
    BY <1>8
  <2>2. \A k, l \in S : from[k] = from[l] => k = l
    BY <1>8, Zenon
  <2>3. \A i \in S : \E k \in S : from[k] = i
    BY <1>4, <1>5, <1>8
  <2> HIDE DEF from
  <2>4. QED BY <2>1, <2>2, <2>3 DEF Bijection, Injection, Surjection, IsInjective
<1> HIDE DEF from
<1>10. ASSUME NEW k \in S, NEW l \in S, k <= l PROVE s[from[k]] <= s[from[l]]
  <2>1. from[k] \in S /\ from[l] \in S /\ rank[from[k]] = k /\ rank[from[l]] = l
    BY <1>8
  <2>2. s[from[k]] \in Int /\ s[from[l]] \in Int
    BY <2>1
  <2>3. s[from[l]] < s[from[k]] => l < k
    BY <1>3, <2>1
  <2>4. k \in Int /\ l \in Int
    OBVIOUS
  <2>5. QED BY <1>10, <2>2, <2>3, <2>4
<1>11. QED BY <1>9, <1>10

====
