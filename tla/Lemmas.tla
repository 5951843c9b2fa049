-------------------------------- MODULE Lemmas --------------------------------
(***************************************************************************)
(* What the proofs of several components share: induction over the natural *)
(* numbers and over finite sets, stated of sets so that it can be cited,   *)
(* functions defined by recursion, sums, sub-lists, and arithmetic modulo  *)
(* a number.                                                               *)
(***************************************************************************)
EXTENDS Integers, Sequences, FiniteSets, FiniteSetsExt, Functions, Picking,
        FiniteSetTheorems, SequenceTheorems, WellFoundedInduction, TLAPS

-------------------------------------------------------------------------------
(* Remainders.                                                             *)

\* Quotient and remainder recompose an integer.
LEMMA DivMod ==
  ASSUME NEW x \in Int, NEW m \in Nat \ {0}
  PROVE  /\ x = m * (x \div m) + (x % m)
         /\ x \div m \in Int
         /\ x % m \in 0 .. m - 1
BY Z3

\* A multiple of m strictly between -m and m is zero.
LEMMA SmallMultiple ==
  ASSUME NEW m \in Nat \ {0}, NEW k \in Int, NEW d \in Int,
         d = m * k, -m < d, d < m
  PROVE  k = 0
BY Z3

\* Less than m apart, equal remainders are those of equal numbers.
LEMMA SameRemainder ==
  ASSUME NEW m \in Nat \ {0}, NEW a \in Int, NEW b \in Int,
         -m < a - b, a - b < m, a % m = b % m
  PROVE  a = b
<1> DEFINE qa == a \div m
           qb == b \div m
           s  == a % m
<1>1. /\ a = m * qa + s /\ qa \in Int /\ s \in Int
      /\ b = m * qb + s /\ qb \in Int
  BY DivMod
<1>2. qa - qb \in Int /\ a - b = m * (qa - qb)
  <2> HIDE DEF qa, qb, s
  <2> QED
    BY <1>1, Z3
<1> DEFINE k == qa - qb
<1>3. k \in Int /\ a - b = m * k
  BY <1>2
<1> HIDE DEF k
<1>4. a - b = 0
  BY <1>3, SmallMultiple
<1> QED
  BY <1>4

\* The difference of two numbers less than h apart is the one their remainders
\* modulo 2 * h have in -h .. h - 1.
LEMMA SignedRemainder ==
  ASSUME NEW h \in Nat \ {0}, NEW a \in Int, NEW b \in Int, a - b \in -h .. h - 1
  PROVE  (((a % (2 * h)) - (b % (2 * h)) + h) % (2 * h)) - h = a - b
<1>1. PICK m : m = 2 * h /\ m \in Nat \ {0}
  OBVIOUS
<1> DEFINE qa == a \div m
           qb == b \div m
           sa == a % m
           sb == b % m
           z == (sa - sb) + h
           qz == z \div m
           r == z % m
           t == (a - b) + h
<1>2. /\ a = m * qa + sa /\ qa \in Int /\ sa \in Int
      /\ b = m * qb + sb /\ qb \in Int /\ sb \in Int
  <2>1. a = m * qa + sa /\ qa \in Int /\ sa \in 0 .. m - 1
    BY <1>1, DivMod
  <2>2. b = m * qb + sb /\ qb \in Int /\ sb \in 0 .. m - 1
    BY <1>1, DivMod
  <2> HIDE DEF qa, qb, sa, sb
  <2> QED
    BY <1>1, <2>1, <2>2
<1>3. z \in Int
  BY <1>2
<1>4. z = m * qz + r /\ qz \in Int /\ r \in 0 .. m - 1
  BY <1>1, <1>3, DivMod
<1>5. t \in 0 .. m - 1
  BY <1>1
<1>6. t = m * ((qa - qb) + qz) + r
  <2>1. (sa - sb) + h = m * qz + r /\ r \in Int
    BY <1>4
  <2> HIDE DEF qa, qb, sa, sb, qz, r, z
  <2> QED
    BY <1>1, <1>2, <1>4, <2>1, Z3
<1> DEFINE k == (qa - qb) + qz
<1>7. k \in Int /\ t = m * k + r
  BY <1>2, <1>4, <1>6
<1>8. k = 0
  <2> DEFINE d == t - r
  <2>1. d \in Int /\ d = m * k /\ -m < d /\ d < m
    <3> HIDE DEF t, r, k
    <3>1. t \in Int /\ r \in Int /\ m * k \in Int
      BY <1>1, <1>4, <1>5, <1>7
    <3> QED
      BY <1>1, <1>4, <1>5, <1>7, <3>1
  <2> HIDE DEF d, k
  <2> QED
    BY <1>1, <1>7, <2>1, SmallMultiple
<1>9. r = t
  <2> HIDE DEF r, t, k
  <2> QED
    BY <1>1, <1>4, <1>5, <1>7, <1>8
<1>10. r = ((sa - sb) + h) % (2 * h)
  BY <1>1
<1> QED
  BY <1>1, <1>9, <1>10

-------------------------------------------------------------------------------
(* Induction.                                                              *)

\* A set that has 0 and with every number the next one has all numbers.
LEMMA SetInduction ==
  ASSUME NEW A, 0 \in A, \A n \in Nat : n \in A => n + 1 \in A
  PROVE  Nat \subseteq A
<1> DEFINE R == {ss \in Nat \X Nat : ss[1] < ss[2]}
           T == Nat \ A
<1>1. IsWellFoundedOn(R, Nat)
  BY NatLessThanWellFounded DEF OpToRel
<1> SUFFICES ASSUME T # {} PROVE FALSE
  OBVIOUS
<1>2. T \subseteq Nat
  OBVIOUS
<1>3. PICK x \in T : \A y \in T : ~ (<<y, x>> \in R)
  <2> HIDE DEF R, T
  <2> QED
    BY <1>1, <1>2, WFMin
<1>4. x \in Nat /\ x # 0
  OBVIOUS
<1>5. x - 1 \in Nat /\ x - 1 < x
  BY <1>4
<1>6. x - 1 \notin A
  <2>1. x - 1 \in A => (x - 1) + 1 \in A
    BY <1>5
  <2>2. (x - 1) + 1 = x
    BY <1>4
  <2> QED
    BY <2>1, <2>2
<1>7. <<x - 1, x>> \in R
  BY <1>4, <1>5
<1> QED
  BY <1>3, <1>5, <1>6, <1>7

\* A set of sets that has a finite set's subset whenever it has every subset
\* with one element less has all its subsets.
LEMMA SubsetInduction ==
  ASSUME NEW S, IsFiniteSet(S), NEW A, {} \in A,
         \A T \in SUBSET S : T # {} /\ (\A x \in T : T \ {x} \in A) => T \in A
  PROVE  SUBSET S \subseteq A
<1> DEFINE N == {n \in Nat : \A T \in SUBSET S : Cardinality(T) = n => T \in A}
<1>0. \A T \in SUBSET S : IsFiniteSet(T) /\ Cardinality(T) \in Nat
  BY FS_Subset, FS_CardinalityType
<1>1. 0 \in N
  BY <1>0, FS_EmptySet
<1>2. ASSUME NEW n \in Nat, n \in N PROVE n + 1 \in N
  <2> SUFFICES ASSUME NEW T \in SUBSET S, Cardinality(T) = n + 1 PROVE T \in A
    OBVIOUS
  <2>1. ASSUME NEW x \in T PROVE T \ {x} \in A
    <3>1. T \ {x} \in SUBSET S /\ Cardinality(T \ {x}) = Cardinality(T) - 1
      BY <1>0, FS_RemoveElement
    <3> QED
      BY <1>2, <3>1
  <2>2. T # {}
    <3>1. Cardinality({}) = 0 /\ n + 1 # 0
      BY FS_EmptySet
    <3> QED
      BY <3>1
  <2> QED
    BY <2>1, <2>2
<1>3. Nat \subseteq N
  <2> HIDE DEF N
  <2> QED
    BY <1>1, <1>2, SetInduction
<1> QED
  BY <1>0, <1>3

-------------------------------------------------------------------------------
(* Least and greatest.                                                     *)

\* A finite set of numbers has a least and a greatest.
LEMMA FiniteBounds ==
  ASSUME NEW S \in SUBSET Int, IsFiniteSet(S), S # {}
  PROVE  \E lo, hi \in S : \A n \in S : lo <= n /\ n <= hi
<1> DEFINE Bounded(T) == \E lo, hi \in T : \A n \in T : lo <= n /\ n <= hi
           A == {T \in SUBSET S : T # {} => Bounded(T)}
<1>1. {} \in A
  OBVIOUS
<1>2. ASSUME NEW T \in SUBSET S, T # {}, \A x \in T : T \ {x} \in A
      PROVE  T \in A
  <2>1. PICK x \in T : TRUE
    BY <1>2
  <2>2. x \in Int /\ x <= x
    OBVIOUS
  <2>3. CASE T \ {x} = {}
    <3>1. \A n \in T : n = x
      BY <2>3
    <3>2. Bounded(T)
      BY <2>2, <3>1
    <3> QED
      BY <3>2
  <2>4. CASE T \ {x} # {}
    <3>1. Bounded(T \ {x})
      BY <1>2, <2>4
    <3>2. PICK lo \in T \ {x}, hi \in T \ {x} : \A n \in T \ {x} : lo <= n /\ n <= hi
      BY <3>1
    <3>3. PICK low \in {lo, x} : low <= lo /\ low <= x
      BY <2>2
    <3>4. PICK high \in {hi, x} : hi <= high /\ x <= high
      BY <2>2
    <3>5. low \in T /\ high \in T /\ {low, high, lo, hi} \subseteq Int
      OBVIOUS
    <3>6. \A n \in T : low <= n /\ n <= high
      BY <3>2, <3>3, <3>4, <3>5
    <3>7. Bounded(T)
      BY <3>5, <3>6
    <3> QED
      BY <3>7
  <2> QED
    BY <2>3, <2>4
<1>3. SUBSET S \subseteq A
  <2> HIDE DEF A
  <2> QED
    BY <1>1, <1>2, SubsetInduction
<1> QED
  BY <1>3

\* Max and Min pick them.
LEMMA MaxMinType ==
  ASSUME NEW S \in SUBSET Int, IsFiniteSet(S), S # {}
  PROVE  /\ Max(S) \in S /\ \A n \in S : n <= Max(S)
         /\ Min(S) \in S /\ \A n \in S : Min(S) <= n
<1>1. PICK lo \in S, hi \in S : \A n \in S : lo <= n /\ n <= hi
  BY FiniteBounds
<1>2. \E x \in S : \A y \in S : x >= y
  BY <1>1
<1>3. \E x \in S : \A y \in S : x =< y
  BY <1>1
<1>4. Max(S) \in S /\ \A n \in S : Max(S) >= n
  BY <1>2 DEF Max
<1>5. Min(S) \in S /\ \A n \in S : Min(S) =< n
  BY <1>3 DEF Min
<1> QED
  BY <1>4, <1>5

\* A measure of the members of a finite set has a member it is greatest at.
LEMMA GreatestExists ==
  ASSUME NEW I, IsFiniteSet(I), I # {}, NEW n \in [I -> Int]
  PROVE  \E i \in I : \A j \in I : n[j] <= n[i]
<1> DEFINE S == {n[i] : i \in I}
<1>1. n \in Surjection(I, S)
  BY DEF Surjection
<1>2. IsFiniteSet(S) /\ S # {} /\ S \in SUBSET Int
  BY <1>1, FS_Surjection
<1>3. PICK hi \in S : \A m \in S : m <= hi
  <2> HIDE DEF S
  <2> QED
    BY <1>2, FiniteBounds
<1> QED
  BY <1>3

-------------------------------------------------------------------------------
(* Recursion.                                                              *)

\* c takes an element out of every non-empty subset of S.
Takes(c, S) == \A s \in (SUBSET S) \ {{}} : c[s] \in s

\* g folds the step F over the elements c takes out one by one.
IsFold(g, c, F, base, S) ==
  \A s \in SUBSET S : g[s] = IF s = {} THEN base ELSE F[c[s]][g[s \ {c[s]}]]

\* On the subsets of a finite set there is a function that folds a step over
\* the elements a choice function takes out one by one.
LEMMA FoldExists ==
  ASSUME NEW S, IsFiniteSet(S), NEW D, NEW base \in D,
         NEW c, Takes(c, S),
         NEW F \in [S -> [D -> D]]
  PROVE  \E g \in [SUBSET S -> D] : IsFold(g, c, F, base, S)
<1> USE DEF Takes, IsFold
<1> DEFINE Below(n) == {s \in SUBSET S : Cardinality(s) <= n}
           Folds(g, n) == \A s \in Below(n) :
                            g[s] = IF s = {} THEN base ELSE F[c[s]][g[s \ {c[s]}]]
           N == {n \in Nat : \E g \in [SUBSET S -> D] : Folds(g, n)}
<1>0. \A s \in SUBSET S : IsFiniteSet(s) /\ Cardinality(s) \in Nat
  BY FS_Subset, FS_CardinalityType
<1>1. 0 \in N
  <2> DEFINE g == [s \in SUBSET S |-> base]
  <2>1. \A s \in Below(0) : s = {}
    BY <1>0, FS_EmptySet
  <2>2. g \in [SUBSET S -> D] /\ Folds(g, 0)
    BY <2>1
  <2> QED
    BY <2>2
<1>2. ASSUME NEW n \in Nat, n \in N PROVE n + 1 \in N
  <2>1. PICK g \in [SUBSET S -> D] : Folds(g, n)
    BY <1>2
  <2> DEFINE h == [s \in SUBSET S |-> IF s = {} THEN base ELSE F[c[s]][g[s \ {c[s]}]]]
  <2>2. ASSUME NEW s \in SUBSET S, s # {}
        PROVE  c[s] \in S /\ s \ {c[s]} \in SUBSET S
               /\ Cardinality(s \ {c[s]}) = Cardinality(s) - 1
    BY <1>0, <2>2, FS_RemoveElement
  <2>3. h \in [SUBSET S -> D]
    BY <2>2
  <2>4. \A s \in Below(n) : h[s] = g[s]
    BY <2>1
  <2>5. ASSUME NEW s \in Below(n + 1)
        PROVE  h[s] = IF s = {} THEN base ELSE F[c[s]][h[s \ {c[s]}]]
    <3>1. CASE s = {}
      BY <3>1
    <3>2. CASE s # {}
      <4>1. s \ {c[s]} \in Below(n)
        BY <1>0, <2>2, <3>2
      <4> QED
        BY <2>4, <3>2, <4>1
    <3> QED
      BY <3>1, <3>2
  <2>6. Folds(h, n + 1)
    BY <2>5
  <2>7. \E f \in [SUBSET S -> D] : Folds(f, n + 1)
    <3> HIDE DEF h, Folds
    <3> QED
      BY <2>3, <2>6
  <2> HIDE DEF Folds
  <2> QED
    BY <2>7
<1>3. Nat \subseteq N
  <2> HIDE DEF N
  <2> QED
    BY <1>1, <1>2, SetInduction
<1>4. Cardinality(S) \in Nat /\ \A s \in SUBSET S : Cardinality(s) <= Cardinality(S)
  BY FS_Subset, FS_CardinalityType
<1>5. PICK g \in [SUBSET S -> D] : Folds(g, Cardinality(S))
  <2> HIDE DEF Folds
  <2> QED
    BY <1>3, <1>4
<1> WITNESS g \in [SUBSET S -> D]
<1> QED
  BY <1>4, <1>5

\* A function over lo .. n whose values are each made from the one before.
IsRecursion(g, lo, n, b, F) ==
  \A i \in lo .. n : g[i] = IF i = lo THEN b ELSE F[i][g[i - 1]]

\* There is such a function.
LEMMA RecursionExists ==
  ASSUME NEW lo \in Int, NEW n \in Int, NEW D, NEW b \in D,
         NEW F \in [lo .. n -> [D -> D]]
  PROVE  \E g \in [lo .. n -> D] : IsRecursion(g, lo, n, b, F)
<1> DEFINE N == {m \in Nat : \E g \in [lo .. n -> D] : IsRecursion(g, lo, lo + m, b, F) \/ lo + m > n}
<1> USE DEF IsRecursion
<1>1. 0 \in N
  <2> DEFINE g == [i \in lo .. n |-> b]
  <2>1. g \in [lo .. n -> D]
    OBVIOUS
  <2>2. \A i \in lo .. lo + 0 : i = lo
    OBVIOUS
  <2>3. IsRecursion(g, lo, lo + 0, b, F) \/ lo + 0 > n
    BY <2>2
  <2> HIDE DEF g, IsRecursion
  <2> QED
    BY <2>1, <2>3
<1>2. ASSUME NEW m \in Nat, m \in N PROVE m + 1 \in N
  <2>1. PICK g \in [lo .. n -> D] : IsRecursion(g, lo, lo + m, b, F) \/ lo + m > n
    BY <1>2
  <2>2. CASE lo + m + 1 > n
    <3>1. lo + (m + 1) > n
      BY <2>2
    <3> QED
      BY <3>1
  <2>3. CASE lo + m + 1 <= n
    <3> DEFINE top == lo + m + 1
               h == [g EXCEPT ![top] = F[top][g[top - 1]]]
    <3>1. top \in lo .. n /\ top - 1 \in lo .. n /\ top # lo /\ ~ lo + m > n /\ top = lo + (m + 1)
      BY <2>3
    <3>2. h \in [lo .. n -> D]
      BY <3>1
    <3>3. ASSUME NEW i \in lo .. top PROVE h[i] = IF i = lo THEN b ELSE F[i][h[i - 1]]
      <4>1. i \in lo .. n /\ (i = top \/ i \in lo .. lo + m)
        BY <3>1
      <4>2. i # lo => i - 1 \in lo .. n /\ i - 1 # top
        BY <4>1
      <4>3. CASE i = top
        BY <3>1, <4>2, <4>3
      <4>4. CASE i \in lo .. lo + m
        <5>1. i # top
          BY <4>4
        <5>2. h[i] = g[i] /\ (i # lo => h[i - 1] = g[i - 1])
          BY <4>1, <4>2, <5>1
        <5> HIDE DEF h
        <5> QED
          BY <2>1, <3>1, <4>4, <5>2
      <4> QED
        BY <4>1, <4>3, <4>4
    <3>4. IsRecursion(h, lo, lo + (m + 1), b, F)
      BY <3>1, <3>3
    <3> HIDE DEF h, IsRecursion
    <3> QED
      BY <3>2, <3>4
  <2> QED
    BY <2>2, <2>3
<1>3. Nat \subseteq N
  <2> HIDE DEF N
  <2> QED
    BY <1>1, <1>2, SetInduction
<1>4. CASE n < lo
  <2>1. [i \in lo .. n |-> b] \in [lo .. n -> D]
    OBVIOUS
  <2>2. lo .. n = {}
    BY <1>4
  <2> QED
    BY <2>1, <2>2
<1>5. CASE n >= lo
  <2>1. PICK m : m = n - lo
    OBVIOUS
  <2>2. m \in Nat /\ lo + m = n
    BY <1>5, <2>1
  <2>3. m \in N
    BY <1>3, <2>2
  <2> HIDE DEF IsRecursion
  <2>4. PICK g \in [lo .. n -> D] : IsRecursion(g, lo, lo + m, b, F) \/ lo + m > n
    BY <2>3
  <2>5. ~ n > n
    OBVIOUS
  <2>6. IsRecursion(g, lo, n, b, F)
    BY <2>2, <2>4, <2>5
  <2> QED
    BY <2>6
<1> QED
  BY <1>4, <1>5

\* And only one: what holds at the start and is carried on step by step holds
\* of a whole interval.
LEMMA IntervalInduction ==
  ASSUME NEW lo \in Int, NEW n \in Int, NEW A,
         lo <= n => lo \in A, \A i \in lo + 1 .. n : i - 1 \in A => i \in A
  PROVE  lo .. n \subseteq A
<1> DEFINE N == {m \in Nat : lo + m > n \/ lo + m \in A}
<1>1. 0 \in N
  OBVIOUS
<1>2. ASSUME NEW m \in Nat, m \in N PROVE m + 1 \in N
  <2>1. CASE lo + (m + 1) > n
    BY <2>1
  <2>2. CASE lo + (m + 1) <= n
    <3>1. lo + (m + 1) \in lo + 1 .. n /\ (lo + (m + 1)) - 1 = lo + m /\ ~ lo + m > n
      BY <2>2
    <3>2. lo + (m + 1) \in A
      BY <1>2, <3>1
    <3> QED
      BY <3>2
  <2> QED
    BY <2>1, <2>2
<1>3. Nat \subseteq N
  <2> HIDE DEF N
  <2> QED
    BY <1>1, <1>2, SetInduction
<1>4. ASSUME NEW i \in lo .. n PROVE i \in A
  <2>1. i - lo \in N /\ lo + (i - lo) = i /\ ~ i > n
    BY <1>3
  <2> QED
    BY <2>1
<1> QED
  BY <1>4

\* The same from zero.
LEMMA UpToInduction ==
  ASSUME NEW n \in Nat, NEW A, 0 \in A, \A i \in 1 .. n : i - 1 \in A => i \in A
  PROVE  0 .. n \subseteq A
<1>1. PICK lo : lo = 0 /\ lo \in Int
  OBVIOUS
<1>2. \A i \in lo + 1 .. n : i - 1 \in A => i \in A
  BY <1>1
<1>3. lo .. n \subseteq A
  BY <1>1, <1>2, IntervalInduction
<1> QED
  BY <1>1, <1>3

\* A member of a set, and a sum over the subsets of a finite set, unfolded.
AnyOf(s) == CHOOSE x \in s : TRUE
Unfolds(g, h, S) ==
  /\ g[{}] = 0
  /\ \A s \in SUBSET S : s # {} => g[s] = h[AnyOf(s)] + g[s \ {AnyOf(s)}]

LEMMA SumUnfolds ==
  ASSUME NEW S, IsFiniteSet(S), NEW h \in [S -> Int]
  PROVE  \E g \in [SUBSET S -> Int] : Unfolds(g, h, S) /\ SumFunctionOnSet(h, S) = g[S]
<1> DEFINE one(s) == CHOOSE x \in s : TRUE
           c == [s \in SUBSET S |-> one(s)]
           F == [x \in S |-> [n \in Int |-> h[x] + n]]
           Is(g) == g = [s \in SUBSET S |-> IF s = {} THEN 0 ELSE h[one(s)] + g[s \ {one(s)}]]
           iter == CHOOSE g : Is(g)
<1>1. PICK g \in [SUBSET S -> Int] :
        IsFold(g, c, F, 0, S)
  <2>1. Takes(c, S)
    BY DEF Takes
  <2>2. F \in [S -> [Int -> Int]]
    OBVIOUS
  <2>3. PICK zero : zero = 0 /\ zero \in Int
    OBVIOUS
  <2> HIDE DEF c, F
  <2>4. \E g \in [SUBSET S -> Int] : IsFold(g, c, F, zero, S)
    BY <2>1, <2>2, <2>3, FoldExists
  <2> QED
    BY <2>3, <2>4
<1>2. \A s \in SUBSET S : g[s] = IF s = {} THEN 0 ELSE h[one(s)] + g[s \ {one(s)}]
  BY <1>1 DEF IsFold
<1>3. Is(g)
  BY <1>2
<1>4. Is(iter)
  <2> HIDE DEF Is
  <2> QED
    BY <1>3
<1>5. SumFunctionOnSet(h, S) = iter[S]
  BY DEF SumFunctionOnSet, FoldFunctionOnSet, MapThenFoldSet
<1>6. iter = g
  <2> DEFINE A == {s \in SUBSET S : iter[s] = g[s]}
  <2>1. iter = [s \in SUBSET S |-> IF s = {} THEN 0 ELSE h[one(s)] + iter[s \ {one(s)}]]
    BY <1>4
  <2> HIDE DEF iter
  <2>2. {} \in A
    BY <1>2, <2>1
  <2>3. ASSUME NEW T \in SUBSET S, T # {}, \A x \in T : T \ {x} \in A
        PROVE  T \in A
    <3>1. PICK x : x = one(T) /\ x \in T
      BY <2>3
    <3>2. iter[T \ {x}] = g[T \ {x}]
      BY <2>3, <3>1
    <3>3. iter[T] = h[x] + iter[T \ {x}]
      BY <2>1, <2>3, <3>1
    <3>4. g[T] = h[x] + g[T \ {x}]
      BY <1>2, <2>3, <3>1
    <3> QED
      BY <3>2, <3>3, <3>4
  <2>4. SUBSET S \subseteq A
    <3> HIDE DEF A
    <3> QED
      BY <2>2, <2>3, SubsetInduction
  <2> QED
    BY <2>1, <2>4
<1>7. SumFunctionOnSet(h, S) = g[S]
  BY <1>5, <1>6
<1>8. Unfolds(g, h, S)
  BY <1>2 DEF Unfolds, AnyOf
<1> QED
  BY <1>7, <1>8

-------------------------------------------------------------------------------
(* Sums.                                                                   *)

\* A sum of numbers is a number, and of naturals a natural.
LEMMA SumType ==
  ASSUME NEW S, IsFiniteSet(S), NEW h \in [S -> Int]
  PROVE  /\ SumFunctionOnSet(h, S) \in Int
         /\ (\A x \in S : h[x] >= 0) => SumFunctionOnSet(h, S) >= 0
<1>1. PICK g \in [SUBSET S -> Int] :
        Unfolds(g, h, S) /\ SumFunctionOnSet(h, S) = g[S]
  BY SumUnfolds
<1>2. ASSUME \A x \in S : h[x] >= 0 PROVE g[S] >= 0
  <2> DEFINE A == {s \in SUBSET S : g[s] >= 0}
  <2>1. {} \in A
    BY <1>1 DEF Unfolds
  <2>2. ASSUME NEW T \in SUBSET S, T # {}, \A x \in T : T \ {x} \in A
        PROVE  T \in A
    <3>1. AnyOf(T) \in T
      BY <2>2 DEF AnyOf
    <3>2. g[T \ {AnyOf(T)}] >= 0 /\ g[T \ {AnyOf(T)}] \in Int /\ h[AnyOf(T)] >= 0 /\ h[AnyOf(T)] \in Int
      BY <1>2, <2>2, <3>1
    <3>3. g[T] = h[AnyOf(T)] + g[T \ {AnyOf(T)}]
      BY <1>1, <2>2 DEF Unfolds
    <3> QED
      BY <3>2, <3>3
  <2>3. SUBSET S \subseteq A
    <3> HIDE DEF A
    <3> QED
      BY <2>1, <2>2, SubsetInduction
  <2> QED
    BY <2>3
<1> QED
  BY <1>1, <1>2

\* Where one term changes, the sum changes by as much.
LEMMA SumChange ==
  ASSUME NEW S, IsFiniteSet(S), NEW h \in [S -> Int], NEW f \in [S -> Int], NEW k \in S,
         \A x \in S \ {k} : f[x] = h[x]
  PROVE  SumFunctionOnSet(f, S) = SumFunctionOnSet(h, S) + (f[k] - h[k])
<1>1. PICK g \in [SUBSET S -> Int] :
        Unfolds(g, h, S) /\ SumFunctionOnSet(h, S) = g[S]
  BY SumUnfolds
<1>2. PICK e \in [SUBSET S -> Int] :
        Unfolds(e, f, S) /\ SumFunctionOnSet(f, S) = e[S]
  BY SumUnfolds
<1> DEFINE d == f[k] - h[k]
           A == {s \in SUBSET S : e[s] = g[s] + (IF k \in s THEN d ELSE 0)}
<1>3. {} \in A
  BY <1>1, <1>2 DEF Unfolds
<1>4. ASSUME NEW T \in SUBSET S, T # {}, \A x \in T : T \ {x} \in A
      PROVE  T \in A
  <2> DEFINE x == AnyOf(T)
             U == T \ {x}
  <2>1. x \in T /\ x \in S /\ U \in SUBSET S
    BY <1>4 DEF AnyOf
  <2> HIDE DEF x
  <2>2. e[U] = g[U] + (IF k \in U THEN d ELSE 0)
    BY <1>4, <2>1
  <2>3. e[T] = f[x] + e[U] /\ g[T] = h[x] + g[U]
    BY <1>1, <1>2, <1>4 DEF x, Unfolds
  <2>4. e[U] \in Int /\ g[U] \in Int /\ f[x] \in Int /\ h[x] \in Int /\ d \in Int
    BY <2>1
  <2>5. CASE x = k
    <3>1. k \notin U /\ k \in T /\ d = f[x] - h[x]
      BY <2>1, <2>5
    <3>2. e[T] = g[T] + d
      BY <2>2, <2>3, <2>4, <3>1
    <3> QED
      BY <3>1, <3>2
  <2>6. CASE x # k
    <3>1. f[x] = h[x] /\ (k \in U <=> k \in T)
      BY <2>1, <2>6
    <3>2. e[T] = g[T] + (IF k \in T THEN d ELSE 0)
      BY <2>2, <2>3, <2>4, <3>1
    <3> QED
      BY <3>2
  <2> QED
    BY <2>5, <2>6
<1>5. SUBSET S \subseteq A
  <2> HIDE DEF A
  <2> QED
    BY <1>3, <1>4, SubsetInduction
<1> QED
  BY <1>1, <1>2, <1>5

\* A sum of smaller terms is smaller.
LEMMA SumMonotone ==
  ASSUME NEW S, IsFiniteSet(S), NEW h \in [S -> Int], NEW f \in [S -> Int],
         \A x \in S : f[x] <= h[x]
  PROVE  SumFunctionOnSet(f, S) <= SumFunctionOnSet(h, S)
<1>1. PICK g \in [SUBSET S -> Int] :
        Unfolds(g, h, S) /\ SumFunctionOnSet(h, S) = g[S]
  BY SumUnfolds
<1>2. PICK e \in [SUBSET S -> Int] :
        Unfolds(e, f, S) /\ SumFunctionOnSet(f, S) = e[S]
  BY SumUnfolds
<1> DEFINE A == {s \in SUBSET S : e[s] <= g[s]}
<1>3. {} \in A
  BY <1>1, <1>2 DEF Unfolds
<1>4. ASSUME NEW T \in SUBSET S, T # {}, \A x \in T : T \ {x} \in A
      PROVE  T \in A
  <2> DEFINE x == AnyOf(T)
             U == T \ {x}
  <2>1. x \in T /\ x \in S /\ U \in SUBSET S
    BY <1>4 DEF AnyOf
  <2> HIDE DEF x
  <2>2. e[U] <= g[U] /\ f[x] <= h[x]
    BY <1>4, <2>1
  <2>3. e[T] = f[x] + e[U] /\ g[T] = h[x] + g[U]
    BY <1>1, <1>2, <1>4 DEF x, Unfolds
  <2>4. e[U] \in Int /\ g[U] \in Int /\ f[x] \in Int /\ h[x] \in Int
    BY <2>1
  <2>5. e[T] <= g[T]
    BY <2>2, <2>3, <2>4
  <2> QED
    BY <2>5
<1>5. SUBSET S \subseteq A
  <2> HIDE DEF A
  <2> QED
    BY <1>3, <1>4, SubsetInduction
<1> QED
  BY <1>1, <1>2, <1>5

\* A sum of zeros is zero.
LEMMA SumZero ==
  ASSUME NEW S, IsFiniteSet(S), NEW h \in [S -> Int], \A x \in S : h[x] = 0
  PROVE  SumFunctionOnSet(h, S) = 0
<1>1. PICK g \in [SUBSET S -> Int] :
        Unfolds(g, h, S) /\ SumFunctionOnSet(h, S) = g[S]
  BY SumUnfolds
<1> DEFINE A == {s \in SUBSET S : g[s] = 0}
<1>2. {} \in A
  BY <1>1 DEF Unfolds
<1>3. ASSUME NEW T \in SUBSET S, T # {}, \A x \in T : T \ {x} \in A
      PROVE  T \in A
  <2>1. AnyOf(T) \in T
    BY <1>3 DEF AnyOf
  <2>2. g[T \ {AnyOf(T)}] = 0 /\ h[AnyOf(T)] = 0
    BY <1>3, <2>1
  <2>3. g[T] = h[AnyOf(T)] + g[T \ {AnyOf(T)}]
    BY <1>1, <1>3 DEF Unfolds
  <2> QED
    BY <2>2, <2>3
<1>4. SUBSET S \subseteq A
  <2> HIDE DEF A
  <2> QED
    BY <1>2, <1>3, SubsetInduction
<1> QED
  BY <1>1, <1>4

\* A term of a sum of naturals is no more than the sum.
LEMMA SumTerm ==
  ASSUME NEW S, IsFiniteSet(S), NEW h \in [S -> Nat], NEW k \in S
  PROVE  h[k] <= SumFunctionOnSet(h, S)
<1> DEFINE zero == [x \in S |-> 0]
           one  == [x \in S |-> IF x = k THEN h[k] ELSE 0]
<1>1. h \in [S -> Int] /\ zero \in [S -> Int] /\ one \in [S -> Int]
  OBVIOUS
<1>2. SumFunctionOnSet(zero, S) = 0
  <2>1. \A x \in S : zero[x] = 0
    OBVIOUS
  <2> HIDE DEF zero
  <2> QED
    BY <1>1, <2>1, SumZero
<1>3. SumFunctionOnSet(one, S) = SumFunctionOnSet(zero, S) + (one[k] - zero[k])
  <2>1. \A x \in S \ {k} : one[x] = zero[x]
    OBVIOUS
  <2> HIDE DEF zero, one
  <2> QED
    BY <1>1, <2>1, SumChange
<1>4. SumFunctionOnSet(one, S) <= SumFunctionOnSet(h, S)
  <2>1. \A x \in S : one[x] <= h[x]
    OBVIOUS
  <2> HIDE DEF one
  <2> QED
    BY <1>1, <2>1, SumMonotone
<1>5. one[k] = h[k] /\ zero[k] = 0 /\ h[k] \in Nat
  OBVIOUS
<1> HIDE DEF one, zero
<1> QED
  BY <1>2, <1>3, <1>4, <1>5

-------------------------------------------------------------------------------
(* Sub-sequences.                                                          *)

\* u is what a loop over fs that appends the members at places P to an empty
\* list holds after each turn.
IsPicking(u, fs, P) ==
  /\ u[0] = <<>>
  /\ \A n \in 1..Len(fs) : u[n] = IF n \in P THEN Append(u[n - 1], fs[n]) ELSE u[n - 1]

\* Picked is such a loop.
LEMMA PickedIsLoop ==
  ASSUME NEW D, NEW fs \in Seq(D), NEW P
  PROVE  \E u \in [0..Len(fs) -> Seq(D)] : IsPicking(u, fs, P) /\ Picked(fs, P) = u[Len(fs)]
<1> DEFINE F == [n \in 0..Len(fs) |-> [x \in Seq(D) |-> IF n > 0 /\ n \in P THEN Append(x, fs[n]) ELSE x]]
           Is(g) == g = [n \in 0..Len(fs) |-> IF n = 0 THEN <<>>
                                               ELSE IF n \in P THEN Append(g[n - 1], fs[n])
                                               ELSE g[n - 1]]
           upto == CHOOSE g : Is(g)
<1>1. PICK none : none = <<>> /\ none \in Seq(D)
  BY EmptySeq
<1>2. F \in [0..Len(fs) -> [Seq(D) -> Seq(D)]]
  <2>1. ASSUME NEW n \in 0..Len(fs), NEW x \in Seq(D), n > 0 PROVE Append(x, fs[n]) \in Seq(D)
    <3>1. fs[n] \in D
      BY <2>1, ElementOfSeq
    <3> QED
      BY <3>1
  <2> QED
    BY <2>1
<1>3. PICK lo, n : lo = 0 /\ n = Len(fs) /\ lo \in Int /\ n \in Int
  BY LenProperties
<1>4. PICK u \in [0..Len(fs) -> Seq(D)] : IsRecursion(u, 0, Len(fs), none, F)
  <2>1. F \in [lo..n -> [Seq(D) -> Seq(D)]]
    BY <1>2, <1>3
  <2> HIDE DEF F
  <2>2. \E g \in [lo..n -> Seq(D)] : IsRecursion(g, lo, n, none, F)
    BY <1>1, <1>3, <2>1, RecursionExists
  <2> QED
    BY <1>3, <2>2
<1>5. \A k \in 0..Len(fs) : u[k] = IF k = 0 THEN none ELSE F[k][u[k - 1]]
  BY <1>4 DEF IsRecursion
<1>6. \A k \in 1..Len(fs) : u[k - 1] \in Seq(D) /\ k > 0 /\ k \in 0..Len(fs) /\ k # 0
  <2>1. \A k \in 1..Len(fs) : k - 1 \in 0..Len(fs) /\ k > 0 /\ k \in 0..Len(fs) /\ k # 0
    BY LenProperties
  <2> QED
    BY <2>1
<1>7. \A k \in 1..Len(fs) : u[k] = IF k \in P THEN Append(u[k - 1], fs[k]) ELSE u[k - 1]
  BY <1>5, <1>6
<1>8. u[0] = <<>>
  <2>1. 0 \in 0..Len(fs)
    BY LenProperties
  <2> QED
    BY <1>1, <1>5, <2>1
<1>9. Is(u)
  <2>1. \A k \in 0..Len(fs) : k = 0 \/ k \in 1..Len(fs)
    BY LenProperties
  <2>2. \A k \in 0..Len(fs) : u[k] = IF k = 0 THEN <<>>
                                       ELSE IF k \in P THEN Append(u[k - 1], fs[k])
                                       ELSE u[k - 1]
    BY <1>7, <1>8, <2>1
  <2> QED
    BY <2>2
<1>10. Is(upto)
  <2> HIDE DEF Is
  <2> QED
    BY <1>9
<1>11. upto = u
  <2> DEFINE A == {k \in 0..Len(fs) : upto[k] = u[k]}
  <2>1. upto = [k \in 0..Len(fs) |-> IF k = 0 THEN <<>>
                                     ELSE IF k \in P THEN Append(upto[k - 1], fs[k])
                                     ELSE upto[k - 1]]
    BY <1>10
  <2> HIDE DEF upto
  <2>2. 0 \in A
    <3>1. 0 \in 0..Len(fs)
      BY LenProperties
    <3> QED
      BY <1>8, <2>1, <3>1
  <2>3. ASSUME NEW k \in 1..Len(fs), k - 1 \in A PROVE k \in A
    <3>1. k \in 0..Len(fs) /\ k # 0
      BY <1>6
    <3> QED
      BY <1>7, <2>1, <2>3, <3>1
  <2>4. 0..Len(fs) \subseteq A
    <3> HIDE DEF A
    <3>1. Len(fs) \in Nat
      BY LenProperties
    <3> QED
      BY <2>2, <2>3, <3>1, UpToInduction
  <2> QED
    BY <2>1, <2>4
<1>12. Picked(fs, P) = upto[Len(fs)]
  BY DEF Picked
<1> QED
  BY <1>7, <1>8, <1>11, <1>12 DEF IsPicking

LEMMA PickedOfNone == ASSUME NEW P PROVE Picked(<<>>, P) = <<>>
<1>1. PICK none \in Seq({}) : none = <<>>
  BY EmptySeq
<1>2. Len(none) = 0
  BY <1>1
<1>3. \E u \in [0..Len(none) -> Seq({})] : IsPicking(u, none, P) /\ Picked(none, P) = u[Len(none)]
  BY PickedIsLoop
<1>4. Picked(none, P) = <<>>
  BY <1>2, <1>3 DEF IsPicking
<1> QED
  BY <1>1, <1>4

\* It picks members; of a list with a member more, that one too or not.
LEMMA PickedMore ==
  ASSUME NEW D, NEW fs \in Seq(D), NEW P,
         NEW x \in D, NEW Q, \A n \in 1..Len(fs) : n \in Q <=> n \in P
  PROVE  /\ Picked(fs, P) \in Seq(D)
         /\ Picked(Append(fs, x), Q) =
              IF Len(fs) + 1 \in Q THEN Append(Picked(fs, P), x) ELSE Picked(fs, P)
<1>1. PICK more \in Seq(D) : more = Append(fs, x)
  BY AppendProperties
<1>2. PICK N \in Nat : N = Len(fs)
  BY LenProperties
<1>3. Len(more) = N + 1 /\ more[N + 1] = x /\ \A n \in 1..N : more[n] = fs[n]
  BY <1>1, <1>2, AppendProperties
<1>4. PICK u \in [0..N -> Seq(D)] : IsPicking(u, fs, P) /\ Picked(fs, P) = u[N]
  BY <1>2, PickedIsLoop
<1>5. PICK v \in [0..N + 1 -> Seq(D)] : IsPicking(v, more, Q) /\ Picked(more, Q) = v[N + 1]
  <2>1. \E v \in [0..Len(more) -> Seq(D)] : IsPicking(v, more, Q) /\ Picked(more, Q) = v[Len(more)]
    BY PickedIsLoop
  <2> QED
    BY <1>3, <2>1
<1> DEFINE A == {n \in 0..N : u[n] = v[n]}
<1>6. 0 \in A
  BY <1>4, <1>5 DEF IsPicking
<1>7. ASSUME NEW n \in 1..N, n - 1 \in A PROVE n \in A
  <2>1. n \in 1..Len(fs) /\ n \in 1..Len(more) /\ n \in 0..N /\ u[n - 1] = v[n - 1]
    BY <1>2, <1>3, <1>7
  <2>2. u[n] = IF n \in P THEN Append(u[n - 1], fs[n]) ELSE u[n - 1]
    BY <1>4, <2>1 DEF IsPicking
  <2>3. v[n] = IF n \in Q THEN Append(v[n - 1], more[n]) ELSE v[n - 1]
    BY <1>5, <2>1 DEF IsPicking
  <2>4. more[n] = fs[n] /\ (n \in Q <=> n \in P)
    BY <1>3, <2>1
  <2> QED
    BY <2>1, <2>2, <2>3, <2>4
<1>8. 0..N \subseteq A
  <2> HIDE DEF A
  <2> QED
    BY <1>6, <1>7, UpToInduction
<1>9. v[N] = u[N]
  BY <1>8
<1>10. v[N + 1] = IF N + 1 \in Q THEN Append(v[N], more[N + 1]) ELSE v[N]
  <2>1. N + 1 \in 1..Len(more) /\ (N + 1) - 1 = N
    BY <1>3
  <2> QED
    BY <1>5, <2>1 DEF IsPicking
<1>11. Picked(fs, P) \in Seq(D)
  BY <1>4
<1> QED
  BY <1>1, <1>2, <1>3, <1>4, <1>5, <1>9, <1>10, <1>11

LEMMA PickedAppend ==
  ASSUME NEW D, NEW fs \in Seq(D), NEW P,
         NEW x \in D, NEW Q, \A n \in 1..Len(fs) : n \in Q <=> n \in P
  PROVE  Picked(Append(fs, x), Q) =
           IF Len(fs) + 1 \in Q THEN Append(Picked(fs, P), x) ELSE Picked(fs, P)
BY PickedMore

\* h lists the members of P in their order.
InOrderOf(h, P) ==
  /\ P = {h[j] : j \in 1..Len(h)}
  /\ \A i, j \in 1..Len(h) : i < j => h[i] < h[j]

LEMMA OneMore ==
  ASSUME NEW k \in Nat
  PROVE  /\ 1..(k + 1) = (1..k) \cup {k + 1}
         /\ \A i, j \in 1..(k + 1) : i < j => i \in 1..k
OBVIOUS

LEMMA AppendAt ==
  ASSUME NEW D, NEW s \in Seq(D), NEW x \in D, NEW k \in Nat, k = Len(s)
  PROVE  /\ Len(Append(s, x)) = k + 1
         /\ Append(s, x)[k + 1] = x
         /\ \A j \in 1..k : Append(s, x)[j] = s[j]
BY AppendProperties

\* One more place, after all those listed.
LEMMA InOrderAppend ==
  ASSUME NEW n \in Nat, NEW w \in Seq(1..n), NEW P, NEW m \in 1..n,
         InOrderOf(w, P), \A q \in P : q \in Int /\ q < m
  PROVE  InOrderOf(Append(w, m), P \cup {m})
<1>1. PICK k \in Nat : k = Len(w)
  BY LenProperties
<1>2. P = {w[j] : j \in 1..k} /\ \A i, j \in 1..k : i < j => w[i] < w[j]
  BY <1>1 DEF InOrderOf
<1>3. PICK s : s = Append(w, m)
  OBVIOUS
<1>4. Len(s) = k + 1 /\ s[k + 1] = m /\ \A j \in 1..k : s[j] = w[j]
  BY <1>1, <1>3, AppendAt
<1>5. 1..(k + 1) = (1..k) \cup {k + 1}
  BY OneMore
<1>6. P \cup {m} = {s[j] : j \in 1..(k + 1)}
  <2>1. \A q \in P : \E j \in 1..(k + 1) : q = s[j]
    BY <1>2, <1>4, <1>5
  <2>2. \A j \in 1..(k + 1) : s[j] \in P \cup {m}
    BY <1>2, <1>4, <1>5
  <2>3. m = s[k + 1] /\ k + 1 \in 1..(k + 1)
    BY <1>4
  <2> QED
    BY <2>1, <2>2, <2>3
<1>7. ASSUME NEW i \in 1..(k + 1), NEW j \in 1..(k + 1), i < j
      PROVE  s[i] < s[j]
  <2>1. i \in 1..k
    BY <1>7, OneMore
  <2>2. CASE j \in 1..k
    BY <1>2, <1>4, <1>7, <2>1, <2>2
  <2>3. CASE j = k + 1
    <3>1. s[i] \in P
      BY <1>2, <1>4, <2>1
    <3> QED
      BY <1>4, <2>3, <3>1
  <2> QED
    BY <1>5, <2>2, <2>3
<1>8. Len(s) = k + 1
  BY <1>4
<1> QED
  BY <1>3, <1>6, <1>7, <1>8 DEF InOrderOf

\* The members of any list of length n that are picked at P are those that h
\* lists, in its order.
PicksAlong(h, n, P) ==
  \A D : \A fs \in Seq(D) : Len(fs) = n => Picked(fs, P) = [j \in 1..Len(h) |-> fs[h[j]]]

\* Which members are picked, and in which order, depends on the places alone.
LEMMA PickedPlaces ==
  ASSUME NEW n \in Nat, NEW P
  PROVE  \E h \in Seq(1..n) : InOrderOf(h, P \cap 1..n) /\ PicksAlong(h, n, P)
<1> DEFINE idx == [i \in 1..n |-> i]
<1>1. idx \in Seq(1..n) /\ Len(idx) = n /\ \A i \in 1..n : idx[i] = i
  BY IsASeq
<1> HIDE DEF idx
<1>2. PICK v \in [0..n -> Seq(1..n)] : IsPicking(v, idx, P)
  <2>1. \E v \in [0..Len(idx) -> Seq(1..n)] : IsPicking(v, idx, P) /\ Picked(idx, P) = v[Len(idx)]
    BY <1>1, PickedIsLoop
  <2> QED
    BY <1>1, <2>1
<1>3. \A m \in 1..n : /\ v[m] = IF m \in P THEN Append(v[m - 1], m) ELSE v[m - 1]
                      /\ v[m - 1] \in Seq(1..n) /\ v[m] \in Seq(1..n)
  <2>1. Len(idx) = n /\ \A m \in 1..n : m - 1 \in 0..n /\ m \in 0..n
    BY <1>1
  <2>2. \A m \in 1..n : v[m] = IF m \in P THEN Append(v[m - 1], m) ELSE v[m - 1]
    BY <1>1, <1>2, <2>1 DEF IsPicking
  <2> QED
    BY <1>2, <2>1, <2>2
<1>4. v[0] = <<>>
  BY <1>2 DEF IsPicking
<1> DEFINE A == {m \in 0..n : InOrderOf(v[m], P \cap 1..m)}
<1>5. 0 \in A
  BY <1>4 DEF InOrderOf
<1>6. ASSUME NEW m \in 1..n, m - 1 \in A PROVE m \in A
  <2>1. PICK w \in Seq(1..n) : w = v[m - 1]
    BY <1>3
  <2>2. InOrderOf(w, P \cap 1..(m - 1))
    BY <1>6, <2>1
  <2>3. \A q \in P \cap 1..(m - 1) : q \in Int /\ q < m
    OBVIOUS
  <2>4. 1..m = (1..(m - 1)) \cup {m} /\ m \in 0..n
    OBVIOUS
  <2>5. CASE m \in P
    <3>1. v[m] = Append(w, m)
      BY <1>3, <2>1, <2>5
    <3>2. P \cap 1..m = (P \cap 1..(m - 1)) \cup {m}
      BY <2>4, <2>5
    <3>3. InOrderOf(Append(w, m), (P \cap 1..(m - 1)) \cup {m})
      BY <2>2, <2>3, InOrderAppend
    <3> QED
      BY <2>4, <3>1, <3>2, <3>3
  <2>6. CASE m \notin P
    <3>1. v[m] = w
      BY <1>3, <2>1, <2>6
    <3>2. P \cap 1..m = P \cap 1..(m - 1)
      BY <2>4, <2>6
    <3> QED
      BY <2>2, <2>4, <3>1, <3>2
  <2> QED
    BY <2>5, <2>6
<1>7. 0..n \subseteq A
  <2> HIDE DEF A
  <2> QED
    BY <1>5, <1>6, UpToInduction
<1>8. v[n] \in Seq(1..n) /\ InOrderOf(v[n], P \cap 1..n)
  BY <1>7
<1>9. ASSUME NEW D, NEW fs \in Seq(D), Len(fs) = n
      PROVE  Picked(fs, P) = [j \in 1..Len(v[n]) |-> fs[v[n][j]]]
  <2>1. PICK u \in [0..n -> Seq(D)] : IsPicking(u, fs, P) /\ Picked(fs, P) = u[n]
    BY <1>9, PickedIsLoop
  <2>2. u[0] = <<>> /\ \A m \in 1..n : /\ u[m] = IF m \in P THEN Append(u[m - 1], fs[m]) ELSE u[m - 1]
                                       /\ u[m - 1] \in Seq(D) /\ fs[m] \in D
    <3>1. \A m \in 1..n : fs[m] \in D
      BY <1>9, ElementOfSeq
    <3>2. \A m \in 1..n : m - 1 \in 0..n
      OBVIOUS
    <3>3. \A m \in 1..n : u[m - 1] \in Seq(D)
      BY <2>1, <3>2
    <3>4. u[0] = <<>> /\ \A m \in 1..n : u[m] = IF m \in P THEN Append(u[m - 1], fs[m]) ELSE u[m - 1]
      BY <1>9, <2>1 DEF IsPicking
    <3> QED
      BY <3>1, <3>3, <3>4
  <2> DEFINE B == {m \in 0..n : /\ Len(u[m]) = Len(v[m])
                                /\ \A j \in 1..Len(v[m]) : u[m][j] = fs[v[m][j]]}
  <2>3. 0 \in B
    <3>1. u[0] = <<>> /\ v[0] = <<>> /\ 0 \in 0..n
      BY <1>4, <2>2
    <3>2. Len(u[0]) = 0 /\ Len(v[0]) = 0
      BY <3>1
    <3>3. \A j \in 1..Len(v[0]) : u[0][j] = fs[v[0][j]]
      BY <3>2
    <3> QED
      BY <3>1, <3>2, <3>3
  <2>4. ASSUME NEW m \in 1..n, m - 1 \in B PROVE m \in B
    <3>1. PICK w \in Seq(1..n), x \in Seq(D) : w = v[m - 1] /\ x = u[m - 1]
      BY <1>3, <2>2
    <3>2. PICK k \in Nat : k = Len(w) /\ k = Len(x)
      BY <2>4, <3>1, LenProperties
    <3>3. \A j \in 1..k : x[j] = fs[w[j]]
      BY <2>4, <3>1, <3>2
    <3>4. CASE m \in P
      <4>1. v[m] = Append(w, m) /\ u[m] = Append(x, fs[m]) /\ fs[m] \in D
        BY <1>3, <2>2, <3>1, <3>4
      <4>2. Len(v[m]) = k + 1 /\ v[m][k + 1] = m /\ \A j \in 1..k : v[m][j] = w[j]
        <5>1. PICK I : I = 1..n
          OBVIOUS
        <5>2. w \in Seq(I) /\ m \in I /\ k = Len(w)
          BY <3>2, <5>1
        <5>3. /\ Len(Append(w, m)) = k + 1
              /\ Append(w, m)[k + 1] = m
              /\ \A j \in 1..k : Append(w, m)[j] = w[j]
          BY <5>2, AppendAt
        <5> QED
          BY <4>1, <5>3
      <4>3. Len(u[m]) = k + 1 /\ u[m][k + 1] = fs[m] /\ \A j \in 1..k : u[m][j] = x[j]
        BY <3>2, <4>1, AppendAt
      <4>4. 1..(k + 1) = (1..k) \cup {k + 1}
        BY OneMore
      <4>5. \A j \in 1..(k + 1) : u[m][j] = fs[v[m][j]]
        BY <3>3, <4>2, <4>3, <4>4
      <4>6. m \in 0..n
        OBVIOUS
      <4> QED
        BY <4>2, <4>3, <4>5, <4>6
    <3>5. CASE m \notin P
      <4>1. v[m] = w /\ u[m] = x /\ m \in 0..n
        BY <1>3, <2>2, <3>1, <3>5
      <4>2. Len(u[m]) = Len(v[m])
        BY <3>2, <4>1
      <4>3. \A j \in 1..Len(v[m]) : u[m][j] = fs[v[m][j]]
        BY <3>2, <3>3, <4>1
      <4> QED
        BY <4>1, <4>2, <4>3
    <3> QED
      BY <3>4, <3>5
  <2>5. 0..n \subseteq B
    <3> HIDE DEF B
    <3> QED
      BY <2>3, <2>4, UpToInduction
  <2>6. Len(u[n]) = Len(v[n]) /\ \A j \in 1..Len(v[n]) : u[n][j] = fs[v[n][j]]
    BY <2>5
  <2>7. u[n] \in Seq(D)
    BY <2>1
  <2>8. u[n] = [j \in 1..Len(u[n]) |-> u[n][j]]
    BY <2>7, LenProperties
  <2> QED
    BY <2>1, <2>6, <2>8
<1> QED
  BY <1>8, <1>9 DEF PicksAlong

\* There are as many as places.
LEMMA PlacesCount ==
  ASSUME NEW n \in Nat, NEW h \in Seq(1..n), NEW P, InOrderOf(h, P)
  PROVE  IsFiniteSet(P) /\ Len(h) = Cardinality(P)
<1>1. PICK k \in Nat : k = Len(h)
  BY LenProperties
<1> DEFINE f == [j \in 1..k |-> h[j]]
<1>2. P = {h[j] : j \in 1..k} /\ \A i, j \in 1..k : i < j => h[i] < h[j]
  BY <1>1 DEF InOrderOf
<1>3. \A j \in 1..k : h[j] \in Int
  BY <1>1, ElementOfSeq
<1>4. f \in Bijection(1..k, P)
  <2>1. f \in Surjection(1..k, P)
    BY <1>2 DEF Surjection
  <2>2. ASSUME NEW i \in 1..k, NEW j \in 1..k, f[i] = f[j] PROVE i = j
    <3>1. h[i] = h[j] /\ h[i] \in Int
      BY <1>3, <2>2
    <3>2. ~(i < j) /\ ~(j < i)
      BY <1>2, <3>1
    <3> QED
      BY <3>2
  <2> QED
    BY <2>1, <2>2 DEF Bijection, Injection, Surjection, IsInjective
<1>5. IsFiniteSet(1..k) /\ Cardinality(1..k) = k
  <2>1. Cardinality(1..k) = IF 1 > k THEN 0 ELSE k - 1 + 1
    BY FS_Interval
  <2> QED
    BY <2>1, FS_Interval
<1>6. ExistsBijection(1..k, P)
  BY <1>4 DEF ExistsBijection
<1> QED
  BY <1>1, <1>5, <1>6, FS_Bijection
================================================================================
