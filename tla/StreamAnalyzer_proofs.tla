------------------------- MODULE StreamAnalyzer_proofs -------------------------
(***************************************************************************)
(* Proofs about StreamAnalyzer: for every modulus, every source and every  *)
(* capture whose successive frames are within half the counter range, the  *)
(* transport report is the truth.                                          *)
(***************************************************************************)
EXTENDS StreamAnalyzer, Lemmas

-------------------------------------------------------------------------------
(* The counter.                                                            *)

\* Every counter is below the modulus.
LEMMA SeqType ==
  /\ SEQ_MODULUS \in Nat \ {0}
  /\ \A n \in Int : Seq16(n) \in 0 .. SEQ_MODULUS - 1
<1>1. SEQ_MODULUS \in Nat \ {0}
  BY HalfAssumption DEF SEQ_MODULUS
<1> QED
  BY <1>1, DivMod DEF Seq16

LEMMA CounterType ==
  ASSUME NEW n \in Int
  PROVE  Seq16(n) \in Int /\ Seq16(n) \in 0 .. SEQ_MODULUS - 1
<1>1. Seq16(n) \in 0 .. SEQ_MODULUS - 1
  BY SeqType
<1> QED
  BY <1>1, SeqType

\* Two frames less than half the counter range apart have the signed delta of
\* their true numbers, however often the counter wrapped (_signed_delta).
THEOREM SignedDeltaIsTrueDelta ==
  ASSUME NEW a \in Int, NEW b \in Int, a - b \in -HALF .. HALF - 1
  PROVE  SignedDelta(Seq16(a), Seq16(b)) = a - b
BY HalfAssumption, SignedRemainder DEF SignedDelta, Seq16, SEQ_MODULUS

-------------------------------------------------------------------------------
(* The counts of the report.                                               *)

\* The range of a sequence of integers is a finite set of integers, empty only
\* for the empty sequence.
LEMMA RangeType ==
  ASSUME NEW s \in Seq(Int)
  PROVE  /\ RangeOf(s) \subseteq Int
         /\ IsFiniteSet(RangeOf(s))
         /\ \A i \in 1..Len(s) : s[i] \in RangeOf(s)
<1>1. IsFiniteSet(1..Len(s))
  BY FS_Interval
<1>2. [i \in 1..Len(s) |-> s[i]] \in Surjection(1..Len(s), RangeOf(s))
  BY DEF Surjection, RangeOf
<1>3. IsFiniteSet(RangeOf(s))
  BY <1>1, <1>2, FS_Surjection
<1> QED
  BY <1>3 DEF RangeOf

\* Max and Min pick the bounds of a set that has them.
LEMMA BoundsAreMaxMin ==
  ASSUME NEW S \in SUBSET Int, NEW lo \in S, NEW hi \in S,
         \A n \in S : lo <= n /\ n <= hi
  PROVE  Max(S) = hi /\ Min(S) = lo
<1>1. ASSUME NEW x \in S, \A y \in S : x >= y  PROVE x = hi
  BY <1>1
<1>2. ASSUME NEW x \in S, \A y \in S : x =< y  PROVE x = lo
  BY <1>2
<1>3. \A y \in S : hi >= y /\ lo =< y
  OBVIOUS
<1> QED
  BY <1>1, <1>2, <1>3 DEF Max, Min

\* Every value of a sequence has a first place.
LEMMA HasFirst ==
  ASSUME NEW s \in Seq(Int), NEW i \in 1..Len(s)
  PROVE  \E j \in 1..i : s[j] = s[i] /\ j \notin Repeats(s)
<1> DEFINE P == {k \in 1..i : s[k] = s[i]}
<1>1. i \in Nat \ {0} /\ i <= Len(s) /\ Len(s) \in Nat
  OBVIOUS
<1>2. P \in SUBSET Int /\ P # {} /\ IsFiniteSet(P)
  <2>1. IsFiniteSet(1..i)
    BY FS_Interval
  <2>2. P \subseteq 1..i /\ i \in P
    BY <1>1
  <2> QED
    BY <2>1, <2>2, FS_Subset
<1>3. PICK j \in P : \A k \in P : j <= k
  <2> HIDE DEF P
  <2> QED
    BY <1>2, FiniteBounds
<1>4. \A k \in 1..(j - 1) : s[k] # s[j]
  BY <1>1, <1>3
<1> QED
  BY <1>3, <1>4 DEF Repeats

\* Shifting a capture by a constant changes none of the report's counts, and
\* the counts analyze_stream takes are the ones they stand for.
THEOREM ShiftedReportIsTruth ==
  ASSUME NEW s \in Seq(Int), NEW t \in Seq(Int), NEW c \in Int,
         s # <<>>, Len(t) = Len(s),
         \A i \in 1..Len(s) : t[i] = s[i] - c
  PROVE  /\ ReportOf(t) = Truth(s)
         /\ Truth(s) \in [lost : Nat, reordered : Nat, duplicated : Nat]
<1> DEFINE R == RangeOf(s)
           T == RangeOf(t)
<1>1. /\ R \subseteq Int /\ IsFiniteSet(R)
      /\ T \subseteq Int /\ IsFiniteSet(T)
  BY RangeType
<1>i. \A i \in 1..Len(s) : s[i] \in Int /\ t[i] \in Int /\ t[i] + c = s[i]
  OBVIOUS
<1>2. /\ \A x \in T : x + c \in R
      /\ \A n \in R : n - c \in T
  <2>1. ASSUME NEW x \in T  PROVE x + c \in R
    <3>1. PICK i \in 1..Len(s) : x = t[i]
      BY DEF RangeOf
    <3>2. x + c = s[i]
      BY <1>i, <3>1
    <3> QED
      BY <3>2 DEF RangeOf
  <2>2. ASSUME NEW n \in R  PROVE n - c \in T
    <3>1. PICK i \in 1..Len(s) : n = s[i]
      BY DEF RangeOf
    <3>2. n - c = t[i]
      BY <3>1
    <3> QED
      BY <3>2 DEF RangeOf
  <2> QED
    BY <2>1, <2>2
<1>3. Cardinality(T) = Cardinality(R)
  <2> DEFINE f == [n \in R |-> n - c]
  <2>1. f \in [R -> T]
    BY <1>2
  <2>2. \A x \in T : \E n \in R : f[n] = x
    BY <1>1, <1>2
  <2>3. \A m, n \in R : f[m] = f[n] => m = n
    BY <1>1
  <2>4. f \in Bijection(R, T)
    BY <2>1, <2>2, <2>3 DEF Bijection, Injection, Surjection, IsInjective
  <2> QED
    BY <1>1, <2>4, FS_Bijection DEF ExistsBijection
<1>4. PICK lo \in R, hi \in R : \A n \in R : lo <= n /\ n <= hi
  <2>1. s[1] \in R /\ R \in SUBSET Int /\ R # {}
    <3>1. 1 \in 1..Len(s)
      OBVIOUS
    <3> QED
      BY <1>1, <3>1, RangeType
  <2> HIDE DEF R
  <2> QED
    BY <1>1, <2>1, FiniteBounds
<1>5. Max(R) = hi /\ Min(R) = lo
  BY <1>1, <1>4, BoundsAreMaxMin
<1>6. Max(T) = hi - c /\ Min(T) = lo - c
  <2>1. /\ lo - c \in T /\ hi - c \in T
        /\ \A x \in T : lo - c <= x /\ x <= hi - c
    <3> HIDE DEF R, T
    <3>1. lo \in Int /\ hi \in Int /\ \A x \in T : x \in Int
      BY <1>1
    <3>2. \A x \in T : lo <= x + c /\ x + c <= hi
      BY <1>2, <1>4
    <3>3. \A x \in T : lo - c <= x /\ x <= hi - c
      BY <3>1, <3>2
    <3>4. lo - c \in T /\ hi - c \in T
      BY <1>2, Zenon
    <3> QED
      BY <3>3, <3>4, Zenon
  <2> QED
    BY <1>1, <2>1, BoundsAreMaxMin
<1>7. /\ IsFiniteSet(Missing(s))
      /\ Cardinality(Missing(s)) = (hi - lo + 1) - Cardinality(R)
  <2>1. lo \in Int /\ hi \in Int /\ lo <= hi
    BY <1>1, <1>4
  <2>2. IsFiniteSet(lo..hi) /\ Cardinality(lo..hi) = hi - lo + 1
    BY <2>1, FS_Interval
  <2>3. (lo..hi) \cap R = R
    BY <1>1, <1>4
  <2>4. Cardinality((lo..hi) \ R) = Cardinality(lo..hi) - Cardinality((lo..hi) \cap R)
    BY <2>2, FS_Difference
  <2> QED
    BY <1>5, <2>2, <2>3, <2>4, FS_Difference DEF Missing
<1>8. /\ IsFiniteSet(Repeats(s))
      /\ Cardinality(Repeats(s)) = Len(s) - Cardinality(R)
  <2> DEFINE D == 1..Len(s)
             F == D \ Repeats(s)
             g == [i \in F |-> s[i]]
  <2>1. IsFiniteSet(D) /\ Cardinality(D) = Len(s) /\ Len(s) \in Nat
    BY FS_Interval
  <2>2. Repeats(s) \subseteq D /\ D \cap Repeats(s) = Repeats(s)
    BY DEF Repeats
  <2>3. IsFiniteSet(Repeats(s)) /\ Cardinality(Repeats(s)) \in Nat
    BY <2>1, <2>2, FS_Subset, FS_CardinalityType
  <2>4. IsFiniteSet(F) /\ Cardinality(F) = Len(s) - Cardinality(Repeats(s))
    <3> HIDE DEF D
    <3>1. IsFiniteSet(F) /\ Cardinality(F) = Cardinality(D) - Cardinality(D \cap Repeats(s))
      BY <2>1, FS_Difference
    <3> QED
      BY <2>1, <2>2, <3>1
  <2>5. g \in [F -> R]
    BY DEF RangeOf
  <2>6. \A n \in R : \E i \in F : g[i] = n
    <3> TAKE n \in R
    <3>1. PICK i \in D : s[i] = n
      BY DEF RangeOf
    <3>2. PICK j \in 1..i : s[j] = s[i] /\ j \notin Repeats(s)
      BY <3>1, HasFirst
    <3> QED
      BY <2>1, <3>1, <3>2
  <2>7. \A i, j \in F : g[i] = g[j] => i = j
    <3> SUFFICES ASSUME NEW i \in F, NEW j \in F, s[i] = s[j], i < j
                 PROVE  FALSE
      OBVIOUS
    <3> QED
      BY <2>1 DEF Repeats
  <2>8. g \in Bijection(F, R)
    BY <2>5, <2>6, <2>7 DEF Bijection, Injection, Surjection, IsInjective
  <2>9. Cardinality(R) = Cardinality(F)
    BY <2>4, <2>8, FS_Bijection DEF ExistsBijection
  <2> QED
    BY <2>1, <2>3, <2>4, <2>9
<1>9. Backsteps(t) = Backsteps(s)
  <2>1. Len(s) \in Nat
    OBVIOUS
  <2>2. \A i \in 2..Len(s) : t[i] < t[i - 1] <=> s[i] < s[i - 1]
    <3> TAKE i \in 2..Len(s)
    <3>1. i \in 1..Len(s) /\ i - 1 \in 1..Len(s)
      BY <2>1
    <3>2. s[i] \in Int /\ t[i] \in Int /\ t[i] + c = s[i]
      BY <1>i, <3>1
    <3>3. s[i - 1] \in Int /\ t[i - 1] \in Int /\ t[i - 1] + c = s[i - 1]
      BY <1>i, <3>1
    <3> DEFINE a == t[i]
               b == t[i - 1]
               x == s[i]
               y == s[i - 1]
    <3>4. a \in Int /\ b \in Int /\ x \in Int /\ y \in Int /\ a + c = x /\ b + c = y
      BY <3>2, <3>3
    <3> HIDE DEF a, b, x, y
    <3>5. a < b <=> x < y
      BY <3>4, Z3
    <3> QED
      BY <3>5 DEF a, b, x, y
  <2> QED
    BY <2>2 DEF Backsteps
<1>10. Truth(s) \in [lost : Nat, reordered : Nat, duplicated : Nat]
  <2>1. IsFiniteSet(1..Len(s)) /\ Backsteps(s) \subseteq 1..Len(s)
    BY FS_Interval DEF Backsteps
  <2>2. IsFiniteSet(Backsteps(s))
    BY <2>1, FS_Subset
  <2>3. /\ Cardinality(Missing(s)) \in Nat
        /\ Cardinality(Backsteps(s)) \in Nat
        /\ Cardinality(Repeats(s)) \in Nat
    BY <1>7, <1>8, <2>2, FS_CardinalityType
  <2> QED
    BY <2>3 DEF Truth
<1> QED
  <2>1. (hi - c) - (lo - c) + 1 = hi - lo + 1
    BY <1>1, <1>4
  <2> QED
    BY <1>3, <1>5, <1>6, <1>7, <1>8, <1>9, <1>10, <2>1 DEF ReportOf, Truth

-------------------------------------------------------------------------------
(* Invariance.                                                             *)

\* The inductive invariant holds of every initial state.
LEMMA InitIInv == Init => IInv
<1> SUFFICES ASSUME Init  PROVE IInv
  OBVIOUS
<1>1. TypeOK
  BY HalfAssumption, StreamAssumption DEF Init, TypeOK, NoReport, SEQ_MODULUS
<1>2. Len(frames) = 0 /\ phase = "capturing" /\ extended = <<>>
  BY DEF Init
<1> QED
  BY <1>1, <1>2 DEF Init, IInv, StepsWithinPath, UnwrappedIsShifted, ReportIsTruth

\* Appending a captured frame keeps the facts about the capture.
LEMMA CaptureIInv ==
  ASSUME IInv, NEW n \in FirstFrame .. FirstFrame + emitted - 1, Capture(n)
  PROVE  IInv'
<1> USE StreamAssumption DEF IInv
<1>1. /\ n \in Nat /\ frames \in Seq(Nat) /\ Len(frames) \in Nat
      /\ frames' = Append(frames, n) /\ frames' \in Seq(Nat)
      /\ Len(frames') = Len(frames) + 1
      /\ phase = "capturing" /\ phase' = "capturing"
  BY DEF TypeOK, Capture
<1>2. /\ \A i \in 1..Len(frames) : frames'[i] = frames[i] /\ frames[i] \in Nat
      /\ frames'[Len(frames) + 1] = n
  BY <1>1
<1>3. TypeOK'
  BY <1>1 DEF TypeOK, Capture
<1>4. StepsWithinPath'
  <2> SUFFICES ASSUME NEW i \in 2..Len(frames')
               PROVE  frames'[i] - frames'[i - 1] \in -MaxLate .. MaxGap
    BY DEF StepsWithinPath
  <2>1. CASE i \in 2..Len(frames)
    <3>1. frames'[i] = frames[i] /\ frames'[i - 1] = frames[i - 1]
      BY <1>1, <1>2, <2>1
    <3> QED
      BY <2>1, <3>1 DEF StepsWithinPath
  <2>2. CASE i = Len(frames) + 1
    <3>1. frames # <<>> /\ Len(frames) \in 1..Len(frames)
      BY <1>1, <2>2
    <3>2. frames'[i] = n /\ frames'[i - 1] = frames[Len(frames)]
      BY <1>1, <1>2, <2>2, <3>1
    <3> QED
      BY <3>1, <3>2 DEF Capture
  <2> QED
    BY <1>1, <2>1, <2>2
<1>5. UnwrappedIsShifted'
  BY <1>1 DEF UnwrappedIsShifted, Capture
<1>6. ReportIsTruth'
  BY <1>1 DEF ReportIsTruth
<1> QED
  BY <1>3, <1>4, <1>5, <1>6

\* The displacement of the unwrapped space is an integer.
LEMMA ShiftType == ASSUME frames[1] \in Int PROVE Shift \in Int
<1>1. Seq16(frames[1]) \in Int
  BY CounterType
<1> QED
  BY <1>1 DEF Shift

\* Seeding the unwrapped space displaces it by whole turns of the counter.
LEMMA StartUnwrapIInv == ASSUME IInv, StartUnwrap PROVE IInv'
<1> USE DEF IInv
<1>1. frames # <<>> /\ Len(frames) \in Nat /\ Len(frames) >= 1 /\ frames[1] \in Nat
  BY DEF TypeOK, StartUnwrap
<1>2. /\ Seq16(frames[1]) \in 0 .. SEQ_MODULUS - 1 /\ Seq16(frames[1]) \in Int
      /\ Shift \in Int /\ frames[1] - Shift = Seq16(frames[1])
  <2>1. SEQ_MODULUS \in Nat \ {0}
    BY SeqType, Zenon
  <2>2. Seq16(frames[1]) \in 0 .. SEQ_MODULUS - 1
    <3>1. frames[1] \in Int
      BY <1>1
    <3> QED
      BY <3>1, SeqType, Zenon
  <2>3. Seq16(frames[1]) \in Int /\ frames[1] \in Int
    BY <1>1, <2>1, <2>2
  <2> HIDE DEF IInv
  <2> QED
    BY <2>2, <2>3 DEF Shift
<1>3. TypeOK'
  BY <1>2 DEF TypeOK, StartUnwrap
<1>4. UnwrappedIsShifted'
  BY <1>1, <1>2 DEF UnwrappedIsShifted, StartUnwrap, Shift
<1>5. StepsWithinPath' /\ ReportIsTruth'
  BY DEF StartUnwrap, StepsWithinPath, ReportIsTruth
<1> QED
  BY <1>3, <1>4, <1>5

\* The next frame unwraps to its true number, displaced like the others.
LEMMA UnwrapNextIInv == ASSUME IInv, PathWithinHalf, UnwrapNext PROVE IInv'
<1> USE DEF IInv
<1> DEFINE k == Len(extended)
           cur == frames[k + 1]
<1>1. /\ k \in Nat /\ k >= 1 /\ k + 1 \in 2..Len(frames) /\ k \in 1..Len(frames)
      /\ frames[k] \in Nat /\ cur \in Nat /\ frames[1] \in Nat
  <2>1. frames \in Seq(Nat) /\ Len(frames) \in Nat
    BY DEF TypeOK
  <2>2. k \in 1..Len(frames) /\ k < Len(frames)
    BY DEF UnwrapNext, UnwrappedIsShifted
  <2> HIDE DEF k
  <2>3. k \in Nat /\ k >= 1 /\ k + 1 \in 2..Len(frames) /\ k + 1 \in 1..Len(frames)
        /\ 1 \in 1..Len(frames)
    BY <2>1, <2>2
  <2> QED
    BY <2>1, <2>2, <2>3
<1>2. cur - frames[k] \in -HALF .. HALF - 1
  <2>1. cur - frames[k] \in -MaxLate .. MaxGap
    BY <1>1 DEF StepsWithinPath
  <2> QED
    BY <1>1, <2>1, HalfAssumption, StreamAssumption DEF PathWithinHalf
<1>3. SignedDelta(Seq16(cur), prev16) = cur - frames[k]
  BY <1>1, <1>2, SignedDeltaIsTrueDelta DEF UnwrappedIsShifted, UnwrapNext
<1>4. Shift \in Int
  BY <1>1, ShiftType
<1>5. ext' = cur - Shift
  <2>1. ext = frames[k] - Shift
    BY <1>1 DEF UnwrapNext, UnwrappedIsShifted
  <2>2. ext' = ext + (cur - frames[k])
    BY <1>3 DEF UnwrapNext
  <2>3. PICK x \in Int, y \in Int, d \in Int : x = cur /\ y = frames[k] /\ d = Shift
    BY <1>1, <1>4
  <2>4. y - d + (x - y) = x - d
    BY <2>3
  <2> HIDE DEF cur, k, IInv
  <2> QED
    BY <2>1, <2>2, <2>3, <2>4
<1>6. prev16' = Seq16(cur) /\ Seq16(cur) \in 0 .. SEQ_MODULUS - 1
  <2>1. prev16' = Seq16(cur)
    BY DEF UnwrapNext
  <2>2. cur \in Int
    BY <1>1
  <2> HIDE DEF cur
  <2> QED
    BY <2>1, <2>2, CounterType
<1>7. ext' \in Int
  BY <1>1, <1>4, <1>5
<1>8. /\ extended' \in Seq(Int) /\ Len(extended') = k + 1
      /\ extended'[k + 1] = ext'
      /\ \A i \in 1..k : extended'[i] = extended[i]
  BY <1>7 DEF UnwrapNext, TypeOK
<1>9. TypeOK'
  BY <1>6, <1>7, <1>8 DEF TypeOK, UnwrapNext
<1>10. UnwrappedIsShifted'
  <2>1. Shift' = Shift /\ frames' = frames /\ phase' = "unwrapping"
    BY DEF Shift, UnwrapNext
  <2>2. \A i \in 1..k : extended[i] = frames[i] - Shift
    BY DEF UnwrapNext, UnwrappedIsShifted
  <2>3. \A i \in 1 .. k + 1 : extended'[i] = frames[i] - Shift
    <3> HIDE DEF k
    <3>1. ASSUME NEW i \in 1 .. k + 1  PROVE i \in 1..k \/ i = k + 1
      BY <1>1
    <3> QED
      BY <1>5, <1>8, <2>2, <3>1
  <2>4. k + 1 \in 1..Len(frames)
    BY <1>1
  <2> QED
    BY <1>6, <1>8, <2>1, <2>3, <2>4 DEF UnwrappedIsShifted
<1>11. StepsWithinPath' /\ ReportIsTruth'
  BY DEF UnwrapNext, StepsWithinPath, ReportIsTruth
<1> QED
  BY <1>9, <1>10, <1>11

\* The counts taken over the shifted list are the true ones.
LEMMA MakeReportIInv == ASSUME IInv, MakeReport PROVE IInv'
<1> USE DEF IInv
<1>1. /\ frames \in Seq(Int) /\ extended \in Seq(Int) /\ frames[1] \in Int
      /\ frames # <<>> /\ Len(extended) = Len(frames)
  BY DEF TypeOK, MakeReport, UnwrappedIsShifted
<1>2. Shift \in Int
  BY <1>1, ShiftType
<1>3. /\ ReportOf(extended) = Truth(frames)
      /\ Truth(frames) \in [lost : Nat, reordered : Nat, duplicated : Nat]
  <2>1. \A i \in 1..Len(frames) : extended[i] = frames[i] - Shift
    BY <1>1 DEF MakeReport, UnwrappedIsShifted
  <2> QED
    BY <1>1, <1>2, <2>1, ShiftedReportIsTruth
<1>4. TypeOK' /\ ReportIsTruth'
  BY <1>3 DEF TypeOK, ReportIsTruth, MakeReport
<1>5. StepsWithinPath' /\ UnwrappedIsShifted'
  BY DEF MakeReport, StepsWithinPath, UnwrappedIsShifted
<1> QED
  BY <1>4, <1>5

\* Every step keeps the inductive invariant, if the path keeps successive
\* captured frames within half the counter range.
LEMMA NextIInv == ASSUME PathWithinHalf PROVE IInv /\ [Next]_vars => IInv'
<1> SUFFICES ASSUME IInv, [Next]_vars  PROVE IInv'
  OBVIOUS
<1>f. frames' = frames => StepsWithinPath'
  BY DEF IInv, StepsWithinPath
<1>1. CASE Emit
  <2>1. TypeOK' /\ UnwrappedIsShifted' /\ ReportIsTruth'
    BY <1>1, StreamAssumption DEF IInv, TypeOK, UnwrappedIsShifted, ReportIsTruth,
       Emit, Shift
  <2> QED
    BY <1>1, <1>f, <2>1 DEF IInv, Emit
<1>2. ASSUME NEW n \in FirstFrame .. FirstFrame + emitted - 1, Capture(n)
      PROVE  IInv'
  BY <1>2, CaptureIInv
<1>3. CASE AnalyzeEmpty
  <2>1. TypeOK' /\ UnwrappedIsShifted' /\ ReportIsTruth'
    BY <1>3 DEF IInv, TypeOK, UnwrappedIsShifted, ReportIsTruth, AnalyzeEmpty,
                NoReport, Truth
  <2> QED
    BY <1>3, <1>f, <2>1 DEF IInv, AnalyzeEmpty
<1>4. CASE StartUnwrap
  BY <1>4, StartUnwrapIInv
<1>5. CASE UnwrapNext
  BY <1>5, UnwrapNextIInv
<1>6. CASE MakeReport
  BY <1>6, MakeReportIInv
<1>7. CASE UNCHANGED vars
  <2>1. TypeOK' /\ UnwrappedIsShifted' /\ ReportIsTruth'
    BY <1>7 DEF IInv, TypeOK, UnwrappedIsShifted, ReportIsTruth, vars, Shift
  <2> QED
    BY <1>7, <1>f, <2>1 DEF IInv, vars
<1> QED
  BY <1>1, <1>2, <1>3, <1>4, <1>5, <1>6, <1>7 DEF Next

\* On a path that keeps successive captured frames within half the counter
\* range, the variables of analyze_stream keep their types: in particular no
\* reported count is ever negative.
THEOREM TypeCorrect == ASSUME PathWithinHalf PROVE Spec => []TypeOK
<1>1. IInv => TypeOK
  BY DEF IInv
<1>2. IInv /\ [Next]_vars => IInv'
  BY NextIInv
<1> QED
  BY <1>1, <1>2, InitIInv, PTL DEF Spec

\* On such a path every finished report is the truth about the capture
\* (analyze_stream), for every modulus, source and capture length.
THEOREM ReportCorrect == ASSUME PathWithinHalf PROVE Spec => []ReportIsTruth
<1>1. IInv => ReportIsTruth
  BY DEF IInv
<1>2. IInv /\ [Next]_vars => IInv'
  BY NextIInv
<1> QED
  BY <1>1, <1>2, InitIInv, PTL DEF Spec
===============================================================================
