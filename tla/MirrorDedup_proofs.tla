-------------------------- MODULE MirrorDedup_proofs --------------------------
(***************************************************************************)
(* Proofs about dedupe_mirror_twins, for any sources, widths, contents and *)
(* captures of any length: nothing is lost to it as long as the path and   *)
(* the mirror together stay within a turn of the counter, and off a tight  *)
(* mirror it gives back a capture of one direction.                        *)
(***************************************************************************)
EXTENDS MirrorDedup, Lemmas

Copies ==
  [src : Sources, num : Int, seq : 0..SEQ_MODULUS - 1, audio : Audio, len : Nat, opaque : BOOLEAN]

Typed ==
  /\ mirror \in Mirrors
  /\ closed \in BOOLEAN
  /\ sent \in [Sources -> Seq(Audio)] /\ \A s \in Sources : Len(sent[s]) <= MaxSent
  /\ owed \in [Sources -> Seq(NumberRange)]
  /\ capture \in Seq(Copies)
  /\ pos \in 0..Len(capture)
  /\ prev \in [Sources -> BodyType]
  /\ kept \in Seq(Copies) /\ Len(kept) <= pos

\* What the mirror owes of a source are frames sent, the last ones.
OwedIsRecent ==
  \A s \in Sources :
    /\ Len(owed[s]) <= mirror.lag
    /\ \A i \in 1..Len(owed[s]) :
         /\ owed[s][i] \in FirstFrame .. NextNumber(s) - 1
         /\ owed[s][i] >= NextNumber(s) - 1 - (Len(owed[s]) - i)

\* A copy is of a frame sent, and clean_payload_len takes its residue off.
IsCopyOf(c, s, n) ==
  /\ c.src = s /\ c.num = n
  /\ n \in FirstFrame .. NextNumber(s) - 1
  /\ c.seq = Seq16(n)
  /\ c.audio = AudioOf(s, n)
  /\ clean_payload_len(c.len) = PAYLOAD_OVERHEAD + Width[s] * BYTES_PER_CHANNEL
  /\ c.opaque => mirror.opaque

Genuine == \A i \in 1..Len(capture) : IsCopyOf(capture[i], capture[i].src, capture[i].num)

SameSource(i, j) == capture[i].src = capture[j].src

\* A copy is behind an earlier one of its source by less than the mirror lags ...
NotFarBehind ==
  \A j \in 1..Len(capture) : \A i \in 1..j - 1 :
    SameSource(i, j) => capture[i].num - capture[j].num < mirror.lag

\* ... and ahead of some earlier one by at most what the path loses.
NotFarAhead ==
  \A j \in 1..Len(capture) :
    (\E i \in 1..j - 1 : SameSource(i, j)) =>
      \E i \in 1..j - 1 : SameSource(i, j) /\ capture[j].num - capture[i].num <= MaxGap

\* Nothing is read before the capture ends.
ReadWhenClosed == ~closed => pos = 0 /\ prev = [s \in Sources |-> NoBody] /\ kept = <<>>

\* The body a source's next copy is compared with is that of its last copy.
IsLast(p, s) ==
  /\ p \in 1..pos /\ capture[p].src = s
  /\ \A q \in p + 1 .. pos : capture[q].src # s

PrevIsLast ==
  \A s \in Sources :
    IF prev[s] = NoBody
      THEN mirror.opaque \/ \A q \in 1..pos : capture[q].src # s
      ELSE \E p \in 1..pos : IsLast(p, s) /\ prev[s] = Body(capture[p])

KeptIsCaptured == \A k \in 1..Len(kept) : \E i \in 1..pos : kept[k] = capture[i]

PathInv == Typed /\ OwedIsRecent /\ Genuine /\ NotFarBehind /\ NotFarAhead /\ ReadWhenClosed
DedupeInv == PrevIsLast /\ KeptIsCaptured
IInv == PathInv /\ DedupeInv

-------------------------------------------------------------------------------
(* Lengths and bodies.                                                      *)

LEMMA ModulusType == SEQ_MODULUS \in Nat \ {0}
BY HalfAssumption DEF SEQ_MODULUS

\* Both lengths a frame of w channels can have come out as one.
LEMMA CleanLength ==
  ASSUME NEW w \in Nat \ {0}
  PROVE  LET n == PAYLOAD_OVERHEAD + w * BYTES_PER_CHANNEL
         IN  clean_payload_len(n) = n /\ clean_payload_len(n + FCS_RESIDUE) = n
<1> DEFINE n == PAYLOAD_OVERHEAD + w * BYTES_PER_CHANNEL
<1>1. /\ n = 38 + w * 36 /\ n \in Nat /\ n >= 40
      /\ n - 38 = w * 36 /\ n + 2 - 38 = w * 36 + 2
  BY DEF PAYLOAD_OVERHEAD, BYTES_PER_CHANNEL
<1>2. (w * 36) % 36 = 0 /\ (w * 36 + 2) % 36 = 2
  BY Z3
<1> HIDE DEF n
<1>3. clean_payload_len(n) = n /\ clean_payload_len(n + 2) = n
  BY <1>1, <1>2 DEF clean_payload_len, PAYLOAD_OVERHEAD, BYTES_PER_CHANNEL, FCS_RESIDUE
<1> QED
  BY <1>3 DEF n, FCS_RESIDUE

\* clean_payload_len gives a length.
LEMMA CleanIsLength ==
  ASSUME NEW n \in Nat
  PROVE  clean_payload_len(n) \in Nat
BY DEF clean_payload_len, PAYLOAD_OVERHEAD, FCS_RESIDUE

\* A body is not the missing one, and is a body.
LEMMA BodyOfCopy ==
  ASSUME NEW c \in Copies
  PROVE  Body(c) \in BodyType /\ Body(c) # NoBody
<1>1. clean_payload_len(c.len) \in Nat
  BY CleanIsLength DEF Copies
<1>2. Body(c) \in [seq : 0 .. SEQ_MODULUS - 1, audio : Audio, len : Nat]
  BY <1>1 DEF Body, Copies
<1>3. "seq" \in DOMAIN Body(c) /\ "seq" \notin DOMAIN NoBody
  BY DEF Body, NoBody
<1> QED
  BY <1>2, <1>3 DEF BodyType

\* Copies of one frame have one body, and within a turn of the counter
\* copies of a source with one body are of one frame.
LEMMA BodyTellsFrame ==
  ASSUME Typed, Genuine, NEW i \in 1..Len(capture), NEW j \in 1..Len(capture), SameSource(i, j)
  PROVE  /\ capture[i].num = capture[j].num => Body(capture[i]) = Body(capture[j])
         /\ /\ Body(capture[i]) = Body(capture[j])
            /\ -SEQ_MODULUS < capture[i].num - capture[j].num
            /\ capture[i].num - capture[j].num < SEQ_MODULUS
            => capture[i].num = capture[j].num
<1>1. /\ capture[i].num \in Int /\ capture[j].num \in Int
      /\ capture[i].seq = Seq16(capture[i].num) /\ capture[j].seq = Seq16(capture[j].num)
  <2>1. capture[i] \in Copies /\ capture[j] \in Copies
    BY DEF Typed
  <2>2. capture[i].num \in Int /\ capture[j].num \in Int
    BY <2>1 DEF Copies
  <2> QED
    BY <2>2 DEF Genuine, IsCopyOf
<1>2. capture[i].num = capture[j].num => Body(capture[i]) = Body(capture[j])
  BY DEF Genuine, IsCopyOf, SameSource, Body
<1>3. Body(capture[i]) = Body(capture[j]) => capture[i].seq = capture[j].seq
  <2>1. Body(capture[i]).seq = capture[i].seq /\ Body(capture[j]).seq = capture[j].seq
    BY DEF Body
  <2> QED
    BY <2>1
<1> QED
  BY <1>1, <1>2, <1>3, ModulusType, SameRemainder DEF Seq16

-------------------------------------------------------------------------------
(* The path: what the steps up to the end of the capture keep.              *)

\* A copy captured at the head of what the mirror may still copy keeps all that
\* is said of the capture.
LEMMA CapturedKeeps ==
  ASSUME Typed, Typed', Genuine, NotFarBehind, NotFarAhead,
         NEW CONSTANT s \in Sources, NEW CONSTANT n \in Int, NEW CONSTANT a, a = AudioOf(s, n)', mirror' = mirror,
         \A t \in Sources : /\ Len(sent[t]) <= Len(sent'[t])
                            /\ \A i \in 1..Len(sent[t]) : sent'[t][i] = sent[t][i],
         n \in FirstFrame .. NextNumber(s)' - 1,
         n >= NextNumber(s) - mirror.lag,
         \/ Captured(s, n, a)
         \/ UNCHANGED capture
  PROVE  Genuine' /\ NotFarBehind' /\ NotFarAhead'
<1>1. /\ FirstFrame \in Nat /\ mirror.lag \in Nat /\ MaxGap \in Nat
      /\ \A t \in Sources : Width[t] \in Nat \ {0}
  BY MirrorAssumption DEF Typed
<1>2. /\ capture \in Seq(Copies) /\ Len(capture) \in Nat
      /\ \A t \in Sources : sent[t] \in Seq(Audio) /\ sent'[t] \in Seq(Audio)
  BY DEF Typed
<1>3. \A i \in 1..Len(capture) :
        /\ capture[i] \in Copies /\ capture[i].num \in Int /\ capture[i].src \in Sources
        /\ capture[i].num \in FirstFrame .. NextNumber(capture[i].src) - 1
  <2>1. \A i \in 1..Len(capture) : capture[i] \in Copies
    BY <1>2
  <2> QED
    BY <2>1 DEF Copies, Genuine, IsCopyOf
\* What was sent stays sent.
<1>4. ASSUME NEW CONSTANT c, NEW CONSTANT t \in Sources, NEW CONSTANT m \in Int,
             IsCopyOf(c, t, m)
      PROVE  IsCopyOf(c, t, m)'
  <2>1. /\ NextNumber(t) <= NextNumber(t)'
        /\ m \in FirstFrame .. NextNumber(t) - 1
        /\ m \in FirstFrame .. NextNumber(t)' - 1
    <3>1. PICK l, k : l = Len(sent[t]) /\ k = Len(sent'[t])
      OBVIOUS
    <3>2. l \in Nat /\ k \in Nat /\ l <= k
      BY <1>2, <3>1
    <3>3. NextNumber(t) = FirstFrame + l /\ NextNumber(t)' = FirstFrame + k
      BY <3>1 DEF NextNumber
    <3>4. m \in FirstFrame .. NextNumber(t) - 1
      BY <1>4 DEF IsCopyOf
    <3> QED
      BY <1>1, <3>2, <3>3, <3>4
  <2>2. AudioOf(t, m)' = AudioOf(t, m)
    BY <1>1, <1>2, <2>1 DEF AudioOf, NextNumber
  <2> QED
    BY <1>4, <2>1, <2>2 DEF IsCopyOf
<1>5. CASE UNCHANGED capture
  BY <1>3, <1>4, <1>5 DEF Genuine, NotFarBehind, NotFarAhead, SameSource
<1>6. CASE Captured(s, n, a)
  <2> DEFINE N == Len(capture) + 1
  <2>1. PICK residue \in BOOLEAN, opaque \in {FALSE, mirror.opaque} :
          capture' = Append(capture, Copy(s, n, a, residue, opaque))
    BY <1>6 DEF Captured
  <2> DEFINE c == Copy(s, n, a, residue, opaque)
  <2>2. /\ Len(capture') = N /\ capture'[N] = c
        /\ \A i \in 1..N - 1 : capture'[i] = capture[i]
        /\ Len(capture) = N - 1 /\ N \in Nat /\ N >= 1
    <3> HIDE DEF c
    <3> QED
      BY <1>2, <2>1 DEF c
  <2>3. IsCopyOf(c, s, n)'
    <3>1. /\ c.src = s /\ c.num = n /\ c.seq = Seq16(n) /\ c.audio = a
          /\ c.opaque => mirror.opaque
          /\ c.len = PAYLOAD_OVERHEAD + Width[s] * BYTES_PER_CHANNEL
                       + (IF residue THEN FCS_RESIDUE ELSE 0)
      BY DEF Copy
    <3> HIDE DEF c
    <3>2. clean_payload_len(c.len) = PAYLOAD_OVERHEAD + Width[s] * BYTES_PER_CHANNEL
      <4> DEFINE k == PAYLOAD_OVERHEAD + Width[s] * BYTES_PER_CHANNEL
      <4>1. clean_payload_len(k) = k /\ clean_payload_len(k + FCS_RESIDUE) = k
        BY <1>1, CleanLength
      <4>2. k \in Nat
        BY <1>1 DEF PAYLOAD_OVERHEAD, BYTES_PER_CHANNEL
      <4> HIDE DEF k
      <4>3. c.len = k + FCS_RESIDUE \/ c.len = k
        BY <3>1, <4>2 DEF k
      <4> QED
        BY <4>1, <4>3 DEF k
    <3> QED
      BY <3>1, <3>2 DEF IsCopyOf
  <2>4. c.src = s /\ c.num = n
    BY DEF Copy
  <2> HIDE DEF c, N
  <2>5. Genuine'
    <3> SUFFICES ASSUME NEW i \in 1..N
                 PROVE  IsCopyOf(capture[i], capture[i].src, capture[i].num)'
      BY <2>2 DEF Genuine
    <3>1. CASE i = N
      BY <2>2, <2>3, <2>4, <3>1
    <3>2. CASE i # N
      <4>1. i \in 1..Len(capture) /\ capture'[i] = capture[i]
        BY <2>2, <3>2
      <4> QED
        BY <1>3, <1>4, <4>1 DEF Genuine
    <3> QED
      BY <3>1, <3>2
  <2>6. NotFarBehind'
    <3> SUFFICES ASSUME NEW j \in 1..N, NEW i \in 1..j - 1, capture'[i].src = capture'[j].src
                 PROVE  capture'[i].num - capture'[j].num < mirror.lag
      BY <2>2 DEF NotFarBehind, SameSource
    <3>1. i \in 1..Len(capture) /\ capture'[i] = capture[i]
      BY <2>2
    <3>2. CASE j = N
      <4>a. capture[i].src = s
        BY <2>2, <2>4, <3>1, <3>2
      <4>b. NextNumber(s) \in Int
        BY <1>1, <1>2 DEF NextNumber
      <4>c. capture[i].num \in FirstFrame .. NextNumber(s) - 1
        BY <1>3, <3>1, <4>a
      <4>1. capture[i].num <= NextNumber(s) - 1 /\ NextNumber(s) \in Int
        BY <1>1, <4>b, <4>c
      <4>2. capture'[j].num = n
        BY <2>2, <2>4, <3>2
      <4> QED
        BY <1>1, <1>3, <3>1, <4>1, <4>2
    <3>3. CASE j # N
      <4>1. j \in 1..Len(capture) /\ capture'[j] = capture[j]
        BY <2>2, <3>3
      <4> QED
        BY <3>1, <4>1 DEF NotFarBehind, SameSource
    <3> QED
      BY <3>2, <3>3
  <2>7. NotFarAhead'
    <3> SUFFICES ASSUME NEW j \in 1..N, NEW h \in 1..j - 1, capture'[h].src = capture'[j].src
                 PROVE  \E i \in 1..j - 1 : /\ capture'[i].src = capture'[j].src
                                            /\ capture'[j].num - capture'[i].num <= MaxGap
      BY <2>2 DEF NotFarAhead, SameSource
    <3>1. h \in 1..Len(capture) /\ capture'[h] = capture[h]
      BY <2>2
    <3>2. CASE j = N
      <4>1. capture[h].src = s
        BY <2>2, <2>4, <3>1, <3>2
      <4>2. PICK i \in 1..Len(capture) : capture[i].src = s /\ n - capture[i].num <= MaxGap
        BY <1>6, <3>1, <4>1 DEF Captured, WithinGap
      <4>3. i \in 1..j - 1 /\ capture'[i] = capture[i]
        BY <2>2, <3>2
      <4> QED
        BY <2>2, <2>4, <3>2, <4>2, <4>3
    <3>3. CASE j # N
      <4>1. j \in 1..Len(capture) /\ capture'[j] = capture[j]
        BY <2>2, <3>3
      <4>2. PICK i \in 1..j - 1 : SameSource(i, j) /\ capture[j].num - capture[i].num <= MaxGap
        BY <3>1, <4>1 DEF NotFarAhead, SameSource
      <4>3. i \in 1..Len(capture) /\ capture'[i] = capture[i]
        BY <2>2
      <4> QED
        BY <4>1, <4>2, <4>3 DEF SameSource
    <3> QED
      BY <3>2, <3>3
  <2> QED
    BY <2>5, <2>6, <2>7
<1> QED
  BY <1>5, <1>6

\* What is captured is a copy, after those there are.
LEMMA CapturedType ==
  ASSUME Typed, NEW CONSTANT s \in Sources, NEW CONSTANT n \in Int, NEW CONSTANT a \in Audio,
         \/ Captured(s, n, a)
         \/ UNCHANGED capture
  PROVE  capture' \in Seq(Copies) /\ Len(capture) <= Len(capture')
<1>1. CASE UNCHANGED capture
  BY <1>1 DEF Typed
<1>2. CASE Captured(s, n, a)
  <2>1. PICK residue \in BOOLEAN, opaque \in {FALSE, mirror.opaque} :
          capture' = Append(capture, Copy(s, n, a, residue, opaque))
    BY <1>2 DEF Captured
  <2> DEFINE c == Copy(s, n, a, residue, opaque)
  <2>2. mirror.opaque \in BOOLEAN /\ Width[s] \in Nat
    BY MirrorAssumption DEF Typed
  <2>3. c \in Copies
    <3>1. PAYLOAD_OVERHEAD + Width[s] * BYTES_PER_CHANNEL
            + (IF residue THEN FCS_RESIDUE ELSE 0) \in Nat
      BY <2>2 DEF PAYLOAD_OVERHEAD, BYTES_PER_CHANNEL, FCS_RESIDUE
    <3>2. Seq16(n) \in 0..SEQ_MODULUS - 1 /\ opaque \in BOOLEAN
      BY <2>2, ModulusType, DivMod DEF Seq16
    <3> QED
      BY <3>1, <3>2 DEF Copy, Copies
  <2> HIDE DEF c
  <2> QED
    BY <2>1, <2>3 DEF Typed, c
<1> QED
  BY <1>1, <1>2

LEMMA PathInit == Init => PathInv
<1> SUFFICES ASSUME Init PROVE PathInv
  OBVIOUS
<1>1. /\ capture = <<>> /\ kept = <<>> /\ pos = 0
      /\ sent = [s \in Sources |-> <<>>] /\ owed = [s \in Sources |-> <<>>]
      /\ prev = [s \in Sources |-> NoBody] /\ closed = FALSE /\ mirror \in Mirrors
  BY DEF Init
<1>2. MaxSent \in Nat /\ mirror.lag \in Nat
  BY <1>1, MirrorAssumption
<1>3. Typed
  <2>1. sent \in [Sources -> Seq(Audio)] /\ owed \in [Sources -> Seq(NumberRange)]
    BY <1>1
  <2>2. \A t \in Sources : Len(sent[t]) <= MaxSent
    BY <1>1, <1>2
  <2>3. capture \in Seq(Copies) /\ kept \in Seq(Copies) /\ pos \in 0..Len(capture) /\ Len(kept) <= pos
    BY <1>1
  <2>4. prev \in [Sources -> BodyType]
    BY <1>1 DEF BodyType
  <2> QED
    BY <1>1, <2>1, <2>2, <2>3, <2>4 DEF Typed
<1>4. OwedIsRecent
  BY <1>1, <1>2 DEF OwedIsRecent
<1>5. Genuine /\ NotFarBehind /\ NotFarAhead /\ ReadWhenClosed
  BY <1>1 DEF Genuine, NotFarBehind, NotFarAhead, ReadWhenClosed
<1> QED
  BY <1>3, <1>4, <1>5 DEF PathInv

\* Arithmetic on a frame owed when one more comes to be owed behind it.
LEMMA OneMoreOwed ==
  ASSUME NEW f \in Int, NEW n \in Int, NEW l \in Int, NEW i \in Int, NEW x
  PROVE  /\ x \in f .. n - 1 /\ x >= n - 1 - (l - i) => x \in f .. n /\ x >= n - (l + 1 - i)
         /\ x \in f .. n /\ x >= n - (l - i) => x \in f .. n /\ x >= n - (l + 1 - i)
OBVIOUS

\* What Tail leaves.
LEMMA TailOf ==
  ASSUME NEW S, NEW q \in Seq(S), q # <<>>
  PROVE  /\ Len(Tail(q)) = Len(q) - 1 /\ Tail(q) \in Seq(S)
         /\ \A i \in 1..Len(q) - 1 : Tail(q)[i] = q[i + 1]
OBVIOUS

\* A source sends a frame: it is the newest, and all else owed is one older.
LEMMA SendKeeps ==
  ASSUME PathInv, NEW CONSTANT s \in Sources, NEW CONSTANT a \in Audio, Send(s, a)
  PROVE  PathInv'
<1>0. PICK n : n = NextNumber(s)
  OBVIOUS
<1>1. /\ FirstFrame \in Nat /\ MaxSent \in Nat /\ mirror.lag \in Nat \ {0}
      /\ mirror' = mirror
  BY MirrorAssumption DEF PathInv, Typed, Send
<1>2. /\ sent[s] \in Seq(Audio) /\ Len(sent[s]) \in Nat /\ Len(sent[s]) < MaxSent
      /\ owed[s] \in Seq(NumberRange) /\ Len(owed[s]) \in Nat /\ Len(owed[s]) < mirror.lag
      /\ sent' = [sent EXCEPT ![s] = Append(@, a)]
      /\ owed' = [owed EXCEPT ![s] = Append(@, n)]
      /\ UNCHANGED <<mirror, closed, pos, prev, kept>> /\ ~closed
      /\ Captured(s, n, a) \/ UNCHANGED capture
  BY <1>0 DEF PathInv, Typed, Send
<1>3. n = FirstFrame + Len(sent[s]) /\ n \in NumberRange /\ n \in Int
  BY <1>0, <1>1, <1>2 DEF NextNumber, NumberRange
<1>4. /\ sent'[s] = Append(sent[s], a) /\ owed'[s] = Append(owed[s], n)
      /\ \A t \in Sources \ {s} : sent'[t] = sent[t] /\ owed'[t] = owed[t]
  BY <1>2 DEF PathInv, Typed
<1>5. /\ Len(sent'[s]) = Len(sent[s]) + 1 /\ sent'[s] \in Seq(Audio)
      /\ sent'[s][Len(sent[s]) + 1] = a
      /\ \A i \in 1..Len(sent[s]) : sent'[s][i] = sent[s][i]
      /\ Len(owed'[s]) = Len(owed[s]) + 1 /\ owed'[s] \in Seq(NumberRange)
      /\ owed'[s][Len(owed[s]) + 1] = n
      /\ \A i \in 1..Len(owed[s]) : owed'[s][i] = owed[s][i]
  BY <1>2, <1>3, <1>4
<1>6. NextNumber(s)' = n + 1 /\ \A t \in Sources \ {s} : NextNumber(t)' = NextNumber(t)
  BY <1>1, <1>2, <1>3, <1>4, <1>5 DEF NextNumber
<1>7. Typed'
  <2>1. capture' \in Seq(Copies) /\ Len(capture) <= Len(capture')
    BY <1>2, <1>3, CapturedType DEF PathInv
  <2>2. /\ sent' \in [Sources -> Seq(Audio)] /\ owed' \in [Sources -> Seq(NumberRange)]
        /\ \A t \in Sources : Len(sent'[t]) <= MaxSent
    BY <1>1, <1>2, <1>3, <1>4, <1>5 DEF PathInv, Typed
  <2>3. pos' \in 0..Len(capture')
    BY <1>2, <2>1 DEF PathInv, Typed
  <2> QED
    BY <1>2, <2>1, <2>2, <2>3 DEF PathInv, Typed
<1>8. OwedIsRecent'
  <2> SUFFICES ASSUME NEW t \in Sources
               PROVE  /\ Len(owed'[t]) <= mirror.lag
                      /\ \A i \in 1..Len(owed'[t]) :
                           /\ owed'[t][i] \in FirstFrame .. NextNumber(t)' - 1
                           /\ owed'[t][i] >= NextNumber(t)' - 1 - (Len(owed'[t]) - i)
    BY <1>1 DEF OwedIsRecent
  <2>1. CASE t # s
    BY <1>4, <1>6, <2>1 DEF PathInv, OwedIsRecent
  <2>2. CASE t = s
    <3>1. Len(owed'[s]) <= mirror.lag
      BY <1>1, <1>2, <1>5
    <3>2. ASSUME NEW i \in 1..Len(owed[s])
          PROVE  /\ owed'[s][i] \in FirstFrame .. n
                 /\ owed'[s][i] >= n - (Len(owed[s]) + 1 - i)
      <4>1. /\ owed[s][i] \in FirstFrame .. n - 1
            /\ owed[s][i] >= n - 1 - (Len(owed[s]) - i)
            /\ owed'[s][i] = owed[s][i]
        BY <1>0, <1>5 DEF PathInv, OwedIsRecent
      <4>2. FirstFrame \in Int /\ n \in Int /\ Len(owed[s]) \in Int /\ i \in Int
        BY <1>1, <1>2, <1>3
      <4> QED
        BY <4>1, <4>2, OneMoreOwed
    <3>3. owed'[s][Len(owed[s]) + 1] \in FirstFrame .. n
      BY <1>1, <1>2, <1>3, <1>5
    <3>4. ASSUME NEW i \in 1..Len(owed'[s])
          PROVE  /\ owed'[s][i] \in FirstFrame .. n
                 /\ owed'[s][i] >= n - (Len(owed'[s]) - i)
      <4>1. CASE i \in 1..Len(owed[s])
        BY <1>5, <3>2, <4>1
      <4>2. CASE i = Len(owed[s]) + 1
        BY <1>2, <1>3, <1>5, <3>3, <4>2
      <4> QED
        BY <1>2, <1>5, <4>1, <4>2
    <3>5. NextNumber(s)' - 1 = n
      BY <1>3, <1>6
    <3> QED
      BY <2>2, <3>1, <3>4, <3>5
  <2> QED
    BY <2>1, <2>2
<1>9. Genuine' /\ NotFarBehind' /\ NotFarAhead'
  <2>1. AudioOf(s, n)' = a
    <3>1. n - FirstFrame + 1 = Len(sent[s]) + 1
      BY <1>1, <1>2, <1>3
    <3> QED
      BY <1>5, <3>1 DEF AudioOf
  <2>2. n \in FirstFrame .. NextNumber(s)' - 1 /\ n >= NextNumber(s) - mirror.lag
    BY <1>0, <1>1, <1>2, <1>3, <1>6
  <2>3. \A t \in Sources : /\ Len(sent[t]) <= Len(sent'[t])
                           /\ \A i \in 1..Len(sent[t]) : sent'[t][i] = sent[t][i]
    BY <1>2, <1>4, <1>5 DEF PathInv, Typed
  <2> QED
    BY <1>1, <1>2, <1>3, <1>7, <2>1, <2>2, <2>3, CapturedKeeps DEF PathInv
<1>10. ReadWhenClosed'
  BY <1>2 DEF PathInv, ReadWhenClosed
<1> QED
  BY <1>7, <1>8, <1>9, <1>10 DEF PathInv

\* A frame sent again is the newest one.
LEMMA ResendKeeps ==
  ASSUME PathInv, NEW CONSTANT s \in Sources, Resend(s)
  PROVE  PathInv'
<1>0. PICK n : n = NextNumber(s) - 1
  OBVIOUS
<1>1. /\ FirstFrame \in Nat /\ MaxSent \in Nat /\ mirror.lag \in Nat \ {0}
      /\ mirror' = mirror
  BY MirrorAssumption DEF PathInv, Typed, Resend
<1>2. /\ sent[s] \in Seq(Audio) /\ Len(sent[s]) \in Nat /\ Len(sent[s]) <= MaxSent /\ sent[s] # <<>>
      /\ owed[s] \in Seq(NumberRange) /\ Len(owed[s]) \in Nat /\ Len(owed[s]) < mirror.lag
      /\ owed' = [owed EXCEPT ![s] = Append(@, n)]
      /\ UNCHANGED <<mirror, closed, sent, pos, prev, kept>> /\ ~closed
      /\ Captured(s, n, AudioOf(s, n))
  BY <1>0 DEF PathInv, Typed, Resend
<1>3. /\ n = FirstFrame + Len(sent[s]) - 1 /\ n \in NumberRange /\ n \in Int
      /\ Len(sent[s]) >= 1 /\ n >= FirstFrame /\ NextNumber(s) = n + 1
  <2>1. PICK l : l = Len(sent[s])
    OBVIOUS
  <2>2. l \in Nat /\ l >= 1 /\ l <= MaxSent
    BY <1>2, <2>1
  <2>3. NextNumber(s) = FirstFrame + l
    BY <2>1 DEF NextNumber
  <2>4. n = FirstFrame + l - 1
    BY <1>0, <1>1, <2>2, <2>3
  <2> QED
    BY <1>1, <2>1, <2>2, <2>3, <2>4 DEF NumberRange
<1>4. /\ owed'[s] = Append(owed[s], n)
      /\ \A t \in Sources \ {s} : owed'[t] = owed[t]
  BY <1>2 DEF PathInv, Typed
<1>5. /\ Len(owed'[s]) = Len(owed[s]) + 1 /\ owed'[s] \in Seq(NumberRange)
      /\ owed'[s][Len(owed[s]) + 1] = n
      /\ \A i \in 1..Len(owed[s]) : owed'[s][i] = owed[s][i]
  BY <1>2, <1>3, <1>4
<1>6. \A t \in Sources : NextNumber(t)' = NextNumber(t)
  BY <1>2 DEF NextNumber
<1>7. PICK a : a = AudioOf(s, n)
  OBVIOUS
<1>8. a \in Audio /\ a = AudioOf(s, n)'
  <2>1. n - FirstFrame + 1 = Len(sent[s])
    BY <1>1, <1>2, <1>3
  <2>2. a = sent[s][Len(sent[s])]
    BY <1>7, <2>1 DEF AudioOf
  <2>3. a = sent'[s][Len(sent[s])]
    BY <1>2, <2>2
  <2>4. a \in Audio
    BY <1>2, <1>3, <2>2
  <2> QED
    BY <2>1, <2>3, <2>4 DEF AudioOf
<1>9. Typed'
  <2>1. capture' \in Seq(Copies) /\ Len(capture) <= Len(capture')
    BY <1>2, <1>3, <1>7, <1>8, CapturedType DEF PathInv
  <2>2. owed' \in [Sources -> Seq(NumberRange)]
    BY <1>2, <1>4, <1>5 DEF PathInv, Typed
  <2>3. pos' \in 0..Len(capture')
    BY <1>2, <2>1 DEF PathInv, Typed
  <2> QED
    BY <1>2, <2>1, <2>2, <2>3 DEF PathInv, Typed
<1>10. OwedIsRecent'
  <2> SUFFICES ASSUME NEW t \in Sources
               PROVE  /\ Len(owed'[t]) <= mirror.lag
                      /\ \A i \in 1..Len(owed'[t]) :
                           /\ owed'[t][i] \in FirstFrame .. NextNumber(t) - 1
                           /\ owed'[t][i] >= NextNumber(t) - 1 - (Len(owed'[t]) - i)
    BY <1>1, <1>6 DEF OwedIsRecent
  <2>1. CASE t # s
    BY <1>4, <2>1 DEF PathInv, OwedIsRecent
  <2>2. CASE t = s
    <3>1. Len(owed'[s]) <= mirror.lag
      BY <1>1, <1>2, <1>5
    <3>2. ASSUME NEW i \in 1..Len(owed[s])
          PROVE  /\ owed'[s][i] \in FirstFrame .. n
                 /\ owed'[s][i] >= n - (Len(owed[s]) + 1 - i)
      <4>1. /\ owed[s][i] \in FirstFrame .. n
            /\ owed[s][i] >= n - (Len(owed[s]) - i)
            /\ owed'[s][i] = owed[s][i]
        BY <1>0, <1>5 DEF PathInv, OwedIsRecent
      <4>2. FirstFrame \in Int /\ n \in Int /\ Len(owed[s]) \in Int /\ i \in Int
        BY <1>1, <1>2, <1>3
      <4> QED
        BY <4>1, <4>2, OneMoreOwed
    <3>3. owed'[s][Len(owed[s]) + 1] \in FirstFrame .. n
      BY <1>1, <1>3, <1>5
    <3>4. ASSUME NEW i \in 1..Len(owed'[s])
          PROVE  /\ owed'[s][i] \in FirstFrame .. n
                 /\ owed'[s][i] >= n - (Len(owed'[s]) - i)
      <4>1. CASE i \in 1..Len(owed[s])
        BY <1>5, <3>2, <4>1
      <4>2. CASE i = Len(owed[s]) + 1
        BY <1>2, <1>3, <1>5, <3>3, <4>2
      <4> QED
        BY <1>2, <1>5, <4>1, <4>2
    <3> QED
      BY <1>0, <2>2, <3>1, <3>4
  <2> QED
    BY <2>1, <2>2
<1>11. Genuine' /\ NotFarBehind' /\ NotFarAhead'
  <2>1. n \in FirstFrame .. NextNumber(s)' - 1 /\ n >= NextNumber(s) - mirror.lag
    <3>1. NextNumber(s) = n + 1 /\ NextNumber(s)' = n + 1
      BY <1>3, <1>6
    <3>2. n \in FirstFrame .. n + 1 - 1 /\ n >= n + 1 - mirror.lag
      BY <1>1, <1>3
    <3> QED
      BY <1>1, <1>3, <3>1, <3>2
  <2>2. \A t \in Sources : /\ Len(sent[t]) <= Len(sent'[t])
                           /\ \A i \in 1..Len(sent[t]) : sent'[t][i] = sent[t][i]
    BY <1>2 DEF PathInv, Typed
  <2> QED
    BY <1>1, <1>2, <1>3, <1>7, <1>8, <1>9, <2>1, <2>2, CapturedKeeps DEF PathInv
<1>12. ReadWhenClosed'
  BY <1>2 DEF PathInv, ReadWhenClosed
<1> QED
  BY <1>9, <1>10, <1>11, <1>12 DEF PathInv

\* The oldest frame owed is copied: it is behind the newest by less than the lag.
LEMMA MirrorTxKeeps ==
  ASSUME PathInv, NEW CONSTANT s \in Sources, MirrorTx(s)
  PROVE  PathInv'
<1>0. PICK n : n = Head(owed[s])
  OBVIOUS
<1>1. /\ FirstFrame \in Nat /\ MaxSent \in Nat /\ mirror.lag \in Nat \ {0}
      /\ mirror' = mirror
  BY MirrorAssumption DEF PathInv, Typed, MirrorTx
<1>2. /\ sent[s] \in Seq(Audio) /\ Len(sent[s]) \in Nat
      /\ owed[s] \in Seq(NumberRange) /\ Len(owed[s]) \in Nat /\ Len(owed[s]) <= mirror.lag
      /\ owed[s] # <<>> /\ Len(owed[s]) >= 1
      /\ owed' = [owed EXCEPT ![s] = Tail(@)]
      /\ UNCHANGED <<mirror, closed, sent, pos, prev, kept>> /\ ~closed
      /\ Captured(s, n, AudioOf(s, n)) \/ UNCHANGED capture
  BY <1>0 DEF PathInv, Typed, OwedIsRecent, MirrorTx
<1>3. /\ n = owed[s][1] /\ n \in Int
      /\ n \in FirstFrame .. NextNumber(s) - 1 /\ n >= NextNumber(s) - mirror.lag
  <2>1. n = owed[s][1] /\ 1 \in 1..Len(owed[s])
    BY <1>0, <1>2
  <2>2. NextNumber(s) \in Int
    BY <1>1, <1>2 DEF NextNumber
  <2>3. /\ owed[s][1] \in FirstFrame .. NextNumber(s) - 1
        /\ owed[s][1] >= NextNumber(s) - 1 - (Len(owed[s]) - 1)
    BY <2>1 DEF PathInv, OwedIsRecent
  <2> QED
    BY <1>1, <1>2, <2>1, <2>2, <2>3
<1>4. /\ owed'[s] = Tail(owed[s])
      /\ \A t \in Sources \ {s} : owed'[t] = owed[t]
  BY <1>2 DEF PathInv, Typed
<1>5. /\ Len(owed'[s]) = Len(owed[s]) - 1 /\ owed'[s] \in Seq(NumberRange)
      /\ \A i \in 1..Len(owed[s]) - 1 : owed'[s][i] = owed[s][i + 1]
  BY <1>2, <1>4, TailOf
<1>6. \A t \in Sources : NextNumber(t)' = NextNumber(t)
  BY <1>2 DEF NextNumber
<1>7. PICK a : a = AudioOf(s, n)
  OBVIOUS
<1>8. a \in Audio /\ a = AudioOf(s, n)'
  <2>1. n - FirstFrame + 1 \in 1..Len(sent[s])
    <3>1. PICK l : l = Len(sent[s])
      OBVIOUS
    <3>2. l \in Nat /\ NextNumber(s) = FirstFrame + l
      BY <1>2, <3>1 DEF NextNumber
    <3>3. n \in FirstFrame .. FirstFrame + l - 1
      BY <1>1, <1>3, <3>2
    <3>4. FirstFrame \in Nat /\ n \in Int
      BY <1>1, <1>3
    <3>5. n - FirstFrame + 1 \in 1..l
      BY <3>2, <3>3, <3>4
    <3> QED
      BY <3>1, <3>5
  <2>2. a \in Audio
    BY <1>2, <1>7, <2>1 DEF AudioOf
  <2> QED
    BY <1>2, <1>7, <2>2 DEF AudioOf
<1>9. Typed'
  <2>1. capture' \in Seq(Copies) /\ Len(capture) <= Len(capture')
    BY <1>2, <1>3, <1>7, <1>8, CapturedType DEF PathInv
  <2>2. owed' \in [Sources -> Seq(NumberRange)]
    BY <1>2, <1>4, <1>5 DEF PathInv, Typed
  <2>3. pos' \in 0..Len(capture')
    BY <1>2, <2>1 DEF PathInv, Typed
  <2> QED
    BY <1>2, <2>1, <2>2, <2>3 DEF PathInv, Typed
<1>10. OwedIsRecent'
  <2> SUFFICES ASSUME NEW t \in Sources
               PROVE  /\ Len(owed'[t]) <= mirror.lag
                      /\ \A i \in 1..Len(owed'[t]) :
                           /\ owed'[t][i] \in FirstFrame .. NextNumber(t) - 1
                           /\ owed'[t][i] >= NextNumber(t) - 1 - (Len(owed'[t]) - i)
    BY <1>1, <1>6 DEF OwedIsRecent
  <2>1. CASE t # s
    BY <1>4, <2>1 DEF PathInv, OwedIsRecent
  <2>2. CASE t = s
    <3>1. Len(owed'[s]) <= mirror.lag
      BY <1>1, <1>2, <1>5
    <3>2. ASSUME NEW i \in 1..Len(owed[s]) - 1
          PROVE  /\ owed'[s][i] \in FirstFrame .. NextNumber(s) - 1
                 /\ owed'[s][i] >= NextNumber(s) - 1 - (Len(owed[s]) - 1 - i)
      <4>1. i + 1 \in 1..Len(owed[s]) /\ i \in Int /\ Len(owed[s]) \in Int
        BY <1>2
      <4>2. /\ owed[s][i + 1] \in FirstFrame .. NextNumber(s) - 1
            /\ owed[s][i + 1] >= NextNumber(s) - 1 - (Len(owed[s]) - (i + 1))
        BY <4>1 DEF PathInv, OwedIsRecent
      <4>3. Len(owed[s]) - (i + 1) = Len(owed[s]) - 1 - i /\ owed'[s][i] = owed[s][i + 1]
        BY <1>5, <4>1
      <4> QED
        BY <4>2, <4>3
    <3> QED
      BY <1>5, <2>2, <3>1, <3>2
  <2> QED
    BY <2>1, <2>2
<1>11. Genuine' /\ NotFarBehind' /\ NotFarAhead'
  <2>1. n \in FirstFrame .. NextNumber(s)' - 1
    BY <1>3, <1>6
  <2>2. \A t \in Sources : /\ Len(sent[t]) <= Len(sent'[t])
                           /\ \A i \in 1..Len(sent[t]) : sent'[t][i] = sent[t][i]
    BY <1>2 DEF PathInv, Typed
  <2> QED
    BY <1>1, <1>2, <1>3, <1>7, <1>8, <1>9, <2>1, <2>2, CapturedKeeps DEF PathInv
<1>12. ReadWhenClosed'
  BY <1>2 DEF PathInv, ReadWhenClosed
<1> QED
  BY <1>9, <1>10, <1>11, <1>12 DEF PathInv

-------------------------------------------------------------------------------
(* The dedup: one copy looked at.                                           *)

\* Nothing is read before the capture ends, so until then there is nothing to say.
LEMMA CapturingKeeps ==
  ASSUME DedupeInv, PathInv, ~closed, UNCHANGED <<pos, prev, kept>>
  PROVE  DedupeInv'
<1>1. pos' = 0 /\ prev' = [s \in Sources |-> NoBody] /\ kept' = <<>>
  BY DEF PathInv, ReadWhenClosed
<1> QED
  BY <1>1 DEF DedupeInv, PrevIsLast, KeptIsCaptured

LEMMA DedupeKeepsPath ==
  ASSUME PathInv, Dedupe
  PROVE  /\ PathInv'
         /\ UNCHANGED <<mirror, closed, sent, owed, capture>> /\ closed /\ pos' = pos + 1
         /\ capture[pos + 1] \in Copies
<1> DEFINE c == capture[pos + 1]
<1>1. /\ pos \in Nat /\ pos < Len(capture) /\ Len(capture) \in Nat /\ c \in Copies
      /\ c.src \in Sources /\ kept \in Seq(Copies)
      /\ KeepOpaque(c) \/ DropTwin(c) \/ KeepNew(c)
  <2>1. pos \in Nat /\ pos < Len(capture) /\ Len(capture) \in Nat /\ kept \in Seq(Copies)
    BY DEF Dedupe, PathInv, Typed
  <2>2. c \in Copies
    BY <2>1 DEF PathInv, Typed
  <2> QED
    BY <2>1, <2>2 DEF Dedupe, Copies
<1> HIDE DEF c
<1>2. UNCHANGED <<mirror, closed, sent, owed, capture>> /\ closed /\ pos' = pos + 1
  BY <1>1 DEF KeepOpaque, DropTwin, KeepNew, Looking
<1>3. \/ kept' = kept
      \/ kept' = Append(kept, c)
  BY <1>1 DEF KeepOpaque, DropTwin, KeepNew
<1>4. prev' \in [Sources -> BodyType]
  <2>1. Body(c) \in BodyType /\ NoBody \in BodyType
    BY <1>1, BodyOfCopy DEF BodyType
  <2>2. \/ prev' = prev
        \/ prev' = [prev EXCEPT ![c.src] = NoBody]
        \/ prev' = [prev EXCEPT ![c.src] = Body(c)]
    BY <1>1 DEF KeepOpaque, DropTwin, KeepNew
  <2> QED
    BY <1>1, <2>1, <2>2 DEF PathInv, Typed
<1>5. kept' \in Seq(Copies) /\ Len(kept') <= pos'
  <2>1. Len(kept) \in Nat /\ Len(kept) <= pos
    BY <1>1 DEF PathInv, Typed
  <2>2. CASE kept' = Append(kept, c)
    <3>1. kept' \in Seq(Copies) /\ Len(kept') = Len(kept) + 1
      BY <1>1, <2>2
    <3> QED
      BY <1>1, <1>2, <2>1, <3>1
  <2> QED
    BY <1>1, <1>2, <1>3, <2>1, <2>2
<1>6. Typed'
  BY <1>1, <1>2, <1>4, <1>5 DEF PathInv, Typed
<1>7. OwedIsRecent' /\ Genuine' /\ NotFarBehind' /\ NotFarAhead'
  BY <1>2 DEF PathInv, OwedIsRecent, NextNumber, Genuine, IsCopyOf, AudioOf, SameSource,
              NotFarBehind, NotFarAhead
<1> QED
  BY <1>1, <1>2, <1>6, <1>7 DEF PathInv, ReadWhenClosed, c

LEMMA DedupeKeeps ==
  ASSUME IInv, Dedupe
  PROVE  DedupeInv'
<1>0. PICK n, c : n = pos + 1 /\ c = capture[n]
  OBVIOUS
<1>1. /\ pos \in Nat /\ pos < Len(capture) /\ c \in Copies /\ c.src \in Sources
      /\ n = pos + 1 /\ n \in 1..Len(capture) /\ c = capture[n]
      /\ pos' = n /\ capture' = capture /\ mirror' = mirror
      /\ prev \in [Sources -> BodyType] /\ kept \in Seq(Copies)
      /\ KeepOpaque(c) \/ DropTwin(c) \/ KeepNew(c)
  <2>1. pos' = n /\ capture' = capture /\ mirror' = mirror /\ c \in Copies
    BY <1>0, DedupeKeepsPath DEF IInv
  <2>2. /\ pos \in Nat /\ Len(capture) \in Nat
        /\ prev \in [Sources -> BodyType] /\ kept \in Seq(Copies)
    BY DEF IInv, PathInv, Typed
  <2>3. pos < Len(capture) /\ (KeepOpaque(c) \/ DropTwin(c) \/ KeepNew(c))
    BY <1>0 DEF Dedupe
  <2>4. c.src \in Sources
    BY <2>1 DEF Copies
  <2> QED
    BY <1>0, <2>1, <2>2, <2>3, <2>4
<1>2. c.opaque => mirror.opaque
  BY <1>1 DEF IInv, PathInv, Genuine, IsCopyOf
<1>3. Body(c) # NoBody
  BY <1>1, BodyOfCopy
<1>4. ASSUME NEW t \in Sources, t # c.src
      PROVE  IF prev'[t] = NoBody
               THEN mirror.opaque \/ \A q \in 1..pos' : capture[q].src # t
               ELSE \E p \in 1..pos' : IsLast(p, t)' /\ prev'[t] = Body(capture[p])
  <2>1. prev'[t] = prev[t]
    BY <1>1, <1>4 DEF KeepOpaque, DropTwin, KeepNew
  <2>2. CASE prev[t] = NoBody
    BY <1>1, <1>4, <2>1, <2>2 DEF IInv, DedupeInv, PrevIsLast
  <2>3. CASE prev[t] # NoBody
    <3>1. PICK p \in 1..pos : IsLast(p, t) /\ prev[t] = Body(capture[p])
      BY <2>3 DEF IInv, DedupeInv, PrevIsLast
    <3>2. IsLast(p, t)' /\ p \in 1..pos'
      BY <1>1, <1>4, <3>1 DEF IsLast
    <3> QED
      BY <2>1, <2>3, <3>1, <3>2
  <2> QED
    BY <2>2, <2>3
<1>5. IF prev'[c.src] = NoBody
        THEN mirror.opaque \/ \A q \in 1..pos' : capture[q].src # c.src
        ELSE \E p \in 1..pos' : IsLast(p, c.src)' /\ prev'[c.src] = Body(capture[p])
  <2>1. CASE KeepOpaque(c)
    BY <1>1, <1>2, <2>1 DEF KeepOpaque
  <2>2. CASE DropTwin(c) \/ KeepNew(c)
    <3>1. prev'[c.src] = Body(c)
      BY <1>1, <2>2 DEF DropTwin, KeepNew
    <3>2. IsLast(n, c.src)' /\ n \in 1..pos'
      BY <1>1 DEF IsLast
    <3> QED
      BY <1>1, <1>3, <3>1, <3>2
  <2> QED
    BY <1>1, <2>1, <2>2
<1>6. PrevIsLast'
  <2>1. \A t \in Sources : IF prev'[t] = NoBody
                             THEN mirror.opaque \/ \A q \in 1..pos' : capture[q].src # t
                             ELSE \E p \in 1..pos' : IsLast(p, t)' /\ prev'[t] = Body(capture[p])
    BY <1>4, <1>5
  <2> QED
    BY <1>1, <2>1 DEF PrevIsLast, Body
<1>7. KeptIsCaptured'
  <2>1. CASE kept' = kept
    BY <1>1, <2>1 DEF IInv, DedupeInv, KeptIsCaptured
  <2>2. CASE kept' = Append(kept, c)
    <3> SUFFICES ASSUME NEW k \in 1..Len(kept')
                 PROVE  \E i \in 1..pos' : kept'[k] = capture[i]
      BY <1>1 DEF KeptIsCaptured
    <3>1. Len(kept') = Len(kept) + 1 /\ Len(kept) \in Nat
      BY <1>1, <2>2
    <3>2. CASE k = Len(kept) + 1
      BY <1>1, <2>2, <3>2
    <3>3. CASE k \in 1..Len(kept)
      <4>1. kept'[k] = kept[k]
        BY <1>1, <2>2, <3>3
      <4> QED
        BY <1>1, <3>3, <4>1 DEF IInv, DedupeInv, KeptIsCaptured
    <3> QED
      BY <3>1, <3>2, <3>3
  <2> QED
    BY <1>1, <2>1, <2>2 DEF KeepOpaque, DropTwin, KeepNew
<1> QED
  BY <1>6, <1>7 DEF DedupeInv

LEMMA IInvInit == Init => IInv
<1> SUFFICES ASSUME Init PROVE IInv
  OBVIOUS
<1>1. PathInv
  BY PathInit
<1>2. prev = [s \in Sources |-> NoBody] /\ pos = 0 /\ kept = <<>>
  BY DEF Init
<1> QED
  BY <1>1, <1>2 DEF IInv, DedupeInv, PrevIsLast, KeptIsCaptured

LEMMA IInvNext == IInv /\ [Next]_vars => IInv'
<1> SUFFICES ASSUME IInv, [Next]_vars PROVE IInv'
  OBVIOUS
<1>0. mirror.ports \subseteq Sources
  BY MirrorAssumption DEF IInv, PathInv, Typed
<1>1. CASE \E s \in mirror.ports, a \in Audio : Send(s, a)
  <2>1. PICK s \in mirror.ports, a \in Audio : Send(s, a)
    BY <1>1
  <2>2. s \in Sources
    BY <1>0
  <2>3. ~closed /\ UNCHANGED <<pos, prev, kept>>
    BY <2>1 DEF Send
  <2> QED
    BY <2>1, <2>2, <2>3, SendKeeps, CapturingKeeps DEF IInv
<1>2. CASE \E s \in mirror.ports : Resend(s)
  <2>1. PICK s \in mirror.ports : Resend(s)
    BY <1>2
  <2>2. s \in Sources
    BY <1>0
  <2>3. ~closed /\ UNCHANGED <<pos, prev, kept>>
    BY <2>1 DEF Resend
  <2> QED
    BY <2>1, <2>2, <2>3, ResendKeeps, CapturingKeeps DEF IInv
<1>3. CASE \E s \in mirror.ports : MirrorTx(s)
  <2>1. PICK s \in mirror.ports : MirrorTx(s)
    BY <1>3
  <2>2. s \in Sources
    BY <1>0
  <2>3. ~closed /\ UNCHANGED <<pos, prev, kept>>
    BY <2>1 DEF MirrorTx
  <2> QED
    BY <2>1, <2>2, <2>3, MirrorTxKeeps, CapturingKeeps DEF IInv
<1>4. CASE Close \/ UNCHANGED vars
  <2>1. UNCHANGED <<mirror, sent, owed, capture, pos, prev, kept>> /\ (closed' = TRUE \/ closed' = closed)
    BY <1>4 DEF Close, vars
  <2>2. Typed'
    BY <2>1 DEF IInv, PathInv, Typed
  <2>3. OwedIsRecent' /\ Genuine' /\ NotFarBehind' /\ NotFarAhead' /\ ReadWhenClosed'
    BY <2>1 DEF IInv, PathInv, OwedIsRecent, NextNumber, Genuine, IsCopyOf, AudioOf, SameSource,
                NotFarBehind, NotFarAhead, ReadWhenClosed
  <2>4. DedupeInv'
    BY <2>1 DEF IInv, DedupeInv, PrevIsLast, IsLast, KeptIsCaptured, Body
  <2> QED
    BY <2>2, <2>3, <2>4 DEF IInv, PathInv
<1>5. CASE Dedupe
  BY <1>5, DedupeKeepsPath, DedupeKeeps DEF IInv
<1> QED
  BY <1>1, <1>2, <1>3, <1>4, <1>5 DEF Next

-------------------------------------------------------------------------------
(* The theorems.                                                            *)

\* Every variable keeps its shape.
THEOREM TypeCorrect == Spec => []TypeOK
<1>1. IInv => TypeOK
  BY DEF IInv, PathInv, Typed, TypeOK
<1> QED
  BY <1>1, IInvInit, IInvNext, PTL DEF Spec

\* The frames the path loses in a row and those the mirror is behind are together
\* fewer than a turn of the counter.
WithinATurn == \A m \in Mirrors : MaxGap + m.lag <= SEQ_MODULUS

\* A copy is less than a turn from the last copy of its source.
LEMMA NeighboursAreNear ==
  ASSUME WithinATurn, PathInv, pos < Len(capture),
         NEW p, IsLast(p, capture[pos + 1].src)
  PROVE  /\ -SEQ_MODULUS < capture[p].num - capture[pos + 1].num
         /\ capture[p].num - capture[pos + 1].num < SEQ_MODULUS
<1> DEFINE n == pos + 1
<1>1. /\ pos \in Nat /\ Len(capture) \in Nat /\ n \in 1..Len(capture)
      /\ p \in 1..pos /\ p \in 1..Len(capture) /\ p \in 1..n - 1 /\ SameSource(p, n)
  BY DEF PathInv, Typed, IsLast, SameSource
<1>2. MaxGap \in Nat /\ mirror.lag \in Nat \ {0} /\ MaxGap + mirror.lag <= SEQ_MODULUS
  BY MirrorAssumption DEF WithinATurn, PathInv, Typed
<1>3. \A i \in 1..Len(capture) : capture[i].num \in Int
  <2>1. \A i \in 1..Len(capture) : capture[i] \in Copies
    BY DEF PathInv, Typed
  <2> QED
    BY <2>1 DEF Copies
<1>4. capture[p].num - capture[n].num < mirror.lag
  BY <1>1 DEF PathInv, NotFarBehind
<1>5. PICK i \in 1..n - 1 : SameSource(i, n) /\ capture[n].num - capture[i].num <= MaxGap
  BY <1>1 DEF PathInv, NotFarAhead
<1>6. capture[n].num - capture[p].num < MaxGap + mirror.lag
  <2>1. i \in 1..Len(capture) /\ i <= p
    BY <1>1, <1>5 DEF IsLast, SameSource
  <2>2. CASE i = p
    <3>1. capture[n].num - capture[p].num <= MaxGap
      BY <1>5, <2>2
    <3>2. PICK x \in Int, y \in Int : x = capture[n].num /\ y = capture[p].num
      BY <1>1, <1>3
    <3>3. PICK l \in Nat \ {0} : l = mirror.lag
      BY <1>2
    <3>4. MaxGap \in Nat /\ x - y <= MaxGap
      BY <1>2, <3>1, <3>2
    <3>5. x - y < MaxGap + l
      BY <3>3, <3>4
    <3> QED
      BY <3>2, <3>3, <3>5
  <2>3. CASE i < p
    <3>1. i \in 1..p - 1 /\ SameSource(i, p)
      BY <1>1, <1>5, <2>1, <2>3 DEF SameSource
    <3>2. capture[i].num - capture[p].num < mirror.lag
      BY <1>1, <3>1 DEF PathInv, NotFarBehind
    <3>3. PICK x, y, z : x = capture[n].num /\ y = capture[i].num /\ z = capture[p].num
      OBVIOUS
    <3>4. x \in Int /\ y \in Int /\ z \in Int /\ x - y <= MaxGap /\ y - z < mirror.lag
      BY <1>1, <1>3, <1>5, <2>1, <3>2, <3>3
    <3>5. x - z < MaxGap + mirror.lag
      BY <1>2, <3>4
    <3> QED
      BY <3>3, <3>5
  <2> QED
    BY <1>1, <2>1, <2>2, <2>3
<1>7. SEQ_MODULUS \in Nat
  BY ModulusType
<1>8. PICK x, y : x = capture[p].num /\ y = capture[n].num
  OBVIOUS
<1>9. x \in Int /\ y \in Int /\ x - y < mirror.lag /\ y - x < MaxGap + mirror.lag
  BY <1>1, <1>3, <1>4, <1>6, <1>8
<1>10. -SEQ_MODULUS < x - y /\ x - y < SEQ_MODULUS
  BY <1>2, <1>7, <1>9
<1> QED
  BY <1>8, <1>10

\* The dedup keeps a copy of each frame it has looked at.
LEMMA DedupeKeepsFrames ==
  ASSUME WithinATurn, IInv, NoFrameVanishes, Dedupe
  PROVE  NoFrameVanishes'
<1>0. PICK n, c : n = pos + 1 /\ c = capture[n]
  OBVIOUS
<1>1. /\ pos \in Nat /\ pos < Len(capture) /\ c \in Copies /\ c.src \in Sources
      /\ n = pos + 1 /\ n \in 1..Len(capture) /\ c = capture[n]
      /\ pos' = n /\ capture' = capture
      /\ kept \in Seq(Copies) /\ Len(kept) \in Nat
      /\ KeepOpaque(c) \/ DropTwin(c) \/ KeepNew(c)
  <2>1. pos' = n /\ capture' = capture /\ c \in Copies
    BY <1>0, DedupeKeepsPath DEF IInv
  <2>2. pos \in Nat /\ Len(capture) \in Nat /\ kept \in Seq(Copies) /\ Len(kept) \in Nat
    BY DEF IInv, PathInv, Typed
  <2>3. pos < Len(capture) /\ (KeepOpaque(c) \/ DropTwin(c) \/ KeepNew(c))
    BY <1>0 DEF Dedupe
  <2>4. c.src \in Sources
    BY <2>1 DEF Copies
  <2> QED
    BY <1>0, <2>1, <2>2, <2>3, <2>4
\* What was kept stays kept.
<1>2. /\ Len(kept') \in Nat /\ Len(kept) <= Len(kept')
      /\ \A k \in 1..Len(kept) : kept'[k] = kept[k]
      /\ kept' = kept \/ (Len(kept') = Len(kept) + 1 /\ kept'[Len(kept) + 1] = c)
  <2>1. kept' = kept \/ kept' = Append(kept, c)
    BY <1>1 DEF KeepOpaque, DropTwin, KeepNew
  <2>2. CASE kept' = kept
    BY <1>1, <2>2
  <2>3. CASE kept' = Append(kept, c)
    BY <1>1, <2>3
  <2> QED
    BY <2>1, <2>2, <2>3
<1>3. ASSUME NEW i \in 1..pos
      PROVE  \E k \in 1..Len(kept') : kept'[k].src = capture[i].src /\ kept'[k].num = capture[i].num
  <2>1. PICK k \in 1..Len(kept) : kept[k].src = capture[i].src /\ kept[k].num = capture[i].num
    BY DEF NoFrameVanishes
  <2>2. k \in 1..Len(kept') /\ kept'[k] = kept[k]
    BY <1>1, <1>2
  <2> QED
    BY <2>1, <2>2
<1>4. \E k \in 1..Len(kept') : kept'[k].src = c.src /\ kept'[k].num = c.num
  <2>1. CASE KeepOpaque(c) \/ KeepNew(c)
    <3>1. kept' = Append(kept, c)
      BY <2>1 DEF KeepOpaque, KeepNew
    <3>2. Len(kept') = Len(kept) + 1 /\ kept'[Len(kept) + 1] = c
      BY <1>1, <3>1
    <3> QED
      BY <1>1, <3>2
  <2>2. CASE DropTwin(c)
    <3>1. prev[c.src] = Body(c) /\ prev[c.src] # NoBody
      BY <1>1, <2>2, BodyOfCopy DEF DropTwin
    <3>2. PICK p \in 1..pos : IsLast(p, c.src) /\ prev[c.src] = Body(capture[p])
      BY <1>1, <3>1 DEF IInv, DedupeInv, PrevIsLast
    <3>3. /\ -SEQ_MODULUS < capture[p].num - capture[n].num
          /\ capture[p].num - capture[n].num < SEQ_MODULUS
      BY <1>0, <1>1, <3>2, NeighboursAreNear DEF IInv
    <3>4. p \in 1..Len(capture) /\ SameSource(p, n)
      BY <1>1, <3>2 DEF IsLast, SameSource
    <3>5. capture[p].num = c.num /\ capture[p].src = c.src
      BY <1>1, <3>1, <3>2, <3>3, <3>4, BodyTellsFrame DEF IInv, PathInv, SameSource
    <3> QED
      BY <1>3, <3>2, <3>5
  <2> QED
    BY <1>1, <2>1, <2>2
<1>5. \A i \in 1..pos' : i \in 1..pos \/ i = n
  BY <1>1
<1> QED
  BY <1>1, <1>3, <1>4, <1>5 DEF NoFrameVanishes

\* "It cannot drop a distinct frame": whatever the mirror and the path do within
\* a turn of the counter, every frame of the capture survives the dedup.
THEOREM NothingVanishes == WithinATurn => (Spec => []NoFrameVanishes)
<1> SUFFICES ASSUME WithinATurn PROVE Spec => []NoFrameVanishes
  OBVIOUS
<1> DEFINE Inv == IInv /\ NoFrameVanishes
<1>1. Init => Inv
  <2>1. Init => NoFrameVanishes
    BY DEF Init, NoFrameVanishes
  <2> QED
    BY <2>1, IInvInit
<1>2. Inv /\ [Next]_vars => Inv'
  <2> SUFFICES ASSUME Inv, [Next]_vars PROVE NoFrameVanishes'
    BY IInvNext
  <2>1. CASE Dedupe
    BY <2>1, DedupeKeepsFrames
  <2>2. CASE UNCHANGED <<pos, kept, capture>>
    BY <2>2 DEF NoFrameVanishes
  <2>3. CASE ~closed /\ UNCHANGED <<pos, kept>>
    <3>1. pos' = 0
      BY <2>3 DEF IInv, PathInv, ReadWhenClosed
    <3> QED
      BY <3>1 DEF NoFrameVanishes
  <2>4. \/ Dedupe
        \/ UNCHANGED <<pos, kept, capture>>
        \/ ~closed /\ UNCHANGED <<pos, kept>>
    BY DEF Next, Send, Resend, MirrorTx, Close, vars
  <2> QED
    BY <2>1, <2>2, <2>3, <2>4
<1>3. Inv => NoFrameVanishes
  OBVIOUS
<1> HIDE DEF Inv
<1> QED
  BY <1>1, <1>2, <1>3, PTL DEF Spec

\* Off a tight mirror, a copy that is kept is newer than all kept of its source.
LEMMA KeepsInOrder ==
  ASSUME IInv, Tight, Dedupe, NEW c, c = capture[pos + 1], KeepNew(c),
         NEW k \in 1..Len(kept), kept[k].src = c.src
  PROVE  kept[k].num < c.num
<1>0. PICK n : n = pos + 1
  OBVIOUS
<1>1. /\ pos \in Nat /\ n \in 1..Len(capture) /\ c = capture[n] /\ c.src \in Sources
      /\ Len(capture) \in Nat /\ c \in Copies /\ n = pos + 1
  <2>1. pos \in Nat /\ Len(capture) \in Nat /\ pos < Len(capture)
    BY DEF IInv, PathInv, Typed, Dedupe
  <2>2. c \in Copies
    BY DedupeKeepsPath DEF IInv
  <2> QED
    BY <1>0, <2>1, <2>2 DEF Copies
<1>2. PICK i \in 1..pos : kept[k] = capture[i]
  BY DEF IInv, DedupeInv, KeptIsCaptured
<1>3. \A j \in 1..Len(capture) : capture[j].num \in Int
  <2>1. \A j \in 1..Len(capture) : capture[j] \in Copies
    BY DEF IInv, PathInv, Typed
  <2> QED
    BY <2>1 DEF Copies
<1>4. mirror.lag = 1 /\ ~mirror.opaque
  BY DEF Tight
<1>5. PICK p \in 1..pos : IsLast(p, c.src) /\ prev[c.src] = Body(capture[p])
  BY <1>1, <1>2, <1>4 DEF IInv, DedupeInv, PrevIsLast
<1>6. p \in 1..n - 1 /\ p \in 1..Len(capture) /\ SameSource(p, n)
  BY <1>1, <1>5 DEF IsLast, SameSource
<1>7. capture[p].num < c.num
  <2>1. capture[p].num - c.num < 1
    BY <1>1, <1>4, <1>6 DEF IInv, PathInv, NotFarBehind
  <2>2. capture[p].num # c.num
    BY <1>1, <1>5, <1>6, BodyTellsFrame DEF KeepNew, IInv, PathInv
  <2>3. capture[p].num \in Int /\ c.num \in Int
    BY <1>1, <1>3, <1>6
  <2> QED
    BY <2>1, <2>2, <2>3
<1>8. capture[i].num <= capture[p].num
  <2>1. i <= p /\ i \in 1..Len(capture)
    BY <1>1, <1>2, <1>5 DEF IsLast
  <2>2. CASE i < p
    <3>1. i \in 1..p - 1 /\ SameSource(i, p)
      BY <1>1, <1>2, <1>6, <2>1, <2>2 DEF SameSource
    <3>2. capture[i].num - capture[p].num < 1
      BY <1>4, <1>6, <3>1 DEF IInv, PathInv, NotFarBehind
    <3> QED
      BY <1>3, <1>6, <2>1, <3>2
  <2>3. CASE i = p
    BY <1>3, <1>6, <2>3
  <2> QED
    BY <1>1, <1>6, <2>1, <2>2, <2>3
<1>9. /\ capture[i].num \in Int /\ capture[p].num \in Int
      /\ capture[n].num \in Int /\ c.num = capture[n].num
  BY <1>1, <1>2, <1>3, <1>6
<1> QED
  BY <1>2, <1>7, <1>8, <1>9

\* The refinement mapping.
PlainLog(ks) == IF Tight THEN [k \in 1..Len(ks) |-> <<ks[k].src, ks[k].num>>] ELSE <<>>

\* A copy kept is a frame that arrives in the plain capture.
LEMMA KeepNewArrives ==
  ASSUME IInv, Tight, Dedupe, NEW c, c = capture[pos + 1], KeepNew(c)
  PROVE  Plain!Next
<1>1. /\ c \in Copies /\ c.src \in Sources /\ c.num \in NumberRange
      /\ kept \in Seq(Copies) /\ Len(kept) \in Nat
      /\ mirror' = mirror /\ kept' = Append(kept, c)
  <2>1. /\ pos \in Nat /\ pos + 1 \in 1..Len(capture) /\ kept \in Seq(Copies) /\ Len(kept) \in Nat
        /\ sent \in [Sources -> Seq(Audio)] /\ \A s \in Sources : Len(sent[s]) <= MaxSent
    BY DEF IInv, PathInv, Typed, Dedupe
  <2>2. c \in Copies /\ c.src \in Sources
    BY DedupeKeepsPath DEF IInv, Copies
  <2>3. c.num \in FirstFrame .. NextNumber(c.src) - 1
    BY <2>1 DEF IInv, PathInv, Genuine, IsCopyOf
  <2>4. c.num \in NumberRange
    BY <2>1, <2>2, <2>3, MirrorAssumption DEF NextNumber, NumberRange
  <2> QED
    BY <2>1, <2>2, <2>4 DEF KeepNew
<1>2. \A k \in 1..Len(kept) : kept[k].src = c.src => kept[k].num < c.num
  BY KeepsInOrder
<1>3. PlainLog(kept)' = Append(PlainLog(kept), <<c.src, c.num>>)
  <2>1. Len(kept') = Len(kept) + 1 /\ kept'[Len(kept) + 1] = c
        /\ \A k \in 1..Len(kept) : kept'[k] = kept[k]
    BY <1>1
  <2>2. Tight'
    BY <1>1 DEF Tight
  <2> QED
    BY <1>1, <2>1, <2>2 DEF PlainLog
<1>4. \A k \in 1..Len(PlainLog(kept)) :
        PlainLog(kept)[k][1] = c.src => PlainLog(kept)[k][2] < c.num
  BY <1>1, <1>2 DEF PlainLog
<1>5. Plain!Arrive(c.src, c.num)
  BY <1>3, <1>4 DEF Plain!Arrive, Plain!NewerThanAll, PlainLog
<1> QED
  BY <1>1, <1>5 DEF Plain!Next

\* Off a tight mirror the dedup gives back a capture of one direction, whatever
\* the path loses: every step keeps the next frame of a source or nothing.
THEOREM Refinement == Spec => GivesBackPlainCapture
<1>1. Init => Plain!Init
  BY DEF Init, Plain!Init
<1>2. IInv /\ [Next]_vars =>
        [Plain!Next]_(IF Tight THEN [k \in 1..Len(kept) |-> <<kept[k].src, kept[k].num>>]
                               ELSE <<>>)
  <2> SUFFICES ASSUME IInv, [Next]_vars
               PROVE  Plain!Next \/ PlainLog(kept)' = PlainLog(kept)
    BY DEF PlainLog
  <2>1. mirror' = mirror
    BY DEF Next, Send, Resend, MirrorTx, Close, Dedupe, KeepOpaque, DropTwin, KeepNew, vars
  <2>2. CASE kept' = kept
    BY <2>1, <2>2 DEF PlainLog, Tight
  <2>3. CASE ~Tight
    BY <2>1, <2>3 DEF PlainLog, Tight
  <2>4. CASE Tight /\ Dedupe
    <3>1. PICK c : c = capture[pos + 1]
      OBVIOUS
    <3>2. c.opaque => mirror.opaque
      <4>1. pos + 1 \in 1..Len(capture)
        BY <2>4 DEF IInv, PathInv, Typed, Dedupe
      <4> QED
        BY <3>1, <4>1 DEF IInv, PathInv, Genuine, IsCopyOf
    <3>3. ~KeepOpaque(c)
      BY <2>4, <3>2 DEF KeepOpaque, Tight
    <3>4. CASE KeepNew(c)
      BY <2>4, <3>1, <3>4, KeepNewArrives
    <3>5. CASE DropTwin(c)
      BY <2>2, <3>5 DEF DropTwin
    <3> QED
      BY <2>4, <3>1, <3>3, <3>4, <3>5 DEF Dedupe
  <2>5. Dedupe \/ kept' = kept
    BY DEF Next, Send, Resend, MirrorTx, Close, vars
  <2> QED
    BY <2>2, <2>3, <2>4, <2>5
<1> QED
  BY <1>1, <1>2, IInvInit, IInvNext, PTL DEF Spec, GivesBackPlainCapture, Plain!Spec
===============================================================================
