--------------------------- MODULE CliVerdict_proofs ---------------------------
(***************************************************************************)
(* The verdicts of reac/cli.py, for any capture of any streams: that main  *)
(* drops the copies of a mirror and nothing else, reports the worst gap,   *)
(* calls no stream clean that lost a frame, takes no stream for one of     *)
(* another rate, and counts the streams without a rate into its status.    *)
(***************************************************************************)
EXTENDS CliVerdict, Lemmas

-------------------------------------------------------------------------------
(* What holds of every state.                                              *)

FrameSet == [stream : Streams, num : Nat, seq : Int, at : Nat, ts : Int]

\* The first copy of its frame, off a mirror that gives both.
IsFirst(g, i) == i > 1 => g[i].num # g[i - 1].num

\* A frame is stamped with the time of the day it came in, never before it was
\* sent, and its first copy at most the path's delay after.
StampedInTime(g, s) ==
  \A i \in 1..Len(g) :
    /\ g[i].seq = Seq16(g[i].num) /\ g[i].ts = (StartTime + g[i].at) % DAY
    /\ g[i].num * period[s] <= g[i].at /\ g[i].at <= now
    /\ IsFirst(g, i) => g[i].at - g[i].num * period[s] <= tap.delay

\* A frame is at most the path's gap ahead of the one before, and behind it by
\* at most the frames the path's delay holds.
NeighboursAreNear(g, s) ==
  \A i \in 2..Len(g) :
    /\ g[i - 1].at <= g[i].at
    /\ g[i].num - g[i - 1].num <= tap.gap
    /\ (g[i - 1].num - g[i].num) * period[s] <= tap.delay

SetupType ==
  /\ tap \in Taps /\ period \in [tap.streams -> tap.sent] /\ forced \in tap.forced
  /\ now \in 0..tap.time
  /\ phase \in {"capturing", "analyzing", "exited"}
  /\ status \in {NONE, 0, 1, 3}

LogType == log \in Seq(FrameSet) /\ Len(log) <= tap.frames

GroupsInv ==
  \A s \in tap.streams :
    /\ Group(s) \in Seq(FrameSet)
    /\ StampedInTime(Group(s), s) /\ NeighboursAreNear(Group(s), s)

\* What main has said so far is what it says of the capture's groups, and the
\* count of the streams without a rate is of those.
VerdictsInv ==
  /\ DOMAIN verdicts \subseteq tap.streams
  /\ \A s \in DOMAIN verdicts : Group(s) # <<>> /\ verdicts[s] = VerdictOf(Group(s))
  /\ unresolved = Cardinality({s \in DOMAIN verdicts : verdicts[s].nominal = NONE})

\* What each phase has left behind: only a capture whose groups can be sorted is
\* analyzed, and then all of it.
PhaseLeaves ==
  /\ phase = "capturing" => DOMAIN verdicts = {} /\ status = NONE
  /\ phase = "analyzing" => log # <<>> /\ Sortable
  /\ phase = "exited" => /\ status = 1 <=> log = <<>> \/ ~Sortable
                         /\ status = 1 => DOMAIN verdicts = {}
                         /\ status # 1 => \A s \in tap.streams : Group(s) # <<>> => s \in DOMAIN verdicts
                         /\ status = 3 <=> unresolved > 0

CliInv == SetupType /\ LogType /\ GroupsInv /\ VerdictsInv /\ PhaseLeaves

\* The constants of a tap, one by one.
LEMMA TapType ==
  ASSUME SetupType
  PROVE  /\ tap.rates \subseteq Nat \ {0} /\ tap.rates # {} /\ IsFiniteSet(tap.rates)
         /\ tap.sent \subseteq Nat \ {0} /\ tap.streams \subseteq Streams
         /\ tap.delay \in Nat /\ tap.gap \in Nat /\ tap.time \in Nat /\ tap.frames \in Nat
         /\ now \in Nat
         /\ \A s \in tap.streams : period[s] \in tap.sent /\ period[s] \in Nat \ {0}
         /\ forced = NONE \/ forced \in Nat \ {0}
<1>1. tap \in Taps
  BY DEF SetupType
<1>2. /\ tap.rates \subseteq Nat \ {0} /\ tap.rates # {} /\ IsFiniteSet(tap.rates)
      /\ tap.sent \subseteq Nat \ {0} /\ tap.streams \subseteq Streams
      /\ tap.delay \in Nat /\ tap.gap \in Nat /\ tap.time \in Nat /\ tap.frames \in Nat
      /\ tap.forced \subseteq (Nat \ {0}) \cup {NONE}
  BY <1>1, CliAssumption DEF CliAssumption
<1>3. \A s \in tap.streams : period[s] \in tap.sent
  BY DEF SetupType
<1>4. forced \in tap.forced /\ now \in 0..tap.time
  BY DEF SetupType
<1>5. now \in Nat
  BY <1>2, <1>4
<1>6. \A s \in tap.streams : period[s] \in Nat \ {0}
  BY <1>2, <1>3
<1>7. forced = NONE \/ forced \in Nat \ {0}
  BY <1>2, <1>4
<1> QED
  BY <1>2, <1>3, <1>5, <1>6, <1>7

LEMMA CounterType ==
  /\ \A n \in Nat : Seq16(n) \in Int
  /\ \A n \in Nat : (StartTime + n) % DAY \in Int
<1>1. SEQ_MODULUS \in Nat \ {0}
  BY HalfAssumption DEF SEQ_MODULUS, HalfAssumption
<1>2. DAY \in Nat \ {0} /\ StartTime \in Int
  BY CliAssumption DEF CliAssumption
<1>3. ASSUME NEW n \in Nat PROVE Seq16(n) \in Int
  <2>1. n % SEQ_MODULUS \in 0 .. SEQ_MODULUS - 1
    BY <1>1, DivMod
  <2> QED
    BY <1>1, <2>1 DEF Seq16
<1>4. ASSUME NEW n \in Nat PROVE (StartTime + n) % DAY \in Int
  <2>1. (StartTime + n) % DAY \in 0 .. DAY - 1
    BY <1>2, DivMod
  <2> QED
    BY <1>2, <2>1
<1> QED
  BY <1>3, <1>4

\* A product with a difference is a difference of products.
LEMMA Distributes ==
  ASSUME NEW a \in Int, NEW b \in Int, NEW m \in Int
  PROVE  /\ a * m \in Int /\ b * m \in Int
         /\ (a - b) * m = a * m - b * m
<1>1. m * (a - b) = m * a - m * b
  OBVIOUS
<1> QED
  BY <1>1

LEMMA InitInv == Init => CliInv
<1> SUFFICES ASSUME Init PROVE CliInv
  OBVIOUS
<1>1. SetupType
  <2>1. tap \in Taps /\ now = 0
    BY DEF Init
  <2>2. tap.time \in Nat
    BY <2>1, CliAssumption DEF CliAssumption
  <2> QED
    BY <2>1, <2>2 DEF Init, SetupType
<1>2. log = <<>> /\ log \in Seq(FrameSet) /\ Len(log) = 0
  BY EmptySeq DEF Init
<1>3. LogType
  <2>1. tap.frames \in Nat
    BY <1>1, TapType
  <2> QED
    BY <1>2, <2>1 DEF LogType
<1>4. \A s : Group(s) = <<>>
  <2> TAKE s
  <2> DEFINE P == {i \in 1..Len(log) : log[i].stream = s}
  <2>1. Group(s) = Picked(log, P)
    BY DEF Group
  <2> HIDE DEF P
  <2>2. log = <<>>
    BY <1>2
  <2> QED
    BY <2>1, <2>2, PickedOfNone, Zenon
<1>5. GroupsInv
  <2> SUFFICES ASSUME NEW s \in tap.streams
               PROVE  /\ Group(s) \in Seq(FrameSet)
                      /\ StampedInTime(Group(s), s) /\ NeighboursAreNear(Group(s), s)
    BY DEF GroupsInv
  <2>1. PICK g \in Seq(FrameSet) : g = Group(s) /\ Len(g) = 0
    BY <1>2, <1>4
  <2>2. 1..Len(g) = {} /\ 2..Len(g) = {}
    BY <2>1
  <2>3. StampedInTime(g, s) /\ NeighboursAreNear(g, s)
    BY <2>2 DEF StampedInTime, NeighboursAreNear
  <2> QED
    BY <2>1, <2>3
<1>6. VerdictsInv
  <2>1. DOMAIN verdicts = {} /\ unresolved = 0
    BY DEF Init
  <2>2. {s \in DOMAIN verdicts : verdicts[s].nominal = NONE} = {}
    BY <2>1
  <2> QED
    BY <2>1, <2>2, FS_EmptySet DEF VerdictsInv
<1>7. PhaseLeaves
  BY DEF Init, PhaseLeaves
<1> QED
  BY <1>1, <1>3, <1>5, <1>6, <1>7 DEF CliInv

\* A frame that comes in joins its stream's group.
LEMMA GroupsMore ==
  ASSUME log \in Seq(FrameSet), NEW f \in FrameSet, log' = Append(log, f)
  PROVE  /\ Group(f.stream)' = Append(Group(f.stream), f)
         /\ \A t : t # f.stream => Group(t)' = Group(t)
<1>1. ASSUME NEW t
      PROVE  Group(t)' = IF t = f.stream THEN Append(Group(t), f) ELSE Group(t)
  <2> DEFINE P == {i \in 1..Len(log) : log[i].stream = t}
             Q == {i \in 1..Len(log') : log'[i].stream = t}
  <2>1. PICK N \in Nat : N = Len(log)
    BY LenProperties
  <2>2. Len(log') = N + 1 /\ log'[N + 1] = f /\ \A i \in 1..N : log'[i] = log[i]
    BY <2>1, AppendProperties
  <2>3. \A i \in 1..N : i \in Q <=> i \in P
    BY <2>1, <2>2
  <2>4. N + 1 \in Q <=> f.stream = t
    BY <2>2
  <2>5. Group(t) = Picked(log, P) /\ Group(t)' = Picked(log', Q)
    BY DEF Group
  <2> HIDE DEF P, Q
  <2>6. Picked(Append(log, f), Q) =
          IF Len(log) + 1 \in Q THEN Append(Picked(log, P), f) ELSE Picked(log, P)
    BY <2>1, <2>3, PickedMore
  <2> QED
    BY <2>1, <2>4, <2>5, <2>6
<1> QED
  BY <1>1

\* A frame near the stream's last, and in time unless it is that frame's other
\* copy, keeps what is known of the capture.
LEMMA CaptureKeeps ==
  ASSUME CliInv, phase = "capturing", NEW s \in tap.streams, NEW n \in Nat, Captured(s, n),
         n * period[s] <= now,
         Group(s) = <<>> \/ Last(Group(s)).num # n => now - n * period[s] <= tap.delay,
         Group(s) # <<>> => /\ n - Last(Group(s)).num <= tap.gap
                            /\ (Last(Group(s)).num - n) * period[s] <= tap.delay
  PROVE  CliInv'
<1> USE DEF CliInv
<1>0. /\ s \in Streams /\ now \in Nat /\ period[s] \in Nat \ {0}
      /\ tap.delay \in Nat /\ tap.gap \in Nat /\ tap.frames \in Nat
  BY TapType
<1>1. PICK f : f = [stream |-> s, num |-> n, seq |-> Seq16(n), at |-> now, ts |-> (StartTime + now) % DAY]
  OBVIOUS
<1>2. f \in FrameSet
  BY <1>0, <1>1, CounterType DEF FrameSet
<1>3. /\ f.stream = s /\ f.num = n /\ f.at = now
      /\ f.seq = Seq16(f.num) /\ f.ts = (StartTime + f.at) % DAY
  BY <1>1
<1>4. /\ Len(log) < tap.frames /\ log' = Append(log, f)
      /\ UNCHANGED <<tap, period, forced, now, phase, verdicts, unresolved, status>>
  BY <1>1 DEF Captured
<1>5. SetupType'
  BY <1>4 DEF SetupType
<1>6. LogType'
  <2>1. log \in Seq(FrameSet)
    BY DEF LogType
  <2>2. log' \in Seq(FrameSet) /\ Len(log') = Len(log) + 1 /\ Len(log) \in Nat
    BY <1>2, <1>4, <2>1, AppendProperties, LenProperties
  <2>3. Len(log') <= tap.frames
    BY <1>0, <1>4, <2>2
  <2> QED
    BY <1>4, <2>2, <2>3 DEF LogType
<1>7. Group(s)' = Append(Group(s), f) /\ \A t : t # s => Group(t)' = Group(t)
  BY <1>2, <1>3, <1>4, GroupsMore DEF LogType
<1>8. ASSUME NEW t \in tap.streams, t # s
      PROVE  Group(t)' \in Seq(FrameSet) /\ StampedInTime(Group(t), t)' /\ NeighboursAreNear(Group(t), t)'
  <2>1. Group(t)' = Group(t)
    BY <1>7, <1>8
  <2>2. Group(t) \in Seq(FrameSet) /\ StampedInTime(Group(t), t) /\ NeighboursAreNear(Group(t), t)
    BY DEF GroupsInv
  <2> QED
    BY <1>4, <2>1, <2>2 DEF StampedInTime, NeighboursAreNear, IsFirst
<1>9. Group(s)' \in Seq(FrameSet) /\ StampedInTime(Group(s), s)' /\ NeighboursAreNear(Group(s), s)'
  <2>1. PICK g \in Seq(FrameSet) : g = Group(s)
    BY DEF GroupsInv
  <2>2. StampedInTime(g, s) /\ NeighboursAreNear(g, s)
    BY <2>1 DEF GroupsInv
  <2>3. PICK h \in Seq(FrameSet) : h = Append(g, f)
    BY <1>2, AppendProperties
  <2>4. PICK N \in Nat : N = Len(g)
    BY LenProperties
  <2>5. Len(h) = N + 1 /\ h[N + 1] = f /\ \A i \in 1..N : h[i] = g[i]
    BY <1>2, <2>3, <2>4, AppendProperties
  <2>6. \A i \in 1..N : g[i].at \in Nat /\ g[i].num \in Nat
    <3>1. \A i \in 1..N : g[i] \in FrameSet
      BY <2>4, ElementOfSeq
    <3> QED
      BY <3>1 DEF FrameSet
  <2>7. N > 0 => Group(s) # <<>> /\ Last(Group(s)) = g[N]
    BY <2>1, <2>4 DEF Last
  <2>8. N = 0 => Group(s) = <<>>
    BY <2>1, <2>4, EmptySeq
  <2>9. StampedInTime(h, s)
    <3>1. ASSUME NEW i \in 1..N
          PROVE  /\ h[i].seq = Seq16(h[i].num) /\ h[i].ts = (StartTime + h[i].at) % DAY
                 /\ h[i].num * period[s] <= h[i].at /\ h[i].at <= now
                 /\ IsFirst(h, i) => h[i].at - h[i].num * period[s] <= tap.delay
      <4>1. h[i] = g[i] /\ (i > 1 => h[i - 1] = g[i - 1])
        BY <2>5
      <4>2. IsFirst(h, i) <=> IsFirst(g, i)
        BY <4>1 DEF IsFirst
      <4> QED
        BY <2>2, <2>4, <4>1, <4>2 DEF StampedInTime
    <3>2. IsFirst(h, N + 1) => f.at - f.num * period[s] <= tap.delay
      <4>1. CASE N = 0
        BY <1>3, <2>8, <4>1
      <4>2. CASE N > 0
        <5>1. h[N] = g[N] /\ N + 1 > 1 /\ (N + 1) - 1 = N
          BY <2>5, <4>2
        <5>2. IsFirst(h, N + 1) => g[N].num # n
          BY <1>3, <2>5, <5>1 DEF IsFirst
        <5> QED
          BY <1>3, <2>7, <4>2, <5>2
      <4> QED
        BY <4>1, <4>2
    <3>3. /\ h[N + 1].seq = Seq16(h[N + 1].num) /\ h[N + 1].ts = (StartTime + h[N + 1].at) % DAY
          /\ h[N + 1].num * period[s] <= h[N + 1].at /\ h[N + 1].at <= now
      BY <1>0, <1>3, <2>5
    <3>4. \A i \in 1..Len(h) : i \in 1..N \/ i = N + 1
      BY <2>5
    <3> QED
      BY <2>5, <3>1, <3>2, <3>3, <3>4 DEF StampedInTime
  <2>10. NeighboursAreNear(h, s)
    <3>1. ASSUME NEW i \in 2..N
          PROVE  /\ h[i - 1].at <= h[i].at /\ h[i].num - h[i - 1].num <= tap.gap
                 /\ (h[i - 1].num - h[i].num) * period[s] <= tap.delay
      <4>1. h[i] = g[i] /\ h[i - 1] = g[i - 1]
        BY <2>5
      <4> QED
        BY <2>2, <2>4, <4>1 DEF NeighboursAreNear
    <3>2. ASSUME N > 0
          PROVE  /\ h[N].at <= h[N + 1].at /\ h[N + 1].num - h[N].num <= tap.gap
                 /\ (h[N].num - h[N + 1].num) * period[s] <= tap.delay
      <4>1. h[N] = g[N] /\ N \in 1..Len(g)
        BY <2>4, <2>5, <3>2
      <4>2. g[N].at <= now
        BY <2>2, <4>1 DEF StampedInTime
      <4> QED
        BY <1>3, <2>5, <2>7, <3>2, <4>1, <4>2
    <3>3. \A i \in 2..Len(h) : i \in 2..N \/ (i = N + 1 /\ i - 1 = N /\ N > 0)
      BY <2>5
    <3> QED
      BY <2>5, <3>1, <3>2, <3>3 DEF NeighboursAreNear
  <2>11. h = Group(s)' /\ UNCHANGED <<tap, period, now>>
    BY <1>4, <1>7, <2>1, <2>3
  <2>12. StampedInTime(h, s)' /\ NeighboursAreNear(h, s)'
    BY <2>9, <2>10, <2>11 DEF StampedInTime, NeighboursAreNear
  <2> QED
    BY <2>11, <2>12
<1>10. GroupsInv'
  BY <1>4, <1>8, <1>9 DEF GroupsInv
<1>11. VerdictsInv'
  BY <1>4 DEF VerdictsInv, PhaseLeaves
<1>12. PhaseLeaves'
  BY <1>4 DEF PhaseLeaves
<1> QED
  BY <1>5, <1>6, <1>10, <1>11, <1>12

\* A late frame is behind the stream's last by at most what the delay holds.
LEMMA ArriveKeeps ==
  ASSUME CliInv, NEW s \in tap.streams, NEW n \in 0..tap.time, Arrive(s, n)
  PROVE  CliInv'
<1>0. /\ period[s] \in Nat \ {0} /\ tap.delay \in Nat /\ now \in Nat /\ n \in Nat
  BY TapType DEF CliInv
<1>1. /\ phase = "capturing" /\ Captured(s, n)
      /\ now - n * period[s] \in 0..tap.delay
      /\ Group(s) # <<>> => n - Last(Group(s)).num <= tap.gap
  BY DEF Arrive
<1>2. ASSUME Group(s) # <<>> PROVE (Last(Group(s)).num - n) * period[s] <= tap.delay
  <2>1. PICK g \in Seq(FrameSet) : g = Group(s) /\ StampedInTime(g, s)
    BY DEF CliInv, GroupsInv
  <2>2. PICK N \in Nat : N = Len(g)
    BY LenProperties
  <2>3. N \in 1..Len(g) /\ Last(Group(s)) = g[N]
    BY <1>2, <2>1, <2>2, EmptySeq DEF Last
  <2>4. g[N] \in FrameSet
    BY <2>3, ElementOfSeq
  <2>5. PICK m \in Nat : m = g[N].num
    BY <2>4 DEF FrameSet
  <2>6. PICK at \in Nat : at = g[N].at
    BY <2>4 DEF FrameSet
  <2>7. m * period[s] <= at /\ at <= now
    BY <2>1, <2>3, <2>5, <2>6 DEF StampedInTime
  <2>8. PICK p \in Nat \ {0} : p = period[s]
    BY <1>0
  <2>9. m * p \in Int /\ n * p \in Int /\ (m - n) * p = m * p - n * p
    <3>1. m \in Int /\ n \in Int /\ p \in Int
      BY <1>0
    <3> QED
      BY <3>1, Distributes
  <2>10. PICK mp \in Int, np \in Int : mp = m * p /\ np = n * p
    BY <2>9
  <2>11. mp <= at /\ at <= now /\ now - np \in 0..tap.delay
    BY <1>1, <2>7, <2>8, <2>10
  <2>12. mp - np <= tap.delay
    BY <1>0, <2>11
  <2>13. (m - n) * p <= tap.delay
    BY <2>9, <2>10, <2>12
  <2> QED
    BY <2>3, <2>5, <2>8, <2>13
<1>3. n * period[s] \in Int
  BY <1>0, Z3
<1>4. n * period[s] <= now /\ now - n * period[s] <= tap.delay
  BY <1>0, <1>1, <1>3
<1> QED
  BY <1>0, <1>1, <1>2, <1>4, CaptureKeeps

LEMMA TwinKeeps ==
  ASSUME CliInv, NEW s \in tap.streams, Twin(s)
  PROVE  CliInv'
<1>0. /\ period[s] \in Nat \ {0} /\ tap.delay \in Nat /\ tap.gap \in Nat /\ now \in Nat
  BY TapType DEF CliInv
<1>1. /\ phase = "capturing" /\ Group(s) # <<>> /\ Captured(s, Last(Group(s)).num)
  BY DEF Twin
<1>2. PICK g \in Seq(FrameSet) : g = Group(s) /\ StampedInTime(g, s)
  BY DEF CliInv, GroupsInv
<1>3. PICK N \in Nat : N = Len(g)
  BY LenProperties
<1>4. N \in 1..Len(g) /\ Last(Group(s)) = g[N]
  BY <1>1, <1>2, <1>3, EmptySeq DEF Last
<1>5. g[N] \in FrameSet
  BY <1>4, ElementOfSeq
<1>6. PICK n \in Nat : n = g[N].num
  BY <1>5 DEF FrameSet
<1>7. PICK at \in Nat : at = g[N].at
  BY <1>5 DEF FrameSet
<1>8. n * period[s] <= at /\ at <= now
  BY <1>2, <1>4, <1>6, <1>7 DEF StampedInTime
<1>9. PICK np \in Int : np = n * period[s]
  BY <1>0
<1>10. n * period[s] <= now
  BY <1>0, <1>8, <1>9
<1>11. n - n <= tap.gap /\ (n - n) * period[s] <= tap.delay
  BY <1>0
<1>12. Last(Group(s)).num = n /\ Captured(s, n)
  BY <1>1, <1>4, <1>6
<1> QED
  BY <1>1, <1>10, <1>11, <1>12, CaptureKeeps

\* One turn of the loop adds its group's verdict to those there are.
LEMMA AnalyzeGroupKeeps ==
  ASSUME CliInv, NEW s \in tap.streams, AnalyzeGroup(s)
  PROVE  CliInv'
<1> USE DEF CliInv
<1>1. /\ phase = "analyzing" /\ s \notin DOMAIN verdicts /\ Group(s) # <<>>
      /\ UNCHANGED <<tap, period, forced, now, log, phase, status>>
  BY DEF AnalyzeGroup
<1>2. PICK v : v = VerdictOf(Group(s))
  OBVIOUS
<1>3. /\ verdicts' = [t \in DOMAIN verdicts \cup {s} |-> IF t = s THEN v ELSE verdicts[t]]
      /\ unresolved' = unresolved + (IF v.nominal = NONE THEN 1 ELSE 0)
  BY <1>2 DEF AnalyzeGroup
<1>4. /\ DOMAIN verdicts' = DOMAIN verdicts \cup {s}
      /\ verdicts'[s] = v
      /\ \A t \in DOMAIN verdicts : verdicts'[t] = verdicts[t]
  BY <1>1, <1>3
<1>5. ASSUME NEW t PROVE Group(t)' = Group(t)
  BY <1>1 DEF Group
<1>6. SetupType' /\ LogType'
  BY <1>1 DEF SetupType, LogType
<1>7. GroupsInv'
  BY <1>1, <1>5 DEF GroupsInv, StampedInTime, NeighboursAreNear, IsFirst
<1>8. ASSUME NEW g PROVE VerdictOf(g)' = VerdictOf(g)
  BY <1>1 DEF VerdictOf, resolve_nominal, RateOf, Line
<1>9. ASSUME NEW t \in DOMAIN verdicts'
      PROVE  Group(t)' # <<>> /\ verdicts'[t] = VerdictOf(Group(t))'
  <2>1. Group(t)' = Group(t) /\ VerdictOf(Group(t))' = VerdictOf(Group(t))
    BY <1>5, <1>8
  <2>2. CASE t = s
    BY <1>1, <1>2, <1>4, <2>1, <2>2
  <2>3. CASE t # s
    <3>1. t \in DOMAIN verdicts
      BY <1>4, <2>3
    <3> QED
      BY <1>4, <2>1, <3>1 DEF VerdictsInv
  <2> QED
    BY <2>2, <2>3
<1>10. unresolved' = Cardinality({t \in DOMAIN verdicts' : verdicts'[t].nominal = NONE})
  <2> DEFINE U == {t \in DOMAIN verdicts : verdicts[t].nominal = NONE}
             V == {t \in DOMAIN verdicts' : verdicts'[t].nominal = NONE}
  <2>1. IsFiniteSet(U)
    <3>1. U \subseteq Streams /\ IsFiniteSet(Streams)
      BY TapType, CliAssumption DEF VerdictsInv, CliAssumption
    <3> HIDE DEF U
    <3> QED
      BY <3>1, FS_Subset
  <2>2. V = IF v.nominal = NONE THEN U \cup {s} ELSE U
    BY <1>1, <1>4
  <2>3. s \notin U
    BY <1>1
  <2>4. unresolved = Cardinality(U)
    BY DEF VerdictsInv
  <2> HIDE DEF U, V
  <2>5. Cardinality(U) \in Nat /\ Cardinality(U \cup {s}) = Cardinality(U) + 1
    BY <2>1, <2>3, FS_AddElement, FS_CardinalityType
  <2>6. unresolved' = Cardinality(V)
    BY <1>3, <2>2, <2>4, <2>5
  <2> QED
    BY <2>6 DEF V
<1>11. VerdictsInv'
  <2>1. (DOMAIN verdicts)' \subseteq tap.streams'
    BY <1>1, <1>4 DEF VerdictsInv
  <2> QED
    BY <1>9, <1>10, <2>1 DEF VerdictsInv
<1>12. PhaseLeaves'
  BY <1>1 DEF PhaseLeaves, Sortable
<1> QED
  BY <1>6, <1>7, <1>11, <1>12

\* What changes neither the capture nor the verdicts keeps what is known of them.
LEMMA CaptureStays ==
  ASSUME CliInv, UNCHANGED <<tap, period, forced, log, verdicts, unresolved>>,
         now' \in Nat, now <= now'
  PROVE  LogType' /\ GroupsInv' /\ VerdictsInv'
<1> USE DEF CliInv
<1>1. ASSUME NEW t PROVE Group(t)' = Group(t)
  BY DEF Group
<1>2. ASSUME NEW g PROVE VerdictOf(g)' = VerdictOf(g)
  BY DEF VerdictOf, resolve_nominal, RateOf, Line
<1>3. LogType'
  BY DEF LogType
<1>4. ASSUME NEW s \in tap.streams
      PROVE  Group(s)' \in Seq(FrameSet) /\ StampedInTime(Group(s), s)' /\ NeighboursAreNear(Group(s), s)'
  <2>1. PICK g \in Seq(FrameSet) : g = Group(s) /\ StampedInTime(g, s) /\ NeighboursAreNear(g, s)
    BY DEF GroupsInv
  <2>2. Group(s)' = g
    BY <1>1, <2>1
  <2>3. ASSUME NEW i \in 1..Len(g) PROVE g[i].at <= now'
    <3>1. g[i] \in FrameSet
      BY ElementOfSeq
    <3>2. g[i].at \in Nat
      BY <3>1 DEF FrameSet
    <3>3. now \in Nat /\ g[i].at <= now
      BY <2>1, TapType DEF StampedInTime
    <3> QED
      BY <3>2, <3>3
  <2>4. StampedInTime(g, s)' /\ NeighboursAreNear(g, s)'
    BY <2>1, <2>3 DEF StampedInTime, NeighboursAreNear
  <2> QED
    BY <2>2, <2>4
<1>5. GroupsInv'
  BY <1>4 DEF GroupsInv
<1>6. ASSUME NEW t \in DOMAIN verdicts
      PROVE  Group(t)' # <<>> /\ verdicts'[t] = VerdictOf(Group(t))'
  <2>1. Group(t)' = Group(t) /\ VerdictOf(Group(t))' = VerdictOf(Group(t))
    BY <1>1, <1>2
  <2> QED
    BY <2>1 DEF VerdictsInv
<1>7. VerdictsInv'
  BY <1>6 DEF VerdictsInv
<1> QED
  BY <1>3, <1>5, <1>7

LEMMA ExitKeeps ==
  ASSUME CliInv, Exit
  PROVE  CliInv'
<1> USE DEF CliInv
<1>1. /\ phase = "analyzing" /\ phase' = "exited"
      /\ status' = IF unresolved > 0 THEN 3 ELSE 0
      /\ \A s \in tap.streams : Group(s) # <<>> => s \in DOMAIN verdicts
      /\ UNCHANGED <<tap, period, forced, now, log, verdicts, unresolved>>
  BY DEF Exit
<1>2. SetupType'
  BY <1>1 DEF SetupType
<1>3. now \in Nat
  BY TapType
<1>4. LogType' /\ GroupsInv' /\ VerdictsInv'
  BY <1>1, <1>3, CaptureStays
<1>5. PhaseLeaves'
  <2>1. log' # <<>> /\ Sortable'
    BY <1>1 DEF PhaseLeaves, Sortable
  <2>4. \A s \in tap.streams' : Group(s)' # <<>> => s \in DOMAIN verdicts'
    BY <1>1 DEF Group
  <2>2. CASE unresolved > 0
    BY <1>1, <2>1, <2>2, <2>4 DEF PhaseLeaves
  <2>3. CASE ~ unresolved > 0
    BY <1>1, <2>1, <2>3, <2>4 DEF PhaseLeaves
  <2> QED
    BY <2>2, <2>3
<1> QED
  BY <1>2, <1>4, <1>5

LEMMA ReadKeeps ==
  ASSUME CliInv, Read
  PROVE  CliInv'
<1> USE DEF CliInv
<1>1. /\ phase = "capturing"
      /\ UNCHANGED <<tap, period, forced, now, log, verdicts, unresolved>>
  BY DEF Read
<1>2. \/ (log = <<>> \/ ~Sortable) /\ phase' = "exited" /\ status' = 1
      \/ log # <<>> /\ Sortable /\ phase' = "analyzing" /\ status' = status
  BY DEF Read
<1>3. SetupType'
  BY <1>1, <1>2 DEF SetupType
<1>4. now \in Nat
  BY TapType
<1>5. LogType' /\ GroupsInv' /\ VerdictsInv'
  BY <1>1, <1>4, CaptureStays
<1>6. unresolved = 0
  <2>1. {s \in DOMAIN verdicts : verdicts[s].nominal = NONE} = {}
    BY <1>1 DEF PhaseLeaves
  <2> QED
    BY <2>1, FS_EmptySet DEF VerdictsInv
<1>7. PhaseLeaves'
  <2>1. Sortable' = Sortable
    BY <1>1 DEF Sortable
  <2> QED
    BY <1>1, <1>2, <1>6, <2>1 DEF PhaseLeaves
<1> QED
  BY <1>3, <1>5, <1>7

LEMMA WaitKeeps ==
  ASSUME CliInv, Wait
  PROVE  CliInv'
<1> USE DEF CliInv
<1>1. /\ now < tap.time /\ now' = now + 1
      /\ UNCHANGED <<tap, period, forced, log, phase, verdicts, unresolved, status>>
  BY DEF Wait
<1>2. now \in Nat /\ tap.time \in Nat
  BY TapType
<1>3. now' \in 0..tap.time /\ now' \in Nat /\ now <= now'
  BY <1>1, <1>2
<1>4. SetupType'
  BY <1>1, <1>3 DEF SetupType
<1>5. LogType' /\ GroupsInv' /\ VerdictsInv'
  BY <1>1, <1>3, CaptureStays
<1>6. PhaseLeaves'
  BY <1>1 DEF PhaseLeaves, Sortable, Group
<1> QED
  BY <1>4, <1>5, <1>6

LEMMA NextKeeps == CliInv /\ [Next]_vars => CliInv'
<1> SUFFICES ASSUME CliInv, [Next]_vars PROVE CliInv'
  OBVIOUS
<1>1. CASE Wait
  BY <1>1, WaitKeeps
<1>2. CASE \E s \in tap.streams, n \in 0..tap.time : Arrive(s, n)
  BY <1>2, ArriveKeeps
<1>3. CASE \E s \in tap.streams : Twin(s)
  BY <1>3, TwinKeeps
<1>4. CASE \E s \in tap.streams : AnalyzeGroup(s)
  BY <1>4, AnalyzeGroupKeeps
<1>5. CASE Read
  BY <1>5, ReadKeeps
<1>6. CASE Exit
  BY <1>6, ExitKeeps
<1>7. CASE UNCHANGED vars
  <2>1. UNCHANGED <<tap, period, forced, now, log, phase, verdicts, unresolved, status>>
    BY <1>7 DEF vars
  <2>2. now \in Nat
    BY TapType DEF CliInv
  <2>3. LogType' /\ GroupsInv' /\ VerdictsInv'
    BY <2>1, <2>2, CaptureStays
  <2>4. PhaseLeaves'
    BY <2>1 DEF CliInv, PhaseLeaves, Sortable, Group
  <2> QED
    BY <2>1, <2>3, <2>4 DEF CliInv, SetupType
<1> QED
  BY <1>1, <1>2, <1>3, <1>4, <1>5, <1>6, <1>7 DEF Next

\* Whatever streams a capture holds, however they lose, delay and repeat frames,
\* each group is its stream's frames as they came in, and each verdict is what
\* main says of its group.
THEOREM CliSafety == Spec => []CliInv
BY InitInv, NextKeeps, PTL DEF Spec

\* Whatever streams a capture holds, however they lose, delay and repeat, the
\* command line exits with 1 exactly if it reports nothing, for an empty capture
\* or a source both tagged and untagged; else it has a verdict for each stream,
\* exits with 3 exactly if some stream got no rate, and judges no ratio for it.
THEOREM StatusCorrect == Spec => []StatusTellsUnresolved
<1>1. ASSUME CliInv PROVE StatusTellsUnresolved
  <2> DEFINE U == {s \in DOMAIN verdicts : verdicts[s].nominal = NONE}
  <2>1. IsFiniteSet(U)
    <3>1. U \subseteq Streams /\ IsFiniteSet(Streams)
      BY <1>1, TapType, CliAssumption DEF CliInv, VerdictsInv, CliAssumption
    <3> HIDE DEF U
    <3> QED
      BY <3>1, FS_Subset
  <2>2. unresolved = Cardinality(U)
    BY <1>1 DEF CliInv, VerdictsInv
  <2>3. unresolved > 0 <=> U # {}
    <3> HIDE DEF U
    <3>1. Cardinality(U) \in Nat /\ (Cardinality(U) = 0 <=> U = {})
      BY <2>1, FS_CardinalityType, FS_EmptySet
    <3> QED
      BY <2>2, <3>1
  <2>4. ASSUME NEW s \in DOMAIN verdicts, verdicts[s].nominal = NONE
        PROVE  verdicts[s].line = "none"
    <3>1. PICK raw : verdicts[s] = VerdictOf(raw)
      BY <1>1 DEF CliInv, VerdictsInv
    <3> QED
      BY <2>4, <3>1 DEF VerdictOf, Line
  <2> QED
    BY <1>1, <2>3, <2>4 DEF CliInv, PhaseLeaves, StatusTellsUnresolved
<1> QED
  BY <1>1, CliSafety, PTL

-------------------------------------------------------------------------------
(* What is left of a stream without its twins.                             *)

\* Between two frames of a stream the path loses less than a turn of the
\* counter, and delays a frame by less: a turn of the 16-bit counter lasts 8 s
\* and more.
WithinATurn ==
  \A t \in Taps : t.gap < SEQ_MODULUS /\ \A p \in t.sent : t.delay < SEQ_MODULUS * p

\* The capture ends on the day it starts on.
WithinTheDay == \A t \in Taps : StartTime + t.time < DAY

LEMMA LessByFactor ==
  ASSUME NEW a \in Int, NEW b \in Int, NEW m \in Nat \ {0}, a * m < b * m
  PROVE  a < b
<1> SUFFICES ASSUME b <= a PROVE FALSE
  OBVIOUS
<1>1. PICK d \in Nat : d = a - b
  OBVIOUS
<1>2. a * m - b * m = d * m
  BY <1>1, Distributes
<1>3. d * m \in Nat /\ a * m \in Int /\ b * m \in Int
  OBVIOUS
<1> QED
  BY <1>2, <1>3

\* Neighbours in a group have one counter only if they are copies of one frame.
LEMMA SameCounterSameFrame ==
  ASSUME WithinATurn, CliInv, NEW s \in tap.streams, NEW g, g = Group(s), NEW i \in 2..Len(g)
  PROVE  g[i].seq = g[i - 1].seq <=> g[i].num = g[i - 1].num
<1>1. PICK m : m = SEQ_MODULUS /\ m \in Nat \ {0}
  BY HalfAssumption DEF SEQ_MODULUS, HalfAssumption
<1>2. g \in Seq(FrameSet) /\ StampedInTime(g, s) /\ NeighboursAreNear(g, s)
  BY DEF CliInv, GroupsInv
<1>3. i \in 1..Len(g) /\ i - 1 \in 1..Len(g)
  BY <1>2, LenProperties
<1>4. g[i] \in FrameSet /\ g[i - 1] \in FrameSet
  BY <1>2, <1>3, ElementOfSeq
<1>5. PICK b \in Nat, a \in Nat : b = g[i].num /\ a = g[i - 1].num
  BY <1>4 DEF FrameSet
<1>6. g[i].seq = b % m /\ g[i - 1].seq = a % m
  BY <1>1, <1>2, <1>3, <1>5 DEF StampedInTime, Seq16
<1>7. /\ tap \in Taps /\ period[s] \in tap.sent
      /\ tap.delay \in Nat /\ tap.gap \in Nat
  BY TapType DEF CliInv, SetupType
<1>8. PICK p \in Nat \ {0} : p = period[s]
  BY TapType DEF CliInv
<1>9. tap.gap < m /\ tap.delay < m * p
  BY <1>1, <1>7, <1>8 DEF WithinATurn
<1>10. b - a <= tap.gap /\ (a - b) * p <= tap.delay
  BY <1>2, <1>5, <1>8 DEF NeighboursAreNear
<1>11. PICK d \in Int : d = a - b
  OBVIOUS
<1>12. d < m
  <2>1. d * p \in Int /\ m * p \in Int /\ m \in Int
    BY <1>1
  <2>2. d * p < m * p
    BY <1>7, <1>9, <1>10, <1>11, <2>1
  <2> QED
    BY <2>1, <2>2, LessByFactor
<1>13. b - a < m /\ -m < b - a
  <2>1. b - a <= tap.gap /\ tap.gap < m
    BY <1>9, <1>10
  <2> QED
    BY <1>1, <1>7, <1>11, <1>12, <2>1
<1>14. b % m = a % m => b = a
  <2>1. a \in Int /\ b \in Int /\ m \in Nat \ {0}
    BY <1>1
  <2> QED
    BY <1>13, <2>1, SameRemainder
<1> QED
  BY <1>5, <1>6, <1>14

\* So main drops the mirror's copies, and nothing else.
LEMMA FirstsAreKept ==
  ASSUME WithinATurn, CliInv, NEW s \in tap.streams
  PROVE  Deduped(Group(s)) = Firsts(s)
<1>1. PICK g : g = Group(s)
  OBVIOUS
<1>2. {i \in 1..Len(g) : i > 1 => g[i].seq # g[i - 1].seq} = {i \in 1..Len(g) : i > 1 => g[i].num # g[i - 1].num}
  <2>1. Len(g) \in Nat
    BY <1>1, LenProperties DEF CliInv, GroupsInv
  <2>2. \A i \in 1..Len(g) : i > 1 => i \in 2..Len(g)
    BY <2>1
  <2>3. \A i \in 2..Len(g) : g[i].seq = g[i - 1].seq <=> g[i].num = g[i - 1].num
    BY <1>1, SameCounterSameFrame
  <2> QED
    BY <2>2, <2>3
<1> QED
  BY <1>1, <1>2 DEF Deduped, Firsts

\* As long as no whole turn of the counter is lost or delayed, of each stream
\* main drops as many frames as the mirror gave twice: none of the stream's own
\* frames goes as a twin, and no twin is counted as a frame.
THEOREM TwinsCorrect == WithinATurn => (Spec => []TwinsAreTheMirrors)
<1> SUFFICES ASSUME WithinATurn PROVE Spec => []TwinsAreTheMirrors
  OBVIOUS
<1>1. ASSUME CliInv PROVE TwinsAreTheMirrors
  <2> SUFFICES ASSUME NEW s \in DOMAIN verdicts
               PROVE  verdicts[s].twins = Len(Group(s)) - Len(Firsts(s))
    BY DEF TwinsAreTheMirrors
  <2>1. s \in tap.streams /\ verdicts[s] = VerdictOf(Group(s))
    BY <1>1 DEF CliInv, VerdictsInv
  <2>2. Deduped(Group(s)) = Firsts(s)
    BY <1>1, <2>1, FirstsAreKept
  <2> QED
    BY <2>1, <2>2 DEF VerdictOf
<1> QED
  BY <1>1, CliSafety, PTL

-------------------------------------------------------------------------------
(* The frames that are left, one after the other.                          *)

\* A frame as its source sent it, in time.
IsPrompt(f, s) ==
  /\ f.seq = Seq16(f.num) /\ f.ts = (StartTime + f.at) % DAY /\ f.at <= now
  /\ f.num * period[s] <= f.at /\ f.at - f.num * period[s] <= tap.delay

\* fs is the stream's frames without its twins.
IsPlain(fs, s) ==
  /\ fs \in Seq(FrameSet)
  /\ \A j \in 1..Len(fs) : IsPrompt(fs[j], s)
  /\ \A j \in 2..Len(fs) : fs[j - 1].at <= fs[j].at

\* fs has the numbers of the first k of g, and ends with the last of them.
HasNumbers(fs, g, k) ==
  /\ \A i \in 1..k : \E j \in 1..Len(fs) : fs[j].num = g[i].num
  /\ \A j \in 1..Len(fs) : \E i \in 1..k : g[i].num = fs[j].num
  /\ k > 0 => /\ Len(fs) > 0
              /\ fs[Len(fs)].num = g[k].num /\ fs[Len(fs)].at <= g[k].at

LEMMA FirstsArePlain ==
  ASSUME CliInv, NEW s \in tap.streams
  PROVE  IsPlain(Firsts(s), s) /\ HasNumbers(Firsts(s), Group(s), Len(Group(s)))
<1>1. PICK g \in Seq(FrameSet) : g = Group(s) /\ StampedInTime(g, s) /\ NeighboursAreNear(g, s)
  BY DEF CliInv, GroupsInv
<1>2. PICK N \in Nat : N = Len(g)
  BY LenProperties
<1>3. PICK P : P = {i \in 1..N : IsFirst(g, i)}
  OBVIOUS
<1>4. Firsts(s) = Picked(g, P)
  BY <1>1, <1>2, <1>3 DEF Firsts, IsFirst
<1>5. PICK u \in [0..N -> Seq(FrameSet)] : IsPicking(u, g, P) /\ Firsts(s) = u[N]
  BY <1>2, <1>4, PickedIsLoop
<1>6. \A i \in 1..N : g[i] \in FrameSet /\ g[i].num \in Nat /\ g[i].at \in Nat
  <2>1. \A i \in 1..N : g[i] \in FrameSet
    BY <1>2, ElementOfSeq
  <2> QED
    BY <2>1 DEF FrameSet
<1> DEFINE A == {k \in 0..N : IsPlain(u[k], s) /\ HasNumbers(u[k], g, k)}
<1>7. 0 \in A
  <2>1. PICK none \in Seq(FrameSet) : none = u[0] /\ Len(none) = 0
    <3>1. u[0] = <<>> /\ u[0] \in Seq(FrameSet) /\ Len(u[0]) = 0
      BY <1>5 DEF IsPicking
    <3> QED
      BY <3>1
  <2>2. 1..Len(none) = {} /\ 2..Len(none) = {}
    BY <2>1
  <2>3. IsPlain(none, s)
    BY <2>2 DEF IsPlain
  <2>4. HasNumbers(none, g, 0)
    <3>1. 1..0 = {} /\ ~ 0 > 0
      OBVIOUS
    <3> QED
      BY <2>2, <3>1 DEF HasNumbers
  <2>5. 0 \in 0..N
    OBVIOUS
  <2> QED
    BY <2>1, <2>3, <2>4, <2>5
<1>8. ASSUME NEW k \in 1..N, k - 1 \in A PROVE k \in A
  <2>1. PICK fs \in Seq(FrameSet) : fs = u[k - 1] /\ IsPlain(fs, s) /\ HasNumbers(fs, g, k - 1)
    BY <1>8
  <2>2. u[k] = IF k \in P THEN Append(fs, g[k]) ELSE fs
    BY <1>2, <1>5, <2>1 DEF IsPicking
  <2>3. g[k] \in FrameSet /\ k \in 1..Len(g) /\ k \in Nat /\ k > 0 /\ k - 1 \in Nat
    BY <1>2, <1>6
  <2>4. PICK n \in Nat : n = Len(fs)
    BY LenProperties
  <2>5. k > 1 => /\ n > 0 /\ fs[n].num = g[k - 1].num /\ fs[n].at <= g[k - 1].at
                 /\ g[k - 1].at <= g[k].at
    <3> SUFFICES ASSUME k > 1
                 PROVE  /\ n > 0 /\ fs[n].num = g[k - 1].num /\ fs[n].at <= g[k - 1].at
                        /\ g[k - 1].at <= g[k].at
      OBVIOUS
    <3>1. k - 1 > 0 /\ k \in 2..Len(g)
      BY <2>3
    <3> QED
      BY <1>1, <2>1, <2>4, <3>1 DEF HasNumbers, NeighboursAreNear
  <2>6. \A j \in 1..n : fs[j] \in FrameSet /\ fs[j].at \in Nat
    <3>1. \A j \in 1..n : fs[j] \in FrameSet
      BY <2>4, ElementOfSeq
    <3> QED
      BY <3>1 DEF FrameSet
  <2>7. k > 1 => fs[n].at <= g[k].at
    <3> SUFFICES ASSUME k > 1 PROVE fs[n].at <= g[k].at
      OBVIOUS
    <3>1. n \in 1..n /\ k - 1 \in 1..N /\ k \in 1..N
      BY <2>5
    <3>2. PICK x \in Nat, y \in Nat, z \in Nat : x = fs[n].at /\ y = g[k - 1].at /\ z = g[k].at
      BY <1>6, <2>6, <3>1
    <3>3. x <= y /\ y <= z
      BY <2>5, <3>2
    <3>4. x <= z
      BY <3>3
    <3> QED
      BY <3>2, <3>4, Zenon
  <2>8. CASE k \in P
    <3>1. PICK hs \in Seq(FrameSet) : hs = Append(fs, g[k])
      BY <2>3, AppendProperties
    <3>2. Len(hs) = n + 1 /\ hs[n + 1] = g[k] /\ \A j \in 1..n : hs[j] = fs[j]
      BY <2>3, <2>4, <3>1, AppendProperties
    <3>3. IsPrompt(g[k], s)
      <4>1. IsFirst(g, k)
        BY <1>3, <2>8
      <4> QED
        BY <1>1, <2>3, <4>1 DEF StampedInTime, IsPrompt
    <3>4. \A j \in 1..Len(hs) : IsPrompt(hs[j], s)
      <4>1. \A j \in 1..n : IsPrompt(hs[j], s)
        BY <2>1, <2>4, <3>2 DEF IsPlain
      <4>2. \A j \in 1..Len(hs) : j \in 1..n \/ j = n + 1
        BY <3>2
      <4> QED
        BY <3>2, <3>3, <4>1, <4>2
    <3>5. \A j \in 2..Len(hs) : hs[j - 1].at <= hs[j].at
      <4>1. ASSUME NEW j \in 2..n PROVE hs[j - 1].at <= hs[j].at
        <5>1. hs[j - 1] = fs[j - 1] /\ hs[j] = fs[j]
          BY <3>2
        <5> QED
          BY <2>1, <2>4, <5>1 DEF IsPlain
      <4>2. ASSUME n > 0 PROVE hs[n].at <= hs[n + 1].at
        <5>1. hs[n] = fs[n] /\ n \in 1..n
          BY <3>2, <4>2
        <5>2. k # 1
          <6>1. ASSUME k = 1 PROVE FALSE
            <7>1. 1 \in 1..Len(fs)
              BY <2>4, <4>2
            <7>2. \E i \in 1..k - 1 : g[i].num = fs[1].num
              BY <2>1, <7>1 DEF HasNumbers
            <7>3. 1..k - 1 = {}
              BY <6>1
            <7> QED
              BY <7>2, <7>3
          <6> QED
            BY <6>1
        <5>3. k > 1
          BY <2>3, <5>2
        <5> QED
          BY <2>7, <3>2, <5>1, <5>3
      <4>3. \A j \in 2..Len(hs) : j \in 2..n \/ (j = n + 1 /\ j - 1 = n /\ n > 0)
        BY <3>2
      <4> QED
        BY <4>1, <4>2, <4>3
    <3>6. IsPlain(hs, s)
      BY <3>4, <3>5 DEF IsPlain
    <3>7. HasNumbers(hs, g, k)
      <4>1. ASSUME NEW i \in 1..k PROVE \E j \in 1..Len(hs) : hs[j].num = g[i].num
        <5>1. CASE i = k
          <6>1. n + 1 \in 1..Len(hs)
            BY <3>2
          <6> QED
            BY <3>2, <5>1, <6>1
        <5>2. CASE i # k
          <6>1. i \in 1..k - 1
            BY <5>2
          <6>2. PICK j \in 1..n : fs[j].num = g[i].num
            BY <2>1, <2>4, <6>1 DEF HasNumbers
          <6>3. j \in 1..Len(hs) /\ hs[j] = fs[j]
            BY <3>2
          <6> QED
            BY <6>2, <6>3
        <5> QED
          BY <5>1, <5>2
      <4>2. ASSUME NEW j \in 1..Len(hs) PROVE \E i \in 1..k : g[i].num = hs[j].num
        <5>1. CASE j = n + 1
          <6>1. k \in 1..k
            BY <2>3
          <6> QED
            BY <3>2, <5>1, <6>1
        <5>2. CASE j # n + 1
          <6>1. j \in 1..n
            BY <3>2, <5>2
          <6>2. PICK i \in 1..k - 1 : g[i].num = fs[j].num
            BY <2>1, <2>4, <6>1 DEF HasNumbers
          <6>3. i \in 1..k /\ hs[j] = fs[j]
            BY <3>2, <6>1
          <6> QED
            BY <6>2, <6>3
        <5> QED
          BY <5>1, <5>2
      <4>3. Len(hs) > 0 /\ hs[Len(hs)].num = g[k].num /\ hs[Len(hs)].at <= g[k].at
        BY <1>6, <3>2
      <4> QED
        BY <4>1, <4>2, <4>3 DEF HasNumbers
    <3>8. u[k] = hs /\ k \in 0..N
      BY <2>2, <2>3, <2>8, <3>1
    <3> QED
      BY <3>6, <3>7, <3>8
  <2>9. CASE k \notin P
    <3>1. k > 1 /\ g[k].num = g[k - 1].num
      BY <1>3, <2>9 DEF IsFirst
    <3>2. HasNumbers(fs, g, k)
      <4>1. ASSUME NEW i \in 1..k PROVE \E j \in 1..Len(fs) : fs[j].num = g[i].num
        <5>1. PICK m \in 1..k - 1 : g[m].num = g[i].num
          <6>1. k - 1 \in 1..k - 1 /\ (i = k \/ i \in 1..k - 1)
            BY <3>1
          <6> QED
            BY <3>1, <6>1
        <5> QED
          BY <2>1, <5>1 DEF HasNumbers
      <4>2. ASSUME NEW j \in 1..Len(fs) PROVE \E i \in 1..k : g[i].num = fs[j].num
        <5>1. PICK i \in 1..k - 1 : g[i].num = fs[j].num
          BY <2>1 DEF HasNumbers
        <5>2. i \in 1..k
          OBVIOUS
        <5> QED
          BY <5>1, <5>2
      <4>3. Len(fs) > 0 /\ fs[Len(fs)].num = g[k].num /\ fs[Len(fs)].at <= g[k].at
        BY <2>4, <2>5, <2>7, <3>1
      <4> QED
        BY <4>1, <4>2, <4>3 DEF HasNumbers
    <3> QED
      BY <2>1, <2>2, <2>9, <3>2
  <2> QED
    BY <2>8, <2>9
<1>9. 0..N \subseteq A
  <2> HIDE DEF A
  <2> QED
    BY <1>7, <1>8, UpToInduction
<1>10. N \in A
  BY <1>9
<1> QED
  BY <1>1, <1>2, <1>5, <1>10

LEMMA SmallRemainder ==
  ASSUME NEW m \in Nat \ {0}, NEW x \in 0 .. m - 1
  PROVE  x % m = x
<1> DEFINE q == x \div m
           r == x % m
<1>1. x = m * q + r /\ q \in Int /\ r \in 0 .. m - 1
  BY DivMod
<1> HIDE DEF q, r
<1>2. PICK d \in Int : d = x - r
  BY <1>1
<1>3. d = m * q /\ -m < d /\ d < m
  BY <1>1, <1>2
<1>4. q = 0
  BY <1>1, <1>3, SmallMultiple
<1>5. r = x
  BY <1>1, <1>4
<1> QED
  BY <1>5 DEF r

\* Within the day, a timestamp is the time.
LEMMA StampIsTime ==
  ASSUME WithinTheDay, CliInv, NEW s, NEW f \in FrameSet, IsPrompt(f, s)
  PROVE  f.ts = StartTime + f.at
<1>1. /\ DAY \in Nat \ {0} /\ StartTime \in Nat
      /\ now \in Nat /\ tap.time \in Nat /\ now <= tap.time
      /\ StartTime + tap.time < DAY
  BY TapType, CliAssumption DEF CliInv, SetupType, CliAssumption, WithinTheDay
<1>2. PICK at \in Nat : at = f.at
  BY DEF FrameSet
<1>3. at <= now /\ f.ts = (StartTime + at) % DAY
  BY <1>2 DEF IsPrompt
<1>4. StartTime + at \in 0 .. DAY - 1
  BY <1>1, <1>3
<1>5. (StartTime + at) % DAY = StartTime + at
  BY <1>1, <1>4, SmallRemainder
<1> QED
  BY <1>2, <1>3, <1>5

\* So the inter-arrivals main measures are those of the frames.
LEMMA DeltasAreGaps ==
  ASSUME WithinTheDay, CliInv, NEW s \in tap.streams
  PROVE  /\ Deltas(Firsts(s)) = TrueGaps(s)
         /\ TrueGaps(s) \in Seq(Int)
         /\ Len(Firsts(s)) < 2 => TrueGaps(s) = <<>>
         /\ Len(Firsts(s)) >= 2 => Len(TrueGaps(s)) = Len(Firsts(s)) - 1
<1>1. PICK fs \in Seq(FrameSet) : fs = Firsts(s) /\ IsPlain(fs, s)
  BY FirstsArePlain DEF IsPlain
<1>2. PICK N \in Nat : N = Len(fs)
  BY LenProperties
<1>3. ASSUME NEW i \in 1..N
      PROVE  fs[i].ts = StartTime + fs[i].at /\ fs[i].at \in Nat
  <2>1. fs[i] \in FrameSet /\ IsPrompt(fs[i], s)
    BY <1>1, <1>2, ElementOfSeq DEF IsPlain
  <2> QED
    BY <2>1, StampIsTime DEF FrameSet
<1>4. StartTime \in Nat
  BY CliAssumption DEF CliAssumption
<1>5. ASSUME NEW i \in 1..N - 1
      PROVE  /\ fs[i + 1].ts - fs[i].ts = fs[i + 1].at - fs[i].at
             /\ fs[i + 1].at - fs[i].at \in Int
  <2>1. i \in 1..N /\ i + 1 \in 1..N
    OBVIOUS
  <2>2. PICK a \in Nat, b \in Nat : a = fs[i].at /\ b = fs[i + 1].at
    BY <1>3, <2>1
  <2>3. fs[i].ts = StartTime + a /\ fs[i + 1].ts = StartTime + b
    BY <1>3, <2>1, <2>2
  <2>4. (StartTime + b) - (StartTime + a) = b - a /\ b - a \in Int
    BY <1>4
  <2> QED
    BY <2>2, <2>3, <2>4
<1>6. PICK gaps : gaps = [i \in 1..N - 1 |-> fs[i + 1].at - fs[i].at]
  OBVIOUS
<1>7. TrueGaps(s) = gaps /\ Deltas(Firsts(s)) = gaps
  BY <1>1, <1>2, <1>5, <1>6 DEF TrueGaps, Deltas
<1>8. gaps \in [1..N - 1 -> Int]
  BY <1>5, <1>6
<1>9. CASE N < 2
  <2>1. 1..N - 1 = 1..0
    BY <1>9
  <2>2. gaps \in Seq(Int) /\ Len(gaps) = 0
    <3>1. gaps \in [1..0 -> Int] /\ 0 \in Nat
      BY <1>8, <2>1
    <3> QED
      BY <3>1, LenProperties
  <2>3. gaps = <<>>
    BY <2>2, EmptySeq
  <2> QED
    BY <1>1, <1>2, <1>7, <1>9, <2>2, <2>3
<1>10. CASE N >= 2
  <2>1. N - 1 \in Nat
    BY <1>10
  <2>2. gaps \in Seq(Int)
    BY <1>8, <2>1
  <2>3. Len(gaps) = N - 1
    BY <1>8, <2>1, <2>2, LenProperties
  <2> QED
    BY <1>1, <1>2, <1>7, <1>10, <2>2, <2>3
<1> QED
  BY <1>9, <1>10

\* In a capture that does not run past midnight, and in which no whole turn of
\* the counter is lost, the gap main reports of each stream is the longest time
\* between two frames of it, whatever twins lie between them.
THEOREM WorstGapCorrect == WithinATurn /\ WithinTheDay => (Spec => []WorstGapIsReported)
<1> SUFFICES ASSUME WithinATurn, WithinTheDay PROVE Spec => []WorstGapIsReported
  OBVIOUS
<1>1. ASSUME CliInv PROVE WorstGapIsReported
  <2> SUFFICES ASSUME NEW s \in DOMAIN verdicts, TrueGaps(s) # <<>>
               PROVE  verdicts[s].max_gap = Max(RangeOf(TrueGaps(s)))
    BY DEF WorstGapIsReported
  <2>1. s \in tap.streams /\ verdicts[s] = VerdictOf(Group(s))
    BY <1>1 DEF CliInv, VerdictsInv
  <2>2. verdicts[s].max_gap = MaxGapOf(Firsts(s))
    BY <1>1, <2>1, FirstsAreKept DEF VerdictOf
  <2>3. Deltas(Firsts(s)) = TrueGaps(s) /\ ~ Len(Firsts(s)) < 2
    BY <1>1, <2>1, DeltasAreGaps
  <2> QED
    BY <2>2, <2>3 DEF MaxGapOf
<1> QED
  BY <1>1, CliSafety, PTL

-------------------------------------------------------------------------------
(* The report.                                                             *)

\* The running sum of the signed deltas, step by step.
LEMMA UnwrapIsLoop ==
  ASSUME NEW seqs \in Seq(Int)
  PROVE  /\ Unwrap(seqs) \in Seq(Int) /\ Len(Unwrap(seqs)) = Len(seqs)
         /\ Len(seqs) > 0 => Unwrap(seqs)[1] = seqs[1]
         /\ \A i \in 2..Len(seqs) :
              Unwrap(seqs)[i] = Unwrap(seqs)[i - 1] + SignedDelta(seqs[i], seqs[i - 1])
<1>1. PICK N \in Nat : N = Len(seqs)
  BY LenProperties
<1>2. \A i \in 1..N : seqs[i] \in Int
  BY <1>1, ElementOfSeq
<1>3. ASSUME NEW i \in 2..N PROVE SignedDelta(seqs[i], seqs[i - 1]) \in Int
  <2>1. PICK a \in Int, b \in Int : a = seqs[i] /\ b = seqs[i - 1]
    BY <1>2
  <2>2. PICK m \in Nat \ {0} : m = SEQ_MODULUS
    BY HalfAssumption DEF SEQ_MODULUS, HalfAssumption
  <2>3. HALF \in Int
    BY HalfAssumption DEF HalfAssumption
  <2>4. (a - b) + HALF \in Int
    BY <2>3
  <2>5. ((a - b) + HALF) % m \in 0 .. m - 1
    BY <2>4, DivMod
  <2> QED
    BY <2>1, <2>2, <2>3, <2>5 DEF SignedDelta
<1> DEFINE F == [i \in 1..N |-> [x \in Int |-> IF i > 1 THEN x + SignedDelta(seqs[i], seqs[i - 1]) ELSE 0]]
           first == IF N = 0 THEN 0 ELSE seqs[1]
           Is(g) == g = [i \in 1..N |-> IF i = 1 THEN seqs[1]
                                        ELSE g[i - 1] + SignedDelta(seqs[i], seqs[i - 1])]
           ext == CHOOSE g : Is(g)
<1>4. F \in [1..N -> [Int -> Int]]
  <2>1. ASSUME NEW i \in 1..N, NEW x \in Int, i > 1 PROVE x + SignedDelta(seqs[i], seqs[i - 1]) \in Int
    BY <1>3, <2>1
  <2> QED
    BY <2>1
<1>5. first \in Int
  BY <1>2
<1>6. PICK g \in [1..N -> Int] : IsRecursion(g, 1, N, first, F)
  <2>1. PICK lo \in Int : lo = 1 /\ N \in Int
    OBVIOUS
  <2> HIDE DEF F, first
  <2>2. F \in [lo..N -> [Int -> Int]]
    BY <1>4, <2>1
  <2>3. \E g \in [lo..N -> Int] : IsRecursion(g, lo, N, first, F)
    BY <1>5, <2>1, <2>2, RecursionExists
  <2> QED
    BY <2>1, <2>3
<1>7. \A i \in 1..N : g[i] = IF i = 1 THEN first ELSE F[i][g[i - 1]]
  BY <1>6 DEF IsRecursion
<1>8. ASSUME NEW i \in 1..N
      PROVE  g[i] = IF i = 1 THEN seqs[1] ELSE g[i - 1] + SignedDelta(seqs[i], seqs[i - 1])
  <2>1. CASE i = 1
    <3>1. N # 0 /\ first = seqs[1]
      BY <2>1
    <3> QED
      BY <1>7, <2>1, <3>1
  <2>2. CASE i # 1
    <3>1. i > 1 /\ i - 1 \in 1..N
      BY <2>2
    <3>2. g[i - 1] \in Int
      BY <1>6, <3>1
    <3>3. F[i][g[i - 1]] = g[i - 1] + SignedDelta(seqs[i], seqs[i - 1])
      BY <3>1, <3>2
    <3> QED
      BY <1>7, <2>2, <3>3
  <2> QED
    BY <2>1, <2>2
<1>9. Is(g)
  BY <1>8
<1>10. Is(ext)
  <2> HIDE DEF Is
  <2> QED
    BY <1>9
<1>11. Unwrap(seqs) = ext
  BY <1>1 DEF Unwrap
<1>12. ext = [i \in 1..N |-> IF i = 1 THEN seqs[1] ELSE ext[i - 1] + SignedDelta(seqs[i], seqs[i - 1])]
  BY <1>10
<1>13. ext = g
  <2> HIDE DEF ext
  <2> DEFINE A == {i \in 1..N : ext[i] = g[i]}
  <2>1. 1 <= N => 1 \in A
    BY <1>8, <1>12
  <2>2. ASSUME NEW i \in 2..N, i - 1 \in A PROVE i \in A
    <3>1. i \in 1..N /\ i # 1
      OBVIOUS
    <3> QED
      BY <1>8, <1>12, <2>2, <3>1
  <2>3. 1..N \subseteq A
    <3>1. PICK lo \in Int : lo = 1 /\ lo + 1 = 2 /\ N \in Int
      OBVIOUS
    <3> HIDE DEF A
    <3>2. \A i \in lo + 1..N : i - 1 \in A => i \in A
      BY <2>2, <3>1
    <3>3. lo <= N => lo \in A
      BY <2>1, <3>1
    <3>4. lo..N \subseteq A
      BY <3>1, <3>2, <3>3, IntervalInduction
    <3> QED
      BY <3>1, <3>4
  <2>4. \A i \in 1..N : ext[i] = g[i]
    BY <2>3
  <2> QED
    BY <1>12, <2>4
<1>14. g \in Seq(Int) /\ Len(g) = N
  <2>1. g \in Seq(Int)
    BY <1>6
  <2> QED
    BY <1>6, <2>1, LenProperties
<1>15. \A i \in 2..N : g[i] = g[i - 1] + SignedDelta(seqs[i], seqs[i - 1])
  <2>1. \A i \in 2..N : i \in 1..N /\ i # 1
    OBVIOUS
  <2> QED
    BY <1>8, <2>1
<1>16. N > 0 => g[1] = seqs[1]
  BY <1>8
<1> QED
  BY <1>1, <1>11, <1>13, <1>14, <1>15, <1>16

LEMMA RangeType ==
  ASSUME NEW x \in Seq(Int)
  PROVE  /\ RangeOf(x) \in SUBSET Int /\ IsFiniteSet(RangeOf(x))
         /\ Cardinality(RangeOf(x)) <= Len(x)
         /\ x # <<>> => Len(x) > 0 /\ RangeOf(x) # {}
<1>1. PICK n \in Nat : n = Len(x)
  BY LenProperties
<1>2. \A i \in 1..n : x[i] \in Int
  BY <1>1, ElementOfSeq
<1>3. IsFiniteSet(1..n) /\ Cardinality(1..n) = n
  <2>1. n \in Int /\ 1 \in Int
    OBVIOUS
  <2>2. Cardinality(1..n) = IF 1 > n THEN 0 ELSE n - 1 + 1
    BY <2>1, FS_Interval
  <2> QED
    BY <2>1, <2>2, FS_Interval
<1> DEFINE f == [i \in 1..n |-> x[i]]
<1>4. f \in Surjection(1..n, RangeOf(x))
  BY <1>1 DEF Surjection, RangeOf
<1>5. IsFiniteSet(RangeOf(x)) /\ Cardinality(RangeOf(x)) <= n
  <2> HIDE DEF f
  <2> QED
    BY <1>3, <1>4, FS_Surjection
<1>6. x # <<>> => n > 0
  BY <1>1, EmptySeq
<1>7. n > 0 => x[1] \in RangeOf(x)
  BY <1>1 DEF RangeOf
<1>8. RangeOf(x) \in SUBSET Int
  BY <1>1, <1>2 DEF RangeOf
<1> QED
  BY <1>1, <1>5, <1>6, <1>7, <1>8

\* Finitely many numbers are at most as many as lie between their extremes.
LEMMA SpanCounts ==
  ASSUME NEW S \in SUBSET Int, IsFiniteSet(S), S # {}
  PROVE  /\ Max(S) \in Int /\ Min(S) \in Int /\ Cardinality(S) \in Nat
         /\ Cardinality(S) <= (Max(S) - Min(S)) + 1
         /\ Cardinality(S) = (Max(S) - Min(S)) + 1 => S = Min(S)..Max(S)
<1>1. /\ Max(S) \in S /\ \A n \in S : n <= Max(S)
      /\ Min(S) \in S /\ \A n \in S : Min(S) <= n
  BY MaxMinType
<1>2. PICK hi \in Int, lo \in Int : hi = Max(S) /\ lo = Min(S)
  BY <1>1
<1>3. S \subseteq lo..hi /\ lo <= hi
  BY <1>1, <1>2
<1>4. IsFiniteSet(lo..hi) /\ Cardinality(lo..hi) = (hi - lo) + 1
  <2>1. Cardinality(lo..hi) = IF lo > hi THEN 0 ELSE hi - lo + 1
    BY FS_Interval
  <2> QED
    BY <1>3, <2>1, FS_Interval
<1>5. /\ Cardinality(S) <= Cardinality(lo..hi)
      /\ Cardinality(lo..hi) = Cardinality(S) => lo..hi = S
  BY <1>3, <1>4, FS_Subset
<1>6. Cardinality(S) \in Nat
  BY FS_CardinalityType
<1> QED
  BY <1>2, <1>4, <1>5, <1>6

LEMMA ReportType ==
  ASSUME NEW x \in Seq(Int), x # <<>>
  PROVE  ReportOf(x) \in [lost : Nat, reordered : Nat, duplicated : Nat]
<1>1. /\ RangeOf(x) \in SUBSET Int /\ IsFiniteSet(RangeOf(x)) /\ RangeOf(x) # {}
      /\ Cardinality(RangeOf(x)) <= Len(x)
  BY RangeType
<1>2. PICK n \in Nat : n = Len(x)
  BY LenProperties
<1>3. PICK c \in Nat, hi \in Int, lo \in Int :
        c = Cardinality(RangeOf(x)) /\ hi = Max(RangeOf(x)) /\ lo = Min(RangeOf(x)) /\ c <= (hi - lo) + 1
  BY <1>1, SpanCounts
<1>4. Cardinality(Backsteps(x)) \in Nat
  <2>1. IsFiniteSet(2..n)
    <3>1. n \in Int /\ 2 \in Int
      OBVIOUS
    <3> QED
      BY <3>1, FS_Interval
  <2>2. Backsteps(x) \subseteq 2..n
    BY <1>2 DEF Backsteps
  <2> QED
    BY <2>1, <2>2, FS_Subset, FS_CardinalityType
<1>5. (hi - lo + 1) - c \in Nat /\ n - c \in Nat
  <2>1. c <= n
    BY <1>1, <1>2, <1>3
  <2>2. c <= (hi - lo) + 1
    BY <1>3
  <2> QED
    BY <2>1, <2>2
<1> QED
  BY <1>2, <1>3, <1>4, <1>5 DEF ReportOf

\* Counts that find nothing lost of numbers displaced by a constant tell that
\* nothing is missing of the numbers.
LEMMA NothingLostNothingMissing ==
  ASSUME NEW x \in Seq(Int), NEW n \in Seq(Int), NEW c \in Int, x # <<>>,
         Len(n) = Len(x), \A i \in 1..Len(x) : x[i] = n[i] - c,
         ReportOf(x).lost = 0
  PROVE  Missing(n) = {}
<1>1. PICK L \in Nat : L = Len(x) /\ L > 0
  BY RangeType, LenProperties
<1>2. \A i \in 1..L : n[i] \in Int /\ x[i] \in Int
  BY <1>1, ElementOfSeq
<1>3. /\ RangeOf(x) \in SUBSET Int /\ IsFiniteSet(RangeOf(x)) /\ RangeOf(x) # {}
  BY RangeType
<1>4. RangeOf(n) \in SUBSET Int /\ IsFiniteSet(RangeOf(n)) /\ RangeOf(n) # {}
  <2>1. n # <<>>
    BY <1>1
  <2> QED
    BY <2>1, RangeType
<1>5. RangeOf(x) = Min(RangeOf(x))..Max(RangeOf(x))
  <2>1. PICK k \in Nat, hi \in Int, lo \in Int :
          k = Cardinality(RangeOf(x)) /\ hi = Max(RangeOf(x)) /\ lo = Min(RangeOf(x))
    BY <1>3, SpanCounts
  <2>2. (hi - lo + 1) - k = 0
    BY <2>1 DEF ReportOf
  <2>3. k = (hi - lo) + 1
    BY <2>2
  <2> QED
    BY <1>3, <2>1, <2>3, SpanCounts
<1>6. /\ \A m \in RangeOf(x) : Min(RangeOf(x)) <= m /\ m <= Max(RangeOf(x))
      /\ Min(RangeOf(x)) \in Int /\ Max(RangeOf(x)) \in Int
  BY <1>3, MaxMinType
<1>7. PICK a \in 1..L, b \in 1..L : n[a] = Min(RangeOf(n)) /\ n[b] = Max(RangeOf(n))
  <2>1. Min(RangeOf(n)) \in RangeOf(n) /\ Max(RangeOf(n)) \in RangeOf(n)
    BY <1>4, MaxMinType
  <2> QED
    BY <1>1, <2>1 DEF RangeOf
<1>8. ASSUME NEW v \in Int, n[a] <= v, v <= n[b] PROVE v \in RangeOf(n)
  <2>1. x[a] \in RangeOf(x) /\ x[b] \in RangeOf(x) /\ x[a] = n[a] - c /\ x[b] = n[b] - c
    BY <1>1 DEF RangeOf
  <2>2. PICK lo \in Int, hi \in Int : lo = Min(RangeOf(x)) /\ hi = Max(RangeOf(x)) /\ lo <= x[a] /\ x[b] <= hi
    BY <1>6, <2>1
  <2>3. lo <= v - c /\ v - c <= hi
    <3>1. PICK na \in Int, nb \in Int : na = n[a] /\ nb = n[b]
      BY <1>2
    <3>2. lo <= na - c /\ nb - c <= hi
      BY <2>1, <2>2, <3>1
    <3>3. na <= v /\ v <= nb
      BY <1>8, <3>1
    <3> QED
      BY <3>2, <3>3
  <2>4. v - c \in RangeOf(x)
    BY <1>5, <2>2, <2>3
  <2>5. PICK i \in 1..L : x[i] = v - c
    BY <1>1, <2>4 DEF RangeOf
  <2>6. n[i] = v
    <3>1. x[i] = n[i] - c
      BY <1>1
    <3>2. n[i] \in Int /\ v \in Int /\ c \in Int
      BY <1>2
    <3>3. n[i] - c = v - c
      BY <2>5, <3>1
    <3>4. \A y \in Int : y - c = v - c => y = v
      BY <3>2
    <3> QED
      BY <3>2, <3>3, <3>4
  <2> QED
    BY <1>1, <2>6 DEF RangeOf
<1> QED
  BY <1>7, <1>8 DEF Missing

LEMMA SeqsType ==
  ASSUME CliInv, NEW s \in tap.streams, Group(s) # <<>>, NEW fs, fs = Deduped(Group(s))
  PROVE  /\ [i \in 1..Len(fs) |-> fs[i].seq] \in Seq(Int)
         /\ [i \in 1..Len(fs) |-> fs[i].seq] # <<>>
<1>1. PICK g \in Seq(FrameSet) : g = Group(s)
  BY DEF CliInv, GroupsInv
<1>2. PICK P : P = {i \in 1..Len(g) : i > 1 => g[i].seq # g[i - 1].seq}
  OBVIOUS
<1>3. PICK N \in Nat : N = Len(g) /\ N > 0
  BY <1>1, LenProperties, EmptySeq
<1>4. PICK u \in [0..N -> Seq(FrameSet)] : IsPicking(u, g, P) /\ fs = u[N]
  <2>1. fs = Picked(g, P)
    BY <1>1, <1>2 DEF Deduped
  <2> QED
    BY <1>3, <2>1, PickedIsLoop
<1>5. fs \in Seq(FrameSet)
  BY <1>4
\* The first frame is kept, and none is taken out again.
<1>6. Len(u[N]) > 0
  <2> DEFINE A == {k \in 1..N : Len(u[k]) > 0}
  <2>1. 1 \in A
    <3>1. 1 \in P /\ 1 \in 1..Len(g) /\ g[1] \in FrameSet
      BY <1>2, <1>3, ElementOfSeq
    <3>2. u[0] \in Seq(FrameSet) /\ u[1] = Append(u[0], g[1])
      <4>1. 0 \in 0..N /\ 1 - 1 = 0
        OBVIOUS
      <4>2. u[1] = Append(u[1 - 1], g[1])
        BY <1>4, <3>1 DEF IsPicking
      <4> QED
        BY <4>1, <4>2
    <3>3. Len(u[1]) = Len(u[0]) + 1 /\ Len(u[0]) \in Nat
      BY <3>1, <3>2, AppendProperties, LenProperties
    <3> QED
      BY <1>3, <3>3
  <2>2. ASSUME NEW k \in 2..N, k - 1 \in A PROVE k \in A
    <3>1. k \in 1..Len(g) /\ k \in 1..N /\ u[k - 1] \in Seq(FrameSet) /\ Len(u[k - 1]) > 0
      BY <1>3, <1>4, <2>2
    <3>2. u[k] = IF k \in P THEN Append(u[k - 1], g[k]) ELSE u[k - 1]
      BY <1>4, <3>1 DEF IsPicking
    <3>3. CASE k \in P
      <4>1. g[k] \in FrameSet
        BY <3>1, ElementOfSeq
      <4>2. Len(u[k]) = Len(u[k - 1]) + 1 /\ Len(u[k - 1]) \in Nat
        BY <3>1, <3>2, <3>3, <4>1, AppendProperties, LenProperties
      <4>3. Len(u[k]) > 0
        BY <4>2
      <4> QED
        BY <3>1, <4>3
    <3>4. CASE k \notin P
      BY <3>1, <3>2, <3>4
    <3> QED
      BY <3>3, <3>4
  <2>3. 1..N \subseteq A
    <3>1. PICK lo \in Int : lo = 1 /\ lo + 1 = 2 /\ N \in Int
      OBVIOUS
    <3> HIDE DEF A
    <3>2. \A i \in lo + 1..N : i - 1 \in A => i \in A
      BY <2>2, <3>1
    <3>3. lo <= N => lo \in A
      BY <2>1, <3>1
    <3>4. lo..N \subseteq A
      BY <3>1, <3>2, <3>3, IntervalInduction
    <3> QED
      BY <3>1, <3>4
  <2>4. N \in 1..N
    BY <1>3
  <2> QED
    BY <2>3, <2>4
<1>7. PICK n \in Nat : n = Len(fs) /\ n > 0
  BY <1>4, <1>5, <1>6, LenProperties
<1>8. \A i \in 1..n : fs[i].seq \in Int
  <2>1. \A i \in 1..n : fs[i] \in FrameSet
    BY <1>5, <1>7, ElementOfSeq
  <2> QED
    BY <2>1 DEF FrameSet
<1>9. PICK seqs : seqs = [i \in 1..n |-> fs[i].seq]
  OBVIOUS
<1>10. seqs \in Seq(Int) /\ Len(seqs) = n
  <2>1. seqs \in [1..n -> Int]
    BY <1>8, <1>9
  <2>2. seqs \in Seq(Int)
    BY <2>1
  <2> QED
    BY <2>1, <2>2, LenProperties
<1>11. seqs = [i \in 1..Len(fs) |-> fs[i].seq]
  BY <1>7, <1>9
<1>12. seqs # <<>>
  BY <1>7, <1>10
<1> QED
  BY <1>10, <1>11, <1>12, Zenon

\* Every verdict's counts are natural numbers, whatever the path did: the span
\* of the unwrapped counters never falls short of their number.
THEOREM TypeCorrect == Spec => []TypeOK
<1>1. ASSUME CliInv PROVE TypeOK
  <2>1. ASSUME NEW s \in DOMAIN verdicts
        PROVE  /\ verdicts[s].report \in [lost : Nat, reordered : Nat, duplicated : Nat]
               /\ verdicts[s].line \in {"clean", "burst", "none"}
    <3>1. s \in tap.streams /\ Group(s) # <<>> /\ verdicts[s] = VerdictOf(Group(s))
      BY <1>1 DEF CliInv, VerdictsInv
    <3>2. PICK fs : fs = Deduped(Group(s))
      OBVIOUS
    <3>3. PICK seqs : seqs = [i \in 1..Len(fs) |-> fs[i].seq]
      OBVIOUS
    <3>4. seqs \in Seq(Int) /\ seqs # <<>>
      BY <1>1, <3>1, <3>2, <3>3, SeqsType
    <3>5. Unwrap(seqs) \in Seq(Int) /\ Unwrap(seqs) # <<>>
      <4>1. Unwrap(seqs) \in Seq(Int) /\ Len(Unwrap(seqs)) = Len(seqs)
        BY <3>4, UnwrapIsLoop
      <4>2. Len(seqs) > 0
        BY <3>4, RangeType
      <4> QED
        BY <4>1, <4>2
    <3>6. AnalyzeStream(seqs) \in [lost : Nat, reordered : Nat, duplicated : Nat]
      BY <3>4, <3>5, ReportType DEF AnalyzeStream
    <3>7. verdicts[s].report = AnalyzeStream(seqs)
      BY <3>1, <3>2, <3>3 DEF VerdictOf
    <3>8. verdicts[s].line \in {"clean", "burst", "none"}
      BY <3>1 DEF VerdictOf, Line
    <3> QED
      BY <3>6, <3>7, <3>8
  <2>2. unresolved \in 0..Cardinality(Streams)
    <3> DEFINE U == {s \in DOMAIN verdicts : verdicts[s].nominal = NONE}
    <3>1. U \subseteq Streams /\ IsFiniteSet(Streams)
      BY <1>1, TapType, CliAssumption DEF CliInv, VerdictsInv, CliAssumption
    <3>2. unresolved = Cardinality(U)
      BY <1>1 DEF CliInv, VerdictsInv
    <3> HIDE DEF U
    <3>3. IsFiniteSet(U) /\ Cardinality(U) <= Cardinality(Streams)
      BY <3>1, FS_Subset
    <3> QED
      BY <3>1, <3>2, <3>3, FS_CardinalityType
  <2> QED
    BY <1>1, <2>1, <2>2 DEF CliInv, SetupType, LogType, VerdictsInv, TypeOK
<1> QED
  BY <1>1, CliSafety, PTL

-------------------------------------------------------------------------------
(* The rate.                                                               *)

\* There is a k-th smallest of k values and more.
LEMMA RankedType ==
  ASSUME NEW d \in Seq(Int), NEW k \in 1..Len(d)
  PROVE  /\ Ranked(d, k) \in RangeOf(d) /\ Ranked(d, k) \in Int
         /\ Cardinality({i \in 1..Len(d) : d[i] < Ranked(d, k)}) < k
         /\ Cardinality({i \in 1..Len(d) : d[i] <= Ranked(d, k)}) >= k
<1>1. PICK n \in Nat : n = Len(d)
  BY LenProperties
<1>2. \A i \in 1..n : d[i] \in Int /\ d[i] \in RangeOf(d)
  BY <1>1, ElementOfSeq DEF RangeOf
<1>3. IsFiniteSet(1..n) /\ Cardinality(1..n) = n
  <2>1. n \in Int /\ 1 \in Int
    OBVIOUS
  <2>2. Cardinality(1..n) = IF 1 > n THEN 0 ELSE n - 1 + 1
    BY <2>1, FS_Interval
  <2> QED
    BY <2>1, <2>2, FS_Interval
<1> DEFINE Below(x) == {i \in 1..n : d[i] < x}
           UpTo(x) == {i \in 1..n : d[i] <= x}
           S == {x \in RangeOf(d) : Cardinality(UpTo(x)) >= k}
<1>4. ASSUME NEW x
      PROVE  /\ IsFiniteSet(Below(x)) /\ Cardinality(Below(x)) \in Nat
             /\ IsFiniteSet(UpTo(x)) /\ Cardinality(UpTo(x)) \in Nat
  <2>1. Below(x) \in SUBSET (1..n) /\ UpTo(x) \in SUBSET (1..n)
    OBVIOUS
  <2> HIDE DEF Below, UpTo
  <2> QED
    BY <1>3, <2>1, FS_Subset, FS_CardinalityType
<1>5. RangeOf(d) \in SUBSET Int /\ IsFiniteSet(RangeOf(d)) /\ RangeOf(d) # {}
  <2>1. n >= 1
    BY <1>1
  <2>2. d # <<>>
    BY <1>1, <2>1
  <2> QED
    BY <2>2, RangeType
<1>6. S \in SUBSET Int /\ IsFiniteSet(S) /\ S # {}
  <2>1. S \in SUBSET RangeOf(d)
    OBVIOUS
  <2>2. Max(RangeOf(d)) \in RangeOf(d) /\ \A m \in RangeOf(d) : m <= Max(RangeOf(d))
    BY <1>5, MaxMinType
  <2>3. UpTo(Max(RangeOf(d))) = 1..n
    BY <1>2, <2>2
  <2>4. k <= n
    BY <1>1
  <2>5. Max(RangeOf(d)) \in S
    BY <1>3, <2>2, <2>3, <2>4
  <2> HIDE DEF S
  <2> QED
    BY <1>5, <2>1, <2>5, FS_Subset
<1>7. PICK x \in S : \A y \in S : x <= y
  <2> HIDE DEF S
  <2>1. Min(S) \in S /\ \A y \in S : Min(S) <= y
    BY <1>6, MaxMinType
  <2> QED
    BY <2>1
<1>8. x \in Int /\ x \in RangeOf(d) /\ Cardinality(UpTo(x)) >= k
  BY <1>5, <1>7
<1>9. Cardinality(Below(x)) < k
  <2> SUFFICES ASSUME Cardinality(Below(x)) >= k PROVE FALSE
    <3> HIDE DEF Below
    <3>1. Cardinality(Below(x)) \in Nat
      BY <1>4
    <3>2. k \in Int
      BY <1>1
    <3> QED
      BY <3>1, <3>2
  <2> DEFINE V == {m \in RangeOf(d) : m < x}
  <2>1. V \in SUBSET RangeOf(d)
    OBVIOUS
  <2>2. V # {}
    <3>1. Below(x) # {}
      <4>1. Cardinality({}) = 0
        BY FS_EmptySet
      <4>2. ~ 0 >= k
        BY <1>1
      <4> HIDE DEF Below
      <4> QED
        BY <4>1, <4>2
    <3>2. PICK i \in 1..n : d[i] < x
      BY <3>1
    <3> QED
      BY <1>2, <3>2
  <2>3. V \in SUBSET Int /\ IsFiniteSet(V)
    <3> HIDE DEF V
    <3> QED
      BY <1>5, <2>1, FS_Subset
  <2>4. PICK y \in V : \A m \in V : m <= y
    <3> HIDE DEF V
    <3>1. Max(V) \in V /\ \A m \in V : m <= Max(V)
      BY <2>2, <2>3, MaxMinType
    <3> QED
      BY <3>1
  <2>5. Below(x) \in SUBSET UpTo(y)
    BY <1>2, <2>4
  <2>6. Cardinality(Below(x)) <= Cardinality(UpTo(y))
    <3> HIDE DEF Below, UpTo
    <3> QED
      BY <1>4, <2>5, FS_Subset
  <2>7. Cardinality(UpTo(y)) >= k
    <3>1. Cardinality(Below(x)) \in Nat /\ Cardinality(UpTo(y)) \in Nat
      BY <1>4
    <3> HIDE DEF Below, UpTo
    <3> QED
      BY <2>6, <3>1
  <2>8. y \in S
    BY <2>4, <2>7
  <2>9. y \in Int /\ y < x
    BY <2>3, <2>4
  <2>10. x <= y
    BY <1>7, <2>8
  <2> QED
    BY <1>8, <2>9, <2>10
<1> DEFINE Is(z) == z \in RangeOf(d) /\ Cardinality(Below(z)) < k /\ Cardinality(UpTo(z)) >= k
<1>10. Is(x)
  BY <1>8, <1>9
<1>11. Ranked(d, k) = CHOOSE z \in RangeOf(d) : Cardinality(Below(z)) < k /\ Cardinality(UpTo(z)) >= k
  BY <1>1 DEF Ranked
<1>12. Is(Ranked(d, k))
  <2> HIDE DEF Below, UpTo
  <2> QED
    BY <1>10, <1>11
<1> QED
  BY <1>1, <1>5, <1>12

\* What more than half of the values are, the middle ones are.
LEMMA MajorityIsMiddle ==
  ASSUME NEW d \in Seq(Int), NEW p \in Int, NEW k \in 1..Len(d),
         Len(d) <= 2 * k, k <= Cardinality({i \in 1..Len(d) : d[i] = p}),
         2 * Cardinality({i \in 1..Len(d) : d[i] = p}) > Len(d)
  PROVE  Ranked(d, k) = p
<1>1. PICK n \in Nat : n = Len(d)
  BY LenProperties
<1>2. PICK x \in Int : /\ x = Ranked(d, k)
                       /\ Cardinality({i \in 1..n : d[i] < x}) < k
                       /\ Cardinality({i \in 1..n : d[i] <= x}) >= k
  BY <1>1, RankedType
<1>3. \A i \in 1..n : d[i] \in Int
  BY <1>1, ElementOfSeq
<1> DEFINE I == {i \in 1..n : d[i] = p}
           Below == {i \in 1..n : d[i] < x}
           UpTo == {i \in 1..n : d[i] <= x}
<1>4. IsFiniteSet(1..n) /\ Cardinality(1..n) = n
  <2>1. n \in Int /\ 1 \in Int
    OBVIOUS
  <2>2. Cardinality(1..n) = IF 1 > n THEN 0 ELSE n - 1 + 1
    BY <2>1, FS_Interval
  <2> QED
    BY <2>1, <2>2, FS_Interval
<1>5. I \in SUBSET (1..n) /\ Below \in SUBSET (1..n) /\ UpTo \in SUBSET (1..n)
  OBVIOUS
<1>6. Cardinality(Below) < k /\ Cardinality(UpTo) >= k
  BY <1>2
<1>7. k <= Cardinality(I) /\ 2 * Cardinality(I) > n /\ n <= 2 * k
  BY <1>1
<1>8. x > p => I \in SUBSET Below
  BY <1>2, <1>3
<1>9. x < p => I \cap UpTo = {}
  BY <1>2, <1>3
<1> HIDE DEF I, Below, UpTo
<1>10. /\ IsFiniteSet(I) /\ IsFiniteSet(Below) /\ IsFiniteSet(UpTo)
       /\ Cardinality(I) \in Nat /\ Cardinality(Below) \in Nat /\ Cardinality(UpTo) \in Nat
  BY <1>4, <1>5, FS_Subset, FS_CardinalityType
<1>11. ~ x > p
  <2> SUFFICES ASSUME x > p PROVE FALSE
    OBVIOUS
  <2>1. Cardinality(I) <= Cardinality(Below)
    BY <1>8, <1>10, FS_Subset
  <2> QED
    BY <1>6, <1>7, <1>10, <2>1
<1>12. ~ x < p
  <2> SUFFICES ASSUME x < p PROVE FALSE
    OBVIOUS
  <2>1. Cardinality(I \cup UpTo) = Cardinality(I) + Cardinality(UpTo) - 0
    BY <1>9, <1>10, FS_Union, FS_EmptySet
  <2>2. Cardinality(I \cup UpTo) <= n
    <3>1. I \cup UpTo \in SUBSET (1..n)
      BY <1>5
    <3> QED
      BY <1>4, <3>1, FS_Subset
  <2> QED
    BY <1>6, <1>7, <1>10, <2>1, <2>2
<1> QED
  BY <1>2, <1>11, <1>12

\* The places of the one or two values in the middle.
LEMMA Middle ==
  ASSUME NEW n \in Nat \ {0}
  PROVE  /\ (n + 1) \div 2 \in 1..n /\ n <= 2 * ((n + 1) \div 2)
         /\ n \div 2 + 1 \in 1..n /\ n <= 2 * (n \div 2 + 1)
         /\ \A c \in Nat : 2 * c > n => (n + 1) \div 2 <= c /\ n \div 2 + 1 <= c
<1>1. PICK a \in Int, b \in Int, x \in Int, y \in Int :
        /\ a = (n + 1) \div 2 /\ n + 1 = 2 * a + x /\ x \in 0..1
        /\ b = n \div 2 /\ n = 2 * b + y /\ y \in 0..1
  <2>1. PICK m \in Nat \ {0} : m = 2 /\ m - 1 = 1
    OBVIOUS
  <2>2. n + 1 \in Int /\ n \in Int
    OBVIOUS
  <2>3. n + 1 = m * ((n + 1) \div m) + ((n + 1) % m) /\ (n + 1) \div m \in Int /\ (n + 1) % m \in 0 .. m - 1
    BY <2>2, DivMod
  <2>4. n = m * (n \div m) + (n % m) /\ n \div m \in Int /\ n % m \in 0 .. m - 1
    BY <2>2, DivMod
  <2>5. 0..1 \subseteq Int
    OBVIOUS
  <2> QED
    BY <2>1, <2>3, <2>4, <2>5
<1>2. a \in 1..n /\ n <= 2 * a /\ b + 1 \in 1..n /\ n <= 2 * (b + 1)
  BY <1>1
<1>3. ASSUME NEW c \in Nat, 2 * c > n PROVE a <= c /\ b + 1 <= c
  BY <1>1, <1>3
<1> QED
  BY <1>1, <1>2, <1>3

\* The median is a number, of the majority's value if there is a majority.
LEMMA TwiceModalType ==
  ASSUME NEW fs, NEW d \in Seq(Int), Deltas(fs) = d
  PROVE  /\ TwiceModal(fs) \in Nat
         /\ \A p \in Nat : 2 * Cardinality({i \in 1..Len(d) : d[i] = p}) > Len(d) => TwiceModal(fs) = 2 * p
<1>1. CASE d = <<>>
  <2>1. TwiceModal(fs) = 0
    BY <1>1 DEF TwiceModal
  <2>2. ASSUME NEW p PROVE ~ 2 * Cardinality({i \in 1..Len(d) : d[i] = p}) > Len(d)
    <3>1. Len(d) = 0
      BY <1>1
    <3>2. {i \in 1..Len(d) : d[i] = p} = {}
      BY <3>1
    <3>3. Cardinality({}) = 0 /\ ~ 2 * 0 > 0
      BY FS_EmptySet
    <3> QED
      BY <3>1, <3>2, <3>3
  <2>3. TwiceModal(fs) \in Nat
    BY <2>1
  <2> QED
    BY <2>2, <2>3, Zenon
<1>2. CASE d # <<>>
  <2>1. PICK n \in Nat \ {0} : n = Len(d)
    BY <1>2, LenProperties, EmptySeq
  <2>2. PICK j \in 1..n, k \in 1..n : j = (n + 1) \div 2 /\ k = n \div 2 + 1
    BY Middle
  <2>3. PICK x \in Int, y \in Int : x = Ranked(d, j) /\ y = Ranked(d, k)
    BY <2>1, <2>2, RankedType
  <2>4. TwiceModal(fs) = Max({0, x + y})
    BY <1>2, <2>1, <2>2, <2>3 DEF TwiceModal
  <2>5. /\ Max({0, x + y}) \in {0, x + y} /\ \A m \in {0, x + y} : m <= Max({0, x + y})
    <3>1. {0, x + y} \in SUBSET Int /\ {0, x + y} # {}
      OBVIOUS
    <3>2. IsFiniteSet({0, x + y})
      <4>1. PICK v : v = x + y
        OBVIOUS
      <4>2. IsFiniteSet({0} \cup {v})
        BY FS_Singleton, FS_AddElement
      <4>3. {0, v} = {0} \cup {v}
        OBVIOUS
      <4> QED
        BY <4>1, <4>2, <4>3
    <3>3. PICK T : T = {0, x + y}
      OBVIOUS
    <3> QED
      BY <3>1, <3>2, <3>3, MaxMinType
  <2>6. PICK z \in Int : z = TwiceModal(fs) /\ z >= 0 /\ z >= x + y /\ z \in {0, x + y}
    <3>1. TwiceModal(fs) \in {0, x + y}
      BY <2>4, <2>5
    <3>2. TwiceModal(fs) \in Int
      BY <3>1
    <3>3. 0 <= TwiceModal(fs) /\ x + y <= TwiceModal(fs)
      BY <2>4, <2>5
    <3> QED
      BY <3>1, <3>2, <3>3
  <2>7. ASSUME NEW p \in Nat, 2 * Cardinality({i \in 1..Len(d) : d[i] = p}) > Len(d)
        PROVE  TwiceModal(fs) = 2 * p
    <3>1. PICK c \in Nat : c = Cardinality({i \in 1..Len(d) : d[i] = p})
      <4>1. {i \in 1..Len(d) : d[i] = p} \in SUBSET (1..n)
        BY <2>1
      <4>2. IsFiniteSet(1..n)
        <5>1. n \in Int /\ 1 \in Int
          OBVIOUS
        <5> QED
          BY <5>1, FS_Interval
      <4> QED
        BY <4>1, <4>2, FS_Subset, FS_CardinalityType
    <3>2. j <= c /\ k <= c /\ n <= 2 * j /\ n <= 2 * k
      <4>1. 2 * c > n
        BY <2>1, <2>7, <3>1
      <4> QED
        BY <2>2, <4>1, Middle
    <3>3. x = p /\ y = p
      <4>1. \A r \in {j, k} : /\ r \in 1..Len(d) /\ Len(d) <= 2 * r
                              /\ r <= Cardinality({i \in 1..Len(d) : d[i] = p})
        BY <2>1, <2>2, <3>1, <3>2
      <4>2. p \in Int
        OBVIOUS
      <4>3. \A r \in {j, k} : Ranked(d, r) = p
        BY <2>7, <4>1, <4>2, MajorityIsMiddle
      <4> QED
        BY <2>3, <4>3
    <3>4. z = 2 * p
      BY <2>6, <3>3
    <3> QED
      BY <2>6, <3>4
  <2>8. TwiceModal(fs) \in Nat
    BY <2>6
  <2> QED
    BY <2>7, <2>8, Zenon
<1> QED
  BY <1>1, <1>2

LEMMA DistanceType ==
  ASSUME NEW a \in Int, NEW b \in Int
  PROVE  /\ Distance(a, b) \in Nat
         /\ Distance(a, b) = 0 => a = b
         /\ Distance(2 * a, 2 * b) = 2 * Distance(b, a)
         /\ Distance(a, a) = 0
BY DEF Distance

\* What remains of an order of products.
LEMMA ProductOrder ==
  ASSUME NEW a \in Nat, NEW b \in Nat, NEW m \in Nat, a <= b
  PROVE  a * m <= b * m
<1>1. PICK d \in Nat : d = b - a
  OBVIOUS
<1>2. b * m - a * m = d * m
  BY <1>1, Distributes
<1>3. d * m \in Nat /\ a * m \in Int /\ b * m \in Int
  OBVIOUS
<1> QED
  BY <1>2, <1>3

LEMMA Rearranged ==
  ASSUME NEW a \in Nat, NEW b \in Nat, NEW c \in Nat, NEW p \in Nat, NEW q \in Nat, NEW x \in Nat,
         (a * p) * q <= (b * x) * q, (b * q) * x <= (c * p) * x
  PROVE  (a * q) * p <= (c * x) * p
<1>1. (a * p) * q = (a * q) * p /\ (b * x) * q = (b * q) * x /\ (c * p) * x = (c * x) * p
  BY Z3
<1>2. (a * p) * q \in Int /\ (b * x) * q \in Int /\ (c * p) * x \in Int
  OBVIOUS
<1> QED
  BY <1>1, <1>2

LEMMA LessByFactorOrEqual ==
  ASSUME NEW a \in Nat, NEW b \in Nat, NEW m \in Nat \ {0}, a * m <= b * m
  PROVE  a <= b
<1> SUFFICES ASSUME b < a PROVE FALSE
  OBVIOUS
<1>1. PICK d \in Nat \ {0} : d = a - b
  OBVIOUS
<1>2. a * m - b * m = d * m
  BY <1>1, Distributes
<1>3. d * m > 0 /\ d * m \in Nat /\ a * m \in Int /\ b * m \in Int
  OBVIOUS
<1> QED
  BY <1>2, <1>3

\* A ratio that is least exists.
LEMMA NearestExists ==
  ASSUME NEW R \in SUBSET (Nat \ {0}), IsFiniteSet(R), R # {}, NEW D \in [R -> Nat]
  PROVE  \E p \in R : \A q \in R : D[p] * q <= D[q] * p
<1> DEFINE Least(T) == \E p \in T : \A q \in T : D[p] * q <= D[q] * p
           A == {T \in SUBSET R : T # {} => Least(T)}
<1>1. {} \in A
  OBVIOUS
<1>2. ASSUME NEW T \in SUBSET R, T # {}, \A x \in T : T \ {x} \in A
      PROVE  T \in A
  <2>0. \A x \in T : x \in Nat \ {0} /\ D[x] \in Nat
    OBVIOUS
  <2>1. PICK x \in T : x \in Nat \ {0} /\ D[x] \in Nat
    BY <1>2, <2>0
  <2>2. CASE T \ {x} = {}
    <3>1. \A q \in T : q = x /\ D[x] * x <= D[x] * x
      BY <2>1, <2>2
    <3>2. Least(T)
      BY <3>1
    <3> QED
      BY <3>2
  <2>3. CASE T \ {x} # {}
    <3>1. Least(T \ {x})
      BY <1>2, <2>3
    <3>2. PICK p \in T \ {x} : \A q \in T \ {x} : D[p] * q <= D[q] * p
      BY <3>1
    <3>3. p \in Nat \ {0} /\ D[p] \in Nat
      BY <3>2
    <3>4. D[p] * p <= D[p] * p /\ D[x] * x <= D[x] * x /\ D[p] * x \in Nat /\ D[x] * p \in Nat
      BY <2>1, <3>3
    <3>5. CASE D[p] * x <= D[x] * p
      <4>1. \A q \in T : D[p] * q <= D[q] * p
        BY <3>2, <3>5
      <4>2. Least(T)
        BY <4>1
      <4> QED
        BY <4>2
    <3>6. CASE ~ D[p] * x <= D[x] * p
      <4>1. ASSUME NEW q \in T \ {x} PROVE D[x] * q <= D[q] * x
        <5>1. PICK a \in Nat, b \in Nat, c \in Nat : a = D[x] /\ b = D[p] /\ c = D[q]
          BY <2>1, <3>3
        <5>2. q \in Nat \ {0}
          OBVIOUS
        <5>3. b * q <= c * p /\ a * p <= b * x
          <6>1. b * x \in Nat /\ a * p \in Nat
            BY <3>4, <5>1
          <6>2. ~ b * x <= a * p
            BY <3>6, <5>1
          <6> QED
            BY <3>2, <5>1, <6>1, <6>2
        <5>4. (a * p) * q <= (b * x) * q /\ (b * q) * x <= (c * p) * x
          BY <2>1, <3>3, <5>2, <5>3, ProductOrder
        <5>5. (a * q) * p <= (c * x) * p
          BY <2>1, <3>3, <5>2, <5>4, Rearranged
        <5>6. a * q <= c * x
          BY <2>1, <3>3, <5>2, <5>5, LessByFactorOrEqual
        <5> QED
          BY <5>1, <5>6
      <4>2. \A q \in T : D[x] * q <= D[q] * x
        BY <3>4, <4>1
      <4>3. Least(T)
        BY <4>2
      <4> QED
        BY <4>3
    <3> QED
      BY <3>5, <3>6
  <2> QED
    BY <2>2, <2>3
<1>3. SUBSET R \subseteq A
  <2> HIDE DEF A
  <2> QED
    BY <1>1, <1>2, SubsetInduction
<1> QED
  BY <1>3

\* The rate nearest a measured one is one of REAC's, and none is nearer.
LEMMA RateType ==
  ASSUME SetupType, NEW m \in Nat, RateOf(m) # NONE
  PROVE  /\ RateOf(m) \in tap.rates /\ m > 0 /\ WithinTolerance(m, RateOf(m))
<1> DEFINE Nearest(p) == \A q \in tap.rates : Distance(2 * p, m) * q <= Distance(2 * q, m) * p
<1>1. \E p \in tap.rates : Nearest(p)
  <2>1. PICK R \in SUBSET (Nat \ {0}) : R = tap.rates /\ IsFiniteSet(R) /\ R # {}
    BY TapType
  <2>2. PICK D : D = [q \in R |-> Distance(2 * q, m)]
    OBVIOUS
  <2>3. ASSUME NEW q \in R PROVE Distance(2 * q, m) \in Nat
    <3>1. 2 * q \in Int /\ m \in Int
      BY <2>1
    <3> QED
      BY <3>1, DistanceType
  <2>4. D \in [R -> Nat]
    BY <2>2, <2>3
  <2>5. \E p \in R : \A q \in R : D[p] * q <= D[q] * p
    BY <2>1, <2>4, NearestExists
  <2> QED
    BY <2>1, <2>2, <2>5
<1>2. PICK near : near = CHOOSE p \in tap.rates : Nearest(p)
  OBVIOUS
<1>3. near \in tap.rates
  <2> HIDE DEF Nearest
  <2> QED
    BY <1>1, <1>2
<1>4. RateOf(m) = IF m > 0 /\ WithinTolerance(m, near) THEN near ELSE NONE
  BY <1>2 DEF RateOf
<1> QED
  BY <1>3, <1>4

\* A stream measured at a rate of REAC's is taken for that one.
LEMMA RateOfARate ==
  ASSUME SetupType, NEW p \in tap.rates
  PROVE  RateOf(2 * p) = p
<1> DEFINE Nearest(r) == \A q \in tap.rates : Distance(2 * r, 2 * p) * q <= Distance(2 * q, 2 * p) * r
<1>1. \A q \in tap.rates : q \in Nat \ {0} /\ q \in Int
  BY TapType
<1>2. ASSUME NEW q \in tap.rates
      PROVE  /\ Distance(2 * q, 2 * p) \in Nat
             /\ Distance(2 * q, 2 * p) = 2 * Distance(p, q)
             /\ Distance(p, q) \in Nat
             /\ Distance(p, q) = 0 => p = q
  <2>1. q \in Int /\ p \in Int
    BY <1>1
  <2>2. 2 * q \in Int /\ 2 * p \in Int
    BY <2>1
  <2>3. Distance(2 * q, 2 * p) \in Nat
    BY <2>2, DistanceType
  <2>4. Distance(2 * q, 2 * p) = 2 * Distance(p, q)
    BY <2>1, DistanceType
  <2>5. Distance(p, q) \in Nat /\ (Distance(p, q) = 0 => p = q)
    BY <2>1, DistanceType
  <2> QED
    BY <2>3, <2>4, <2>5
<1>3. Distance(2 * p, 2 * p) = 0
  <2>1. Distance(p, p) = 0
    BY <1>1, DistanceType
  <2> QED
    BY <1>2, <2>1
<1>4. Nearest(p)
  <2> SUFFICES ASSUME NEW q \in tap.rates
               PROVE  Distance(2 * p, 2 * p) * q <= Distance(2 * q, 2 * p) * p
    OBVIOUS
  <2>1. PICK d \in Nat : d = Distance(2 * q, 2 * p)
    BY <1>2
  <2>2. 0 * q <= d * p
    BY <1>1
  <2> QED
    BY <1>3, <2>1, <2>2
<1>5. ASSUME NEW r \in tap.rates, Nearest(r) PROVE r = p
  <2>1. Distance(2 * r, 2 * p) * p <= Distance(2 * p, 2 * p) * r
    BY <1>5
  <2>2. PICK d \in Nat : d = Distance(p, r) /\ Distance(2 * r, 2 * p) = 2 * d /\ (d = 0 => p = r)
    BY <1>2
  <2>3. (2 * d) * p <= 0 * r
    BY <1>3, <2>1, <2>2
  <2>4. PICK e \in Nat : e = 2 * d
    OBVIOUS
  <2>5. e * p <= 0 * p
    <3>1. 0 * r = 0 /\ 0 * p = 0
      BY <1>1
    <3> QED
      BY <2>3, <2>4, <3>1
  <2>6. e <= 0
    BY <1>1, <2>5, LessByFactorOrEqual
  <2> QED
    BY <2>2, <2>4, <2>6
<1>6. PICK near : near = CHOOSE r \in tap.rates : Nearest(r)
  OBVIOUS
<1>7. near \in tap.rates /\ Nearest(near)
  <2> HIDE DEF Nearest
  <2> QED
    BY <1>4, <1>6
<1>8. near = p
  <2> HIDE DEF Nearest
  <2> QED
    BY <1>5, <1>7
<1>9. 2 * p > 0 /\ 10 * 0 <= 2 * p
  BY <1>1
<1>10. WithinTolerance(2 * p, p)
  BY <1>3, <1>9 DEF WithinTolerance
<1>11. RateOf(2 * p) = IF 2 * p > 0 /\ WithinTolerance(2 * p, near) THEN near ELSE NONE
  BY <1>6 DEF RateOf
<1> QED
  BY <1>8, <1>9, <1>10, <1>11

\* The tolerance of a measured rate is that of the source's own.
LEMMA ToleranceIsNear ==
  ASSUME NEW p \in Nat \ {0}, NEW q \in Nat \ {0}
  PROVE  WithinTolerance(2 * p, q) <=> 10 * Distance(p, q) <= p
<1>1. PICK d \in Nat : d = Distance(p, q) /\ Distance(2 * q, 2 * p) = 2 * d
  <2>1. p \in Int /\ q \in Int
    OBVIOUS
  <2> QED
    BY <2>1, DistanceType
<1>2. 10 * (2 * d) <= 2 * p <=> 10 * d <= p
  OBVIOUS
<1> QED
  BY <1>1, <1>2 DEF WithinTolerance

\* In a capture that does not run past midnight, and in which no whole turn of
\* the counter is lost, a stream most of whose inter-arrivals keep its period is
\* taken for its own rate or one within the tolerance of it, and a forced rate
\* is warned about exactly if it is further off than that.
THEOREM RateCorrect == WithinATurn /\ WithinTheDay => (Spec => []RateIsTheSources)
<1> SUFFICES ASSUME WithinATurn, WithinTheDay PROVE Spec => []RateIsTheSources
  OBVIOUS
<1>1. ASSUME CliInv PROVE RateIsTheSources
  <2> SUFFICES ASSUME NEW s \in DOMAIN verdicts,
                      2 * Cardinality({i \in 1..Len(TrueGaps(s)) : TrueGaps(s)[i] = period[s]}) > Len(TrueGaps(s))
               PROVE  IF forced # NONE
                        THEN verdicts[s].warned <=> ~Near(s, forced)
                        ELSE /\ verdicts[s].nominal # NONE => Near(s, verdicts[s].nominal)
                             /\ period[s] \in tap.rates => verdicts[s].nominal = period[s]
    BY DEF RateIsTheSources
  <2>1. s \in tap.streams /\ verdicts[s] = VerdictOf(Group(s)) /\ SetupType
    BY <1>1 DEF CliInv, VerdictsInv
  <2>2. PICK fs : fs = Firsts(s) /\ fs = Deduped(Group(s))
    BY <1>1, <2>1, FirstsAreKept
  <2>3. PICK d \in Seq(Int) : d = Deltas(fs) /\ d = TrueGaps(s)
    BY <1>1, <2>1, <2>2, DeltasAreGaps
  <2>4. PICK p \in Nat \ {0} : p = period[s]
    BY <2>1, TapType
  <2>5. TwiceModal(fs) = 2 * p
    <3>1. 2 * Cardinality({i \in 1..Len(d) : d[i] = p}) > Len(d)
      BY <2>3, <2>4
    <3>2. p \in Nat
      OBVIOUS
    <3> QED
      BY <2>3, <3>1, <3>2, TwiceModalType
  <2>6. /\ verdicts[s].nominal = (IF forced # NONE THEN forced ELSE RateOf(2 * p))
        /\ verdicts[s].warned = (forced # NONE /\ 2 * p > 0 /\ ~WithinTolerance(2 * p, verdicts[s].nominal))
    BY <2>1, <2>2, <2>5 DEF VerdictOf, resolve_nominal
  <2>7. 2 * p > 0 /\ 2 * p \in Nat
    OBVIOUS
  <2>8. CASE forced # NONE
    <3>1. PICK q \in Nat \ {0} : q = forced
      BY <2>1, <2>8, TapType
    <3>2. verdicts[s].warned <=> ~WithinTolerance(2 * p, q)
      BY <2>6, <2>7, <2>8, <3>1
    <3>3. WithinTolerance(2 * p, q) <=> Near(s, forced)
      BY <2>4, <3>1, ToleranceIsNear DEF Near
    <3> QED
      BY <2>8, <3>2, <3>3
  <2>9. CASE forced = NONE
    <3>1. verdicts[s].nominal = RateOf(2 * p)
      BY <2>6, <2>9
    <3>2. ASSUME verdicts[s].nominal # NONE PROVE Near(s, verdicts[s].nominal)
      <4>1. RateOf(2 * p) \in tap.rates /\ WithinTolerance(2 * p, RateOf(2 * p))
        BY <2>1, <2>7, <3>1, <3>2, RateType
      <4>2. PICK q \in Nat \ {0} : q = RateOf(2 * p)
        BY <2>1, <4>1, TapType
      <4>3. 10 * Distance(p, q) <= p
        BY <4>1, <4>2, ToleranceIsNear
      <4> QED
        BY <2>4, <3>1, <4>2, <4>3 DEF Near
    <3>3. ASSUME period[s] \in tap.rates PROVE verdicts[s].nominal = period[s]
      BY <2>1, <2>4, <3>1, <3>3, RateOfARate
    <3> QED
      BY <2>9, <3>2, <3>3
  <2> QED
    BY <2>8, <2>9
<1> QED
  BY <1>1, CliSafety, PTL

-------------------------------------------------------------------------------
(* What a stream called clean has lost.                                    *)

\* Where no inter-arrival is as long as three intervals of a rate, neighbours
\* are less than half a turn of the counter apart.
LEMMA StepWithinHalf ==
  ASSUME CliInv, HalfTurnIsLong, NEW s \in tap.streams,
         NEW q \in tap.rates \cup (tap.forced \ {NONE}), q \in Nat,
         NEW a \in FrameSet, NEW b \in FrameSet, IsPrompt(a, s), IsPrompt(b, s),
         a.at <= b.at, b.at - a.at < 3 * q
  PROVE  b.num - a.num \in -HALF .. HALF - 1
<1>1. PICK p \in Nat \ {0} : p = period[s]
  BY TapType DEF CliInv
<1>2. PICK delay \in Nat : delay = tap.delay
  BY TapType DEF CliInv
<1>3. HALF \in Nat \ {0}
  BY HalfAssumption DEF HalfAssumption
<1>4. HALF * p - delay >= 3 * q
  <2>1. period[s] \in tap.sent
    BY TapType DEF CliInv
  <2> QED
    BY <1>1, <1>2, <2>1 DEF HalfTurnIsLong
<1>5. PICK m \in Nat, n \in Nat, t \in Nat, u \in Nat : m = a.num /\ n = b.num /\ t = a.at /\ u = b.at
  BY DEF FrameSet
<1>6. PICK mp \in Int, np \in Int, hp \in Int : mp = m * p /\ np = n * p /\ hp = HALF * p
  BY <1>3
<1>7. mp <= t /\ t - mp <= delay /\ np <= u /\ u - np <= delay
  BY <1>1, <1>2, <1>5, <1>6 DEF IsPrompt
<1>8. t <= u /\ u - t < 3 * q /\ hp - delay >= 3 * q
  BY <1>4, <1>5, <1>6
<1>9. np - mp < hp /\ mp - np < hp
  BY <1>7, <1>8
<1>10. PICK d \in Int, e \in Int : d = n - m /\ e = m - n
  OBVIOUS
<1>11. d * p = np - mp /\ e * p = mp - np
  <2>1. m \in Int /\ n \in Int /\ p \in Int
    OBVIOUS
  <2> QED
    BY <1>6, <1>10, <2>1, Distributes
<1>12. d * p < HALF * p /\ e * p < HALF * p
  BY <1>6, <1>9, <1>11
<1>13. d < HALF /\ e < HALF
  <2>1. HALF \in Int
    BY <1>3
  <2> QED
    BY <1>12, <2>1, LessByFactor
<1>14. n - m \in -HALF .. HALF - 1
  BY <1>3, <1>10, <1>13
<1> QED
  BY <1>5, <1>14

\* Then the unwrapped counters are the numbers, displaced by whole turns.
LEMMA UnwrappedIsShifted ==
  ASSUME NEW n \in Seq(Nat), n # <<>>, NEW seqs \in Seq(Int), Len(seqs) = Len(n),
         \A i \in 1..Len(n) : seqs[i] = Seq16(n[i]),
         \A i \in 2..Len(n) : n[i] - n[i - 1] \in -HALF .. HALF - 1
  PROVE  \E c \in Int : \A i \in 1..Len(n) : Unwrap(seqs)[i] = n[i] - c
<1>1. PICK L \in Nat \ {0} : L = Len(n)
  BY LenProperties, EmptySeq
<1>2. PICK x \in Seq(Int) : x = Unwrap(seqs) /\ Len(x) = L
  BY <1>1, UnwrapIsLoop
<1>3. /\ x[1] = seqs[1]
      /\ \A i \in 2..L : x[i] = x[i - 1] + SignedDelta(seqs[i], seqs[i - 1])
  <2>1. Len(seqs) = L /\ L > 0
    BY <1>1
  <2>2. Unwrap(seqs)[1] = seqs[1]
    BY <2>1, UnwrapIsLoop
  <2>3. \A i \in 2..Len(seqs) :
          Unwrap(seqs)[i] = Unwrap(seqs)[i - 1] + SignedDelta(seqs[i], seqs[i - 1])
    BY UnwrapIsLoop
  <2> QED
    BY <1>2, <2>1, <2>2, <2>3
<1>4. \A i \in 1..L : n[i] \in Nat /\ seqs[i] \in Int /\ x[i] \in Int
  BY <1>1, <1>2, ElementOfSeq
<1>5. PICK c \in Int : c = n[1] - seqs[1]
  <2>1. 1 \in 1..L
    OBVIOUS
  <2>2. PICK a \in Nat, b \in Int : a = n[1] /\ b = seqs[1]
    BY <1>4, <2>1
  <2> QED
    BY <2>2
<1>6. ASSUME NEW i \in 2..L PROVE SignedDelta(seqs[i], seqs[i - 1]) = n[i] - n[i - 1]
  <2>1. i \in 1..L /\ i - 1 \in 1..L
    OBVIOUS
  <2>2. PICK a \in Int, b \in Int : a = n[i] /\ b = n[i - 1] /\ a - b \in -HALF .. HALF - 1
    <3>1. n[i] \in Int /\ n[i - 1] \in Int
      BY <1>4, <2>1
    <3>2. n[i] - n[i - 1] \in -HALF .. HALF - 1
      BY <1>1
    <3> QED
      BY <3>1, <3>2
  <2>3. SignedDelta(Seq16(a), Seq16(b)) = a - b
    BY <2>2, HalfAssumption, SignedRemainder DEF SignedDelta, Seq16, SEQ_MODULUS, HalfAssumption
  <2> QED
    BY <1>1, <2>1, <2>2, <2>3
<1> DEFINE A == {i \in 1..L : x[i] = n[i] - c}
<1>7. 1 \in A
  BY <1>3, <1>4, <1>5
<1>8. ASSUME NEW i \in 2..L, i - 1 \in A PROVE i \in A
  <2>1. i \in 1..L /\ i - 1 \in 1..L
    OBVIOUS
  <2>2. PICK a \in Int, b \in Int, y \in Int, z \in Int : a = n[i] /\ b = n[i - 1] /\ y = x[i] /\ z = x[i - 1]
    <3>1. n[i] \in Int /\ n[i - 1] \in Int
      BY <1>4, <2>1
    <3> QED
      BY <1>4, <2>1, <3>1
  <2>3. y = z + (a - b) /\ z = b - c
    BY <1>3, <1>6, <1>8, <2>2
  <2>4. y = a - c
    BY <2>3
  <2> QED
    BY <2>1, <2>2, <2>4
<1>9. 1..L \subseteq A
  <2>1. PICK lo \in Int : lo = 1 /\ lo + 1 = 2 /\ L \in Int
    OBVIOUS
  <2> HIDE DEF A
  <2>2. \A i \in lo + 1..L : i - 1 \in A => i \in A
    BY <1>8, <2>1
  <2>3. lo <= L => lo \in A
    BY <1>7, <2>1
  <2>4. lo..L \subseteq A
    BY <2>1, <2>2, <2>3, IntervalInduction
  <2> QED
    BY <2>1, <2>4
<1> QED
  BY <1>1, <1>2, <1>9

\* In a capture that does not run past midnight, and in which no whole turn of
\* the counter is lost, a stream main calls clean lost no frame between its
\* lowest and its highest: what the counts can miss, the worst gap shows.
THEOREM CleanCorrect == WithinATurn /\ WithinTheDay => (Spec => []CleanMeansNothingLost)
<1> SUFFICES ASSUME WithinATurn, WithinTheDay PROVE Spec => []CleanMeansNothingLost
  OBVIOUS
<1>1. ASSUME CliInv PROVE CleanMeansNothingLost
  <2> SUFFICES ASSUME HalfTurnIsLong, NEW s \in DOMAIN verdicts, verdicts[s].line = "clean"
               PROVE  Missing(Nums(s)) = {}
    BY DEF CleanMeansNothingLost
  <2>1. s \in tap.streams /\ verdicts[s] = VerdictOf(Group(s)) /\ Group(s) # <<>> /\ SetupType
    BY <1>1 DEF CliInv, VerdictsInv
  <2>2. PICK fs : fs = Firsts(s) /\ fs = Deduped(Group(s))
    BY <1>1, <2>1, FirstsAreKept
  <2>3. fs \in Seq(FrameSet) /\ IsPlain(fs, s) /\ HasNumbers(fs, Group(s), Len(Group(s)))
    BY <1>1, <2>1, <2>2, FirstsArePlain DEF IsPlain
  <2>4. PICK seqs : seqs = [i \in 1..Len(fs) |-> fs[i].seq]
    OBVIOUS
  <2>5. PICK q : q = resolve_nominal(fs)
    OBVIOUS
  <2>6. "clean" = Line(AnalyzeStream(seqs).lost, q, fs)
    BY <2>1, <2>2, <2>4, <2>5 DEF VerdictOf
  <2>7. q # NONE /\ ~ Len(fs) < 2 /\ AnalyzeStream(seqs).lost = 0 /\ MaxGapOf(fs) < 3 * q
    BY <2>6 DEF Line
  <2>8. PICK L \in Nat : L = Len(fs) /\ L >= 2
    BY <2>3, <2>7, LenProperties
  <2>9. PICK d \in Seq(Int) : d = TrueGaps(s) /\ d = Deltas(fs) /\ Len(d) = L - 1
    BY <1>1, <2>1, <2>2, <2>8, DeltasAreGaps
  <2>10. q \in tap.rates \cup (tap.forced \ {NONE}) /\ q \in Nat
    <3>1. CASE forced # NONE
      BY <2>1, <2>5, <3>1, TapType DEF resolve_nominal, SetupType
    <3>2. CASE forced = NONE
      <4>1. TwiceModal(fs) \in Nat
        BY <2>9, TwiceModalType
      <4>2. q = RateOf(TwiceModal(fs))
        BY <2>5, <3>2 DEF resolve_nominal
      <4>3. q \in tap.rates
        BY <2>1, <2>7, <4>1, <4>2, RateType
      <4> QED
        BY <2>1, <4>3, TapType
    <3> QED
      BY <3>1, <3>2
  <2>11. ASSUME NEW i \in 1..L PROVE fs[i] \in FrameSet /\ IsPrompt(fs[i], s) /\ fs[i].at \in Nat /\ fs[i].num \in Nat
    <3>1. fs[i] \in FrameSet
      BY <2>3, <2>8, ElementOfSeq
    <3> QED
      BY <2>3, <2>8, <3>1 DEF IsPlain, FrameSet
  <2>12. ASSUME NEW i \in 2..L PROVE fs[i - 1].at <= fs[i].at /\ fs[i].at - fs[i - 1].at < 3 * q
    <3>1. d[i - 1] = fs[i].at - fs[i - 1].at
      <4>1. i - 1 \in 1..L - 1 /\ (i - 1) + 1 = i
        OBVIOUS
      <4> QED
        BY <2>2, <2>8, <2>9, <4>1 DEF TrueGaps
    <3>2. i - 1 \in 1..Len(d) /\ d[i - 1] \in Int /\ d[i - 1] \in RangeOf(d)
      <4>1. i - 1 \in 1..Len(d)
        BY <2>9
      <4> QED
        BY <4>1, ElementOfSeq DEF RangeOf
    <3>3. MaxGapOf(fs) = Max(RangeOf(d))
      BY <2>7, <2>9 DEF MaxGapOf
    <3>4. RangeOf(d) \in SUBSET Int /\ IsFiniteSet(RangeOf(d)) /\ RangeOf(d) # {}
      BY <3>2, RangeType
    <3>5. PICK m \in Int : m = Max(RangeOf(d)) /\ d[i - 1] <= m
      BY <3>2, <3>4, MaxMinType
    <3>6. d[i - 1] < 3 * q
      BY <2>7, <2>10, <3>2, <3>3, <3>5
    <3> QED
      BY <2>3, <2>8, <3>1, <3>6 DEF IsPlain
  <2>13. PICK n : n = [i \in 1..L |-> fs[i].num]
    OBVIOUS
  <2>14. n \in Seq(Nat) /\ Len(n) = L /\ n # <<>>
    <3>1. n \in [1..L -> Nat]
      BY <2>11, <2>13
    <3>2. n \in Seq(Nat)
      BY <3>1
    <3>3. Len(n) = L
      BY <3>1, <3>2, LenProperties
    <3> QED
      BY <2>8, <3>2, <3>3
  <2>15. ASSUME NEW i \in 2..L PROVE n[i] - n[i - 1] \in -HALF .. HALF - 1
    <3>1. i \in 1..L /\ i - 1 \in 1..L
      OBVIOUS
    <3>2. n[i] = fs[i].num /\ n[i - 1] = fs[i - 1].num
      BY <2>13, <3>1
    <3>3. fs[i].num - fs[i - 1].num \in -HALF .. HALF - 1
      BY <1>1, <2>1, <2>10, <2>11, <2>12, <3>1, StepWithinHalf
    <3> QED
      BY <3>2, <3>3
  <2>16. seqs \in Seq(Int) /\ Len(seqs) = L /\ \A i \in 1..L : seqs[i] = Seq16(n[i])
    <3>1. seqs \in Seq(Int)
      BY <1>1, <2>1, <2>2, <2>4, SeqsType
    <3>2. seqs = [i \in 1..L |-> fs[i].seq]
      BY <2>4, <2>8
    <3>3. Len(seqs) = L
      BY <3>1, <3>2, LenProperties
    <3>4. ASSUME NEW i \in 1..L PROVE seqs[i] = Seq16(n[i])
      BY <2>11, <2>13, <3>2 DEF IsPrompt
    <3> QED
      BY <3>1, <3>3, <3>4
  <2>17. PICK c \in Int : \A i \in 1..L : Unwrap(seqs)[i] = n[i] - c
    BY <2>14, <2>15, <2>16, UnwrappedIsShifted
  <2>18. Unwrap(seqs) \in Seq(Int) /\ Len(Unwrap(seqs)) = L /\ seqs # <<>> /\ Unwrap(seqs) # <<>>
    <3>1. Unwrap(seqs) \in Seq(Int) /\ Len(Unwrap(seqs)) = L
      BY <2>16, UnwrapIsLoop
    <3> QED
      BY <2>8, <2>16, <3>1
  <2>19. ReportOf(Unwrap(seqs)).lost = 0
    BY <2>7, <2>18 DEF AnalyzeStream
  <2>20. Missing(n) = {}
    <3>1. n \in Seq(Int)
      BY <2>14
    <3>2. PICK x \in Seq(Int) : x = Unwrap(seqs)
      BY <2>18
    <3> QED
      BY <2>14, <2>17, <2>18, <2>19, <3>1, <3>2, NothingLostNothingMissing
  <2>21. RangeOf(n) = RangeOf(Nums(s))
    <3>1. PICK g \in Seq(FrameSet) : g = Group(s)
      BY <1>1, <2>1 DEF CliInv, GroupsInv
    <3>2. PICK G \in Nat : G = Len(g)
      BY LenProperties
    <3>3. PICK h : h = [i \in 1..G |-> g[i].num]
      OBVIOUS
    <3>4. Nums(s) = h
      BY <3>1, <3>2, <3>3 DEF Nums
    <3>5. Len(h) = G
      <4>1. \A i \in 1..G : g[i] \in FrameSet
        BY <3>2, ElementOfSeq
      <4>2. h \in [1..G -> Nat]
        BY <3>3, <4>1 DEF FrameSet
      <4>3. h \in Seq(Nat)
        BY <4>2
      <4> QED
        BY <4>2, <4>3, LenProperties
    <3>6. /\ \A i \in 1..G : \E j \in 1..L : n[j] = h[i]
          /\ \A j \in 1..L : \E i \in 1..G : h[i] = n[j]
      BY <2>3, <2>8, <2>13, <3>1, <3>2, <3>3 DEF HasNumbers
    <3>7. RangeOf(n) = {n[j] : j \in 1..L} /\ RangeOf(h) = {h[i] : i \in 1..G}
      BY <2>14, <3>5 DEF RangeOf
    <3>8. ASSUME NEW j \in 1..L PROVE n[j] \in {h[i] : i \in 1..G}
      <4>1. PICK i \in 1..G : h[i] = n[j]
        BY <3>6
      <4> QED
        BY <4>1
    <3>9. ASSUME NEW i \in 1..G PROVE h[i] \in {n[j] : j \in 1..L}
      <4>1. PICK j \in 1..L : n[j] = h[i]
        BY <3>6
      <4> QED
        BY <4>1
    <3>10. RangeOf(n) \subseteq RangeOf(h) /\ RangeOf(h) \subseteq RangeOf(n)
      BY <3>7, <3>8, <3>9, Zenon
    <3>11. RangeOf(n) = RangeOf(h)
      BY <3>10
    <3> QED
      BY <3>4, <3>11
  <2> QED
    BY <2>20, <2>21 DEF Missing
<1> QED
  BY <1>1, CliSafety, PTL
================================================================================
