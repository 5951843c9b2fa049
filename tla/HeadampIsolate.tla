--------------------------- MODULE HeadampIsolate ---------------------------
(* reac/headamp.py: the byte-diff of a head-amp campaign.  A segment is the  *)
(* control frames of one capture, each [key, block]; key is the sender with  *)
(* the frame's signature.  A block is cut down to its channel entries, each  *)
(* <chan_id> <flag> <value>, and the checksum byte the sender derives.       *)
EXTENDS Integers, SequencesExt, FiniteSetsExt

CONSTANTS Channels, WindowSize, Keys, NoKey

Ident(e) == 3 * e - 2                \* where the e-th entry's chan_id stands,
Flag(e) == 3 * e - 1                 \* its flag byte
Value(e) == 3 * e                    \* and its value byte
Cksum == 3 * WindowSize + 1
Block == 1 .. Cksum

-----------------------------------------------------------------------------
(* _modal_blocks *)

KeysOf(seg) == {f.key : f \in ToSet(seg)}

Total(seg, k) == Cardinality({i \in DOMAIN seg : seg[i].key = k})

CountOf(seg, k, b) ==
  Cardinality({i \in DOMAIN seg : seg[i].key = k /\ seg[i].block = b})

\* Mutant: the first block stands for the segment.
FirstSeen(seg, k) == seg[Min({i \in DOMAIN seg : seg[i].key = k})].block

MostCommon(seg, k) ==
  LET n(i) == CountOf(seg, k, seg[i].block)
      At == {i \in DOMAIN seg : seg[i].key = k}
  IN seg[Min({i \in At : \A j \in At : n(j) <= n(i)})].block

\* Mutant: the checksum is a byte like the others.
DiffWithChecksum(base, other) == {j \in Block : base[j] # other[j]}

_block_diff(base, other) == {j \in Block \ {Cksum} : base[j] # other[j]}

\* Mutant: the first signature of the baseline is taken.
PickFirst(segs) == segs[1][1].key

(* The signature of the baseline that moves in the most segments; the first  *)
(* seen of those that move as often.                                         *)
_pick_signature(segs) ==
  LET base == segs[1]
      moves(k) == Cardinality({i \in 2 .. Len(segs) :
                    /\ k \in KeysOf(segs[i])
                    /\ _block_diff(MostCommon(base, k), MostCommon(segs[i], k)) # {}})
      Best == {i \in DOMAIN base :
                 \A j \in DOMAIN base : moves(base[j].key) <= moves(base[i].key)}
  IN base[Min(Best)].key

-----------------------------------------------------------------------------
(* isolate.  A finding is of the kind "absent", "flat", "unmoved" or "byte". *)

Unstable(segs, k) ==
  {i \in DOMAIN segs :
     /\ k \in KeysOf(segs[i])
     /\ 10 * CountOf(segs[i], k, MostCommon(segs[i], k)) < 9 * Total(segs[i], k)}

NoByte(kind) == [kind |-> kind, index |-> -1, old |-> 0, new |-> 0, conf |-> "none"]

FindingOf(step, seg, k, base) ==
  LET block == MostCommon(seg, k)
      diffs == _block_diff(base, block)
      j == Min(diffs)
  IN IF k \notin KeysOf(seg) THEN NoByte("absent")
     ELSE IF diffs = {}
       THEN NoByte(IF step.value = 0 THEN "flat" ELSE "unmoved")
     ELSE [kind |-> "byte", index |-> j, old |-> base[j], new |-> block[j],
           conf |-> IF Cardinality(diffs) = 1 THEN "high" ELSE "medium"]

GainSegments(steps, segs, k, base, c) ==
  {i \in 2 .. Len(segs) :
     /\ steps[i].control = "gain" /\ steps[i].channel = c
     /\ k \in KeysOf(segs[i])
     /\ _block_diff(base, MostCommon(segs[i], k)) # {}}

(* Every byte that moved is a point of the channel's gain law; the law is    *)
(* fitted when its points have two gains, and laid at the first byte seen.   *)
GainLaws(steps, segs, k, base) ==
  LET diff(i) == _block_diff(base, MostCommon(segs[i], k))
      Points(c) == UNION {{<<steps[i].value, MostCommon(segs[i], k)[j]>> : j \in diff(i)} :
                            i \in GainSegments(steps, segs, k, base, c)}
      Fitted == {c \in Channels : \E p, q \in Points(c) : p[1] # q[1]}
  IN {[channel |-> c, points |-> Points(c),
       index |-> Min(diff(Min(GainSegments(steps, segs, k, base, c))))] : c \in Fitted}

isolate(steps, segs) ==
  IF segs[1] = <<>>
    THEN [key |-> NoKey, findings |-> <<>>, notes |-> {}, laws |-> {}]
    ELSE LET k == _pick_signature(segs)
             base == MostCommon(segs[1], k)
         IN [key |-> k,
             findings |-> [i \in 2 .. Len(segs) |->
                             FindingOf(steps[i], segs[i], k, base)],
             notes |-> Unstable(segs, k),
             laws |-> GainLaws(steps, segs, k, base)]
=============================================================================
