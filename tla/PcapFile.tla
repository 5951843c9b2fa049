------------------------------- MODULE PcapFile -------------------------------
(***************************************************************************)
(* Classic pcap files, and what each of the repository's readers makes of  *)
(* one: reac/pcap.py, and the loops of their own that                      *)
(* tools/build_capture_index.py, verify_tag_0500.py,                       *)
(* reac_frame_anatomy.py and reac_io_diff.py bring.                        *)
(*                                                                         *)
(* A file has a byte order and a precision, a global header that may be    *)
(* cut off, past the magic (PART) or in it, its complete records and a     *)
(* tail: <<>>, or the record the file was cut off in the body of.  A       *)
(* header read in the other byte order gives a record length beyond any    *)
(* file, so the reader stops there.                                        *)
(*                                                                         *)
(* The times of packets, and of nanosecond files, are in units of the      *)
(* nanosecond field.  In memory a time is a double, which at today's epoch *)
(* resolves TICKS parts of a second and no more (2^22 of them): there a    *)
(* time is in ticks.                                                       *)
(***************************************************************************)
EXTENDS Integers, SequencesExt, FiniteSetsExt, Picking

CONSTANTS
  USEC,            \* units of the microsecond field in a second
  FINE,            \* units of the nanosecond field in one of those
  TICKS            \* ticks of a double in a second

ASSUME PcapAssumption ==
  /\ USEC \in Nat \ {0}
  /\ FINE \in Nat \ {0}
  /\ TICKS \in Nat /\ USEC <= TICKS           \* microseconds are told apart

SECOND == USEC * FINE
Orders == {"<", ">"}
Precisions == {"usec", "nano"}

Headers == {"WHOLE", "PART", "NONE"}

\* n divided by d to the nearest integer, half-way to the even one: what both
\* the arithmetic of doubles and round() do.
Nearest(n, d) ==
  LET q == n \div d
      r == n % d
  IN  IF 2 * r < d \/ (2 * r = d /\ q % 2 = 0) THEN q ELSE q + 1

\* The double next to a time.
Double(t) == Nearest(t * TICKS, SECOND)

(* Packets: src, the words at the bytes 12, 16 and 20, where an ethertype or *)
(* a tag may be, seq, the type word, the op of a control block, how it is    *)
(* cut by a snapshot length ("none", or past the op within the "block", or   *)
(* before the "op"), its size on the wire, and the SysEx records in it.      *)

\* The entries of a list whose packets are so, in their order.
Those(list, IsSo(_)) == Picked(list, {i \in DOMAIN list : IsSo(list[i].pkt)})

-------------------------------------------------------------------------------
(* Writers. *)

\* tcpdump: the time cut down to the file's precision.
Stamp(t, prec) ==
  [sec |-> t \div SECOND,
   frac |-> IF prec = "nano" THEN t % SECOND ELSE (t % SECOND) \div FINE]

\* Mutant: the seconds stay in the fraction.
RoundedNoSecond(k) == [sec |-> 0, frac |-> Nearest(k * USEC, TICKS)]

\* write_pcap: the fraction is rounded, and may come out as a whole second.
Rounded(k) == [sec |-> k \div TICKS, frac |-> Nearest((k % TICKS) * USEC, TICKS)]

Recorded(stamp, pkt) == [sec |-> stamp.sec, frac |-> stamp.frac, pkt |-> pkt]

\* packets: [t, pkt], the times doubles.
write_pcap(packets) ==
  [order |-> "<", prec |-> "usec", header |-> "WHOLE", tail |-> <<>>,
   records |-> [i \in DOMAIN packets |-> Recorded(Rounded(packets[i].t), packets[i].pkt)]]

-------------------------------------------------------------------------------
(* reac/pcap.py *)

\* What a reader that takes order and precision of the file for these reads.
Complete(f, order) ==
  IF f.header = "WHOLE" /\ f.order = order THEN f.records ELSE <<>>

\* The time a record is of, and the double sec + frac / div that holds it.
Exactly(r, prec) ==
  r.sec * SECOND + (IF prec = "nano" THEN r.frac ELSE r.frac * FINE)

TimeOf(r, prec) == Double(Exactly(r, prec))

\* Mutant: a nanosecond magic is taken for a byte-swapped one.
HeaderUsecOnly(f) ==
  [order |-> IF f.order = "<" /\ f.prec = "usec" THEN "<" ELSE ">", prec |-> "usec"]

_pcap_header(f) == [order |-> f.order, prec |-> f.prec]

Tagged(pkt) == pkt.words[1] = "8100"

\* _vlan_and_payload: the ethertype of REAC, or of a 802.1Q tag before it.
IsReac(pkt) ==
  \/ pkt.words[1] = "8819"
  \/ Tagged(pkt) /\ pkt.words[2] = "8819"

ReacFrame(r, prec) ==
  [ts |-> TimeOf(r, prec), src |-> r.pkt.src, vlan |-> Tagged(r.pkt),
   seq |-> r.pkt.seq, payload |-> r.pkt]

read_pcap(f) ==
  LET head == _pcap_header(f)
      reac == Those(Complete(f, head.order), IsReac)
  IN  [i \in DOMAIN reac |-> ReacFrame(reac[i], head.prec)]

-------------------------------------------------------------------------------
(* The readers of the scripts. *)

\* reac_frame_anatomy.py unpacks the magic of whatever the file holds.
AnatomyDies(f) == f.header = "NONE"

\* It reads also a last packet that is not all there.
AnatomyFrames(f) == IF f.header = "WHOLE" THEN f.records \o f.tail ELSE <<>>

\* Mutant: only an untagged ethertype is looked for.
reac_off_untagged(pkt) == IF pkt.words[1] = "8819" THEN 12 ELSE -1

\* The first of the places the ethertype is at, whatever comes before it.
reac_off(pkt) ==
  LET at == {i \in 1 .. 3 : pkt.words[i] = "8819"}
  IN  IF at = {} THEN -1 ELSE 8 + 4 * Min(at)

Shown(pkt) == reac_off(pkt) >= 0

AnatomyReac(f) == Those(AnatomyFrames(f), Shown)

\* One direction of the link, and the steps of its counter.
AnatomyStream(f, src, size) ==
  Those(AnatomyFrames(f), LAMBDA p : Shown(p) /\ p.src = src /\ p.size = size)

\* reac_io_diff.py: one source's whole frames of one size, whatever they are,
\* little-endian files only.
IoDiffFrames(f, src, size) ==
  Those(Complete(f, "<"), LAMBDA p : p.src = src /\ p.size = size /\ p.cut = "none")
===============================================================================
