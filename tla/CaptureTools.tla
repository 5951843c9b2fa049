----------------------------- MODULE CaptureTools -----------------------------
(***************************************************************************)
(* A corpus of captures as it comes about, and the tools that read it.     *)
(* tcpdump writes a capture as packets come in, in the byte order of the   *)
(* machine it runs on and the precision asked for; it is killed with its   *)
(* last writes buffered, so the file may end anywhere.  write_pcap writes  *)
(* a file whole.  The tools may read the corpus at any time: what they say *)
(* is a function of its files.                                             *)
(***************************************************************************)
EXTENDS CaptureIndex, VerifyTag

CONSTANTS
  Packets,         \* Packets[k] may come in during the k-th capture
  Waits,           \* the times between packets
  MaxPackets,      \* bounds: MaxPackets[k] packets in the k-th capture, and
                   \* Len(MaxPackets) captures
  MaxRecords       \* the caps given to the index

AllPackets == UNION ToSet(Packets)

ASSUME CorpusAssumption ==
  /\ Packets \in Seq(SUBSET AllPackets) /\ MaxPackets \in Seq(Nat)
  /\ Len(Packets) = Len(MaxPackets)
  /\ \A p \in AllPackets : p.cut \in {"none", "block", "op"}
  /\ Waits \subseteq Nat
  /\ MaxRecords \subseteq Nat \cup {NONE}

VARIABLES
  open,            \* the capture being written, NONE between captures
  seen,            \* what has come in during it: [t, pkt]
  files,           \* the corpus
  truth            \* per file, what came in and is wholly in it

corpusVars == <<open, seen, files, truth>>

CorpusInit ==
  /\ open = NONE
  /\ seen = <<>>
  /\ files = <<>>
  /\ truth = <<>>

Open ==
  /\ open = NONE
  /\ Len(files) < Len(MaxPackets)
  /\ open' \in [order : Orders, prec : Precisions]
  /\ UNCHANGED <<seen, files, truth>>

Packet(p, wait) ==
  /\ open # NONE
  /\ p \in Packets[Len(files) + 1]
  /\ Len(seen) < MaxPackets[Len(files) + 1]
  /\ LET now == IF seen = <<>> THEN 0 ELSE Last(seen).t
     IN  seen' = Append(seen, [t |-> now + wait, pkt |-> p])
  /\ UNCHANGED <<open, files, truth>>

\* The file ends after the n-th record, or in the body of the next, past its
\* ethertype; with less of it, it reads as one that ends after the n-th.
Left(n, header, body) ==
  LET rec(i) == Recorded(Stamp(seen[i].t, open.prec), seen[i].pkt)
  IN  [order |-> open.order, prec |-> open.prec, header |-> header,
       records |-> [i \in 1 .. n |-> rec(i)],
       tail |-> IF body THEN <<rec(n + 1)>> ELSE <<>>]

Closed(f, n) ==
  /\ files' = Append(files, f)
  /\ truth' = Append(truth, SubSeq(seen, 1, n))
  /\ open' = NONE
  /\ seen' = <<>>

Kill ==
  /\ open # NONE
  /\ \/ \E n \in 0 .. Len(seen) : Closed(Left(n, "WHOLE", FALSE), n)
     \/ \E n \in 0 .. Len(seen) - 1 : Closed(Left(n, "WHOLE", TRUE), n)
     \/ \E header \in {"PART", "NONE"} : Closed(Left(0, header, FALSE), 0)

\* A tool writes what it holds in memory, where times are doubles.
InMemory(came) == [i \in DOMAIN came |-> [t |-> Double(came[i].t), pkt |-> came[i].pkt]]

Write ==
  /\ open # NONE
  /\ Closed(write_pcap(InMemory(seen)), Len(seen))

CorpusNext ==
  \/ Open \/ Kill \/ Write
  \/ \E p \in AllPackets, wait \in Waits : Packet(p, wait)

CorpusSpec == CorpusInit /\ [][CorpusNext]_corpusVars

-------------------------------------------------------------------------------
(* Properties. *)

TapRecords == [sec : Nat, frac : 0 .. SECOND, pkt : AllPackets]

(* Files keep the shape the readers count on: a fraction at most a second,   *)
(* and a tail that is cut off one record at the most (pcap.py:22-47).        *)
CorpusTypeOK ==
  /\ open \in [order : Orders, prec : Precisions] \cup {NONE}
  /\ open = NONE => seen = <<>>
  /\ Len(files) = Len(truth) /\ Len(files) <= Len(MaxPackets)
  /\ \A i \in DOMAIN files :
       /\ files[i].order \in Orders /\ files[i].prec \in Precisions
       /\ files[i].records \in Seq(TapRecords)
       /\ \A j \in DOMAIN files[i].records :
            files[i].records[j].frac <= (IF files[i].prec = "nano" THEN SECOND ELSE USEC)
       /\ files[i].tail \in Seq(TapRecords) /\ Len(files[i].tail) <= 1
       /\ files[i].header \in Headers
       /\ files[i].header # "WHOLE" => files[i].records = <<>> /\ files[i].tail = <<>>

ReacOf(came) == Those(came, IsReac)

\* A double is the time t but for a unit of the precision and half a tick; a
\* nanosecond is not lost.
Near(k, t, prec) ==
  LET off == k * SECOND - t * TICKS        \* of SECOND * TICKS parts of a second
      slack == SECOND + (IF prec = "nano" THEN 0 ELSE 2 * FINE * TICKS)
  IN  2 * off <= slack /\ -(2 * off) <= slack

(* read_pcap gives the REAC packets that are wholly in the file, in order    *)
(* and at the times they came in, but for the file's precision and that of   *)
(* the double it makes of them (pcap.py:91), whatever machine wrote the file *)
(* and wherever it was cut off (pcap.py:25-28 and 70-98); and times never    *)
(* run back.                                                                 *)
ReadIsWhatCameIn ==
  \A i \in DOMAIN files :
    LET got == read_pcap(files[i])
        want == ReacOf(truth[i])
    IN  /\ Len(got) = Len(want)
        /\ \A j \in DOMAIN got :
             /\ got[j].payload = want[j].pkt /\ got[j].seq = want[j].pkt.seq
             /\ Near(got[j].ts, want[j].t, files[i].prec)
             /\ j > 1 => got[j - 1].ts <= got[j].ts

\* The kinds of the index that a kind of ctrl.parse splits into; the index
\* also tells frames that are cut off within the block from each other.
SameKind(pkt, parsed, indexed) ==
  CASE parsed = "NONE" -> pkt.cut = "block" \/ indexed = "SHORT"
    [] parsed = "MASTER_HB" -> indexed = "CHANMAP"
    [] parsed = "PROBE" -> indexed \in {"PROBE", "ENROLL", "SUB01", "SUB02", "UNKNOWN_CDEA"}
    [] parsed = "UNKNOWN_CTRL" -> indexed \in {"UNKNOWN_CDEA", "UNKNOWN_TYPE"}
    [] OTHER -> indexed = parsed

FirstOf(got, kind) ==
  got[Min({j \in DOMAIN got : classify(got[j].payload) = kind})].ts - got[1].ts

(* The index, which reads and classifies for itself, says of a capture what  *)
(* the common reader and ctrl.parse say of it: the same kind of each frame   *)
(* whose control block is all there, as many frames, by source and by type,  *)
(* over as long; but for the times of a byte-swapped nanosecond file.  A     *)
(* capped scan says it is one, and covers a prefix of the capture            *)
(* (build_capture_index.py:32-35: never a silent truncation).                *)
IndexAgreesWithReader ==
  \A i \in DOMAIN files, max \in MaxRecords :
    LET f == files[i]
        got == read_pcap(f)
        r == scan(f, max)
        typed(T) == Cardinality({j \in DOMAIN got : /\ got[j].payload.type \in T
                                                    /\ got[j].payload.cut # "op"})
        same(j) == SameKind(got[j].payload, ParsedKind(got[j].payload), classify(got[j].payload))
    IN  /\ \A j \in DOMAIN got : same(j)
        /\ r.reac_frames <= Len(got)
        /\ ~r.sampled =>
             /\ r.frame_count = Len(truth[i])
             /\ r.reac_frames = Len(got)
             /\ r.audio = typed({"0000"})
             /\ r.control = typed({"cdea", "cfea"})
             /\ \A s \in DOMAIN r.sources :
                  r.sources[s] = Cardinality({j \in DOMAIN got : got[j].src = s})
             /\ (f.order = "<" \/ f.prec = "usec") /\ got # <<>> =>
                  /\ r.duration = Last(got).ts - got[1].ts
                  /\ \A k \in DOMAIN r.landmarks : r.landmarks[k] = FirstOf(got, k)

(* reac_frame_anatomy.py, which assumes nothing of the tags, dies only on a  *)
(* file too short for a magic, and in one that short is no packet.  In any   *)
(* other it sees the packets of the common reader in the same order, and     *)
(* besides them only ones whose 88 19 is neither the ethertype nor that      *)
(* behind a 802.1Q tag, and the packet the file was cut off in; and          *)
(* reac_io_diff.py takes no REAC packet of a stream the anatomy does not     *)
(* show (reac_frame_anatomy.py:25-46).                                       *)
AnatomySeesTheReaders ==
  \A i \in DOMAIN files :
    LET f == files[i]
        shown == AnatomyReac(f)
        cut == IF f.tail # <<>> /\ Shown(f.tail[1].pkt) THEN 1 ELSE 0
        plain == Those(SubSeq(shown, 1, Len(shown) - cut), IsReac)
        got == read_pcap(f)
    IN  IF AnatomyDies(f) THEN truth[i] = <<>> ELSE
        /\ [j \in DOMAIN plain |-> plain[j].pkt] = [j \in DOMAIN got |-> got[j].payload]
        /\ \A p \in AllPackets : Shown(p) =>
             Len(Those(IoDiffFrames(f, p.src, p.size), Shown))
               <= Len(AnatomyStream(f, p.src, p.size))

Counterexample(x) == x.tag = "0500" /\ (~x.ok \/ Anomalous(x))
Holds(seq, P(_)) ==
  \E j \in DOMAIN seq : \E k \in DOMAIN seq[j].pkt.sysex : P(seq[j].pkt.sysex[k])
Is0500(x) == x.tag = "0500"

\* What the gate promises of captures it passes.
GateVerdict(S) ==
  \A missing \in BOOLEAN :
    LET code == GateMain(files, missing)
    IN  /\ code = 0 => ~\E i \in S : Holds(truth[i], Counterexample)
        /\ code = 1 => \E i \in DOMAIN files : Holds(truth[i], Counterexample)
        /\ ~missing /\ (\E i \in S : Holds(truth[i], Is0500)) => code # 2
        /\ code = 0 => ~missing /\ \E i \in DOMAIN files : Holds(truth[i], Is0500)

(* Over captures that are not nanosecond files of a little-endian machine,   *)
(* the gate passes only a corpus with records of the tag and no              *)
(* counterexample among them, fails only one with a counterexample, and      *)
(* gives no verdict only when no record is wholly there or a capture named   *)
(* is not (verify_tag_0500.py:14-21 and 143-176).                            *)
GateIsRight ==
  GateVerdict({i \in DOMAIN files : files[i].order = ">" \/ files[i].prec = "usec"})

(* The gate passes no corpus with a counterexample in any capture of it      *)
(* (verify_tag_0500.py:14: exits non-zero on the first capture holding a     *)
(* counterexample).                                                          *)
NoCounterexamplePasses ==
  GateMain(files, FALSE) = 0 => ~\E i \in DOMAIN files : Holds(truth[i], Counterexample)
===============================================================================
