----------------------------- MODULE CaptureIndex -----------------------------
(***************************************************************************)
(* tools/build_capture_index.py: what the index says of one capture, from  *)
(* a reading and a classification of its own; and ctrl.parse of            *)
(* reac/ctrl.py, which the rest of the repository classifies with.         *)
(***************************************************************************)
EXTENDS PcapFile

CONSTANTS
  NONE,
  Boxes            \* the sources endpoint() takes for a box or a merge unit

\* The ops of class 01 that are no heartbeat: "0103" is one of another length,
\* "01" one of another fragment.
Class01 == {"0103-000d", "0103", "0100", "0101", "0102", "01"}

\* parse: the kind of a payload.
ParsedKind(pkt) ==
  CASE pkt.cut # "none" -> "NONE"
    [] pkt.cut = "none" /\ pkt.type = "0000" -> "FILLER"
    [] pkt.cut = "none" /\ pkt.type = "cfea" -> "MASTER_ANNOUNCE"
    [] pkt.cut = "none" /\ pkt.type = "cdea" ->
         (CASE pkt.op = "0403" -> "GRANT"
            [] pkt.op = "0103-0019" -> "MASTER_HB"
            [] pkt.op = "0103-0001" -> "BOX_HB"
            [] pkt.op \in Class01 -> "PROBE"
            [] OTHER -> "UNKNOWN_CTRL")
    [] OTHER -> "UNKNOWN_CTRL"

\* classify: NONE for a frame that is not REAC.
classify(pkt) ==
  CASE ~IsReac(pkt) -> NONE
    [] IsReac(pkt) /\ pkt.cut = "op" -> "SHORT"
    [] IsReac(pkt) /\ pkt.cut # "op" /\ pkt.type = "0000" -> "FILLER"
    [] IsReac(pkt) /\ pkt.cut # "op" /\ pkt.type = "cfea" -> "MASTER_ANNOUNCE"
    [] IsReac(pkt) /\ pkt.cut # "op" /\ pkt.type = "cdea" ->
         (CASE pkt.op = "0403" -> "GRANT"
            [] pkt.op = "0103-000d" -> "ENROLL"
            [] pkt.op = "0103-0019" -> "CHANMAP"
            [] pkt.op = "0103-0001" -> "BOX_HB"
            [] pkt.op = "0100" -> "PROBE"
            [] pkt.op = "0101" -> "SUB01"
            [] pkt.op = "0102" -> "SUB02"
            [] OTHER -> "UNKNOWN_CDEA")
    [] OTHER -> "UNKNOWN_TYPE"

CONTROL_SUBTYPES ==
  {"MASTER_ANNOUNCE", "PROBE", "GRANT", "ENROLL", "CHANMAP", "BOX_HB", "SUB01", "SUB02"}

Marked == {"FILLER", "MASTER_ANNOUNCE", "PROBE", "GRANT", "ENROLL", "BOX_HB"}

\* None is none of the kinds classify returns.
ASSUME IndexAssumption ==
  NONE \notin Marked \cup CONTROL_SUBTYPES \cup {"SHORT", "UNKNOWN_CDEA", "UNKNOWN_TYPE"}

\* The precision is read off the magic as a little-endian machine sees it; a
\* byte-swapped nanosecond magic is none of those it knows.
ScanPrecision(f) == IF f.order = "<" THEN f.prec ELSE "usec"

\* Mutant: the cap is not said.
SampledNever(n, max) == FALSE

Sampled(n, max) == max # NONE /\ n > max

\* scan: frames and sources counted, kinds, landmarks and duration.
scan(f, max) ==
  LET all == Complete(f, f.order)
      n == Len(all)
      taken == IF max # NONE /\ n > max THEN SubSeq(all, 1, max) ELSE all
      reac == Those(taken, LAMBDA p : classify(p) # NONE)
      ts(i) == TimeOf(reac[i], ScanPrecision(f))
      ofKind(ks) == {i \in DOMAIN reac : classify(reac[i].pkt) \in ks}
      ofBox == {i \in DOMAIN reac : reac[i].pkt.src \in Boxes}
      first(S) == ts(Min(S)) - ts(1)
  IN  [sampled |-> Sampled(n, max),
       frame_count |-> IF max # NONE /\ n > max THEN max + 1 ELSE n,
       reac_frames |-> Len(reac),
       duration |-> IF reac = <<>> THEN 0 ELSE ts(Len(reac)) - ts(1),
       sources |-> [s \in {reac[i].pkt.src : i \in DOMAIN reac} |->
                      Cardinality({i \in DOMAIN reac : reac[i].pkt.src = s})],
       audio |-> Cardinality(ofKind({"FILLER"})),
       control |-> Cardinality(ofKind(CONTROL_SUBTYPES \cup {"UNKNOWN_CDEA"})),
       landmarks |-> [k \in {m \in Marked : ofKind({m}) # {}} |-> first(ofKind({k}))],
       first_box |-> IF ofBox = {} THEN NONE ELSE first(ofBox)]
===============================================================================
