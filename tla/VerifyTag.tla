------------------------------- MODULE VerifyTag -------------------------------
(***************************************************************************)
(* verify_tag_0500.py: the gate that looks for a TAG-0500 record breaking  *)
(* the model, over a corpus of captures.  A SysEx record has its tag, its  *)
(* command, whether its data is one of the six constants, and whether its  *)
(* checksum holds.                                                         *)
(***************************************************************************)
EXTENDS PcapFile

\* frames: little-endian only under the one magic it knows.
GateFrames(f) == Complete(f, IF f.order = "<" /\ f.prec = "usec" THEN "<" ELSE ">")

\* Every record of the tag found in the capture, whatever carries it.
Records0500(f) ==
  {x \in UNION {ToSet(r.pkt.sysex) : r \in ToSet(GateFrames(f))} : x.tag = "0500"}

Anomalous(x) ==
  /\ x.ok
  /\ \/ x.cmd = "rq1" /\ ~x.six
     \/ x.cmd \notin {"rq1", "dt1"}

GateScan(f) ==
  LET xs == Records0500(f)
  IN  [records |-> \E x \in xs : x.ok, bad |-> \E x \in xs : ~x.ok,
       anomalies |-> \E x \in xs : Anomalous(x)]

\* Mutant: an empty scan is a pass.
GateMainEmptyPass(files, missing) ==
  IF \E i \in DOMAIN files : GateScan(files[i]).anomalies \/ GateScan(files[i]).bad
    THEN 1 ELSE 0

\* main: 2 when no capture is named, one named is missing, or none has a record
\* of the tag; 1 when any has a counterexample, 0 otherwise.
GateMain(files, missing) ==
  LET r == [i \in DOMAIN files |-> GateScan(files[i])]
  IN  IF missing \/ ~\E i \in DOMAIN files : r[i].records \/ r[i].bad THEN 2
      ELSE IF \E i \in DOMAIN files : r[i].anomalies \/ r[i].bad THEN 1
      ELSE 0
================================================================================
