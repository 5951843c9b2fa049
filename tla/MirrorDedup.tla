------------------------------ MODULE MirrorDedup ------------------------------
(***************************************************************************)
(* dedupe_mirror_twins of reac/analyzer.py over a capture taken off a port *)
(* mirror that copies both directions of the port.                         *)
(*                                                                         *)
(* Each frame of a source reaches the capture as an RX copy and, later, a  *)
(* TX copy.  Copies of other sources may come in between; a mirror that    *)
(* lags by a frame period or more (lag > 1) lets the source's own next     *)
(* frame in between too.  The mirror and the path drop copies, a copy may  *)
(* carry the FCS residue, and a box may send a frame again verbatim.       *)
(***************************************************************************)
EXTENDS SeqCounter, Sequences, FiniteSets

CONSTANTS
  Sources,         \* source MACs
  Width,           \* channel width of each source's frames
  Audio,           \* what the rest of a frame can hold (silence, a sample ...)
  FirstFrame,      \* number of each source's first frame
  Mirrors,         \* the mirrors: ports, the sources whose frames they copy,
                   \* lag, the most frames of a source whose TX copy
                   \* is outstanding, and opaque, whether copies may come
                   \* without payload bytes
  MaxGap,          \* most numbers a captured frame is ahead of those before it
  MaxSent,         \* bound: frames per source
  MaxCopies        \* bound: copies in the capture

ASSUME MirrorAssumption ==
  /\ Width \in [Sources -> Nat \ {0}]
  /\ FirstFrame \in Nat /\ MaxGap \in Nat
  /\ MaxSent \in Nat /\ MaxCopies \in Nat
  /\ Mirrors \subseteq [ports : SUBSET Sources, lag : Nat \ {0}, opaque : BOOLEAN]

VARIABLES
  mirror,          \* the mirror the capture is taken off
  closed,          \* the capture has ended
  sent,            \* per source, the audio of the frames sent so far
  owed,            \* per source, the numbers whose TX copy is still to come
  capture,         \* the copies, in capture order
  pos,             \* dedupe: copies looked at so far
  prev,            \* dedupe: per source, the body compared with next
  kept             \* dedupe: the copies kept

vars == <<mirror, closed, sent, owed, capture, pos, prev, kept>>

PAYLOAD_OVERHEAD == 38
BYTES_PER_CHANNEL == 36
FCS_RESIDUE == 2

\* Mutant: the residue is left on.
KeepResidue(n) == n

clean_payload_len(n) ==
  IF /\ n >= PAYLOAD_OVERHEAD + FCS_RESIDUE
     /\ (n - PAYLOAD_OVERHEAD) % BYTES_PER_CHANNEL = FCS_RESIDUE
    THEN n - FCS_RESIDUE
    ELSE n

NumberRange == FirstFrame .. FirstFrame + MaxSent - 1
NextNumber(s) == FirstFrame + Len(sent[s])
AudioOf(s, n) == sent[s][n - FirstFrame + 1]

\* One mirrored copy of frame n of s, whose content is a.
Copy(s, n, a, residue, opaque) ==
  [src    |-> s, num |-> n, seq |-> Seq16(n), audio |-> a,
   len    |-> PAYLOAD_OVERHEAD + Width[s] * BYTES_PER_CHANNEL
                + (IF residue THEN FCS_RESIDUE ELSE 0),
   opaque |-> opaque]

\* Mutant: the counter is not among the compared bytes.
AudioBody(c) == [audio |-> c.audio, len |-> clean_payload_len(c.len)]

\* The bytes dedupe compares: counter, content, and how many of them.
Body(c) == [seq |-> c.seq, audio |-> c.audio, len |-> clean_payload_len(c.len)]

NoBody == [none |-> TRUE]

Init ==
  /\ mirror \in Mirrors
  /\ closed = FALSE
  /\ sent = [s \in Sources |-> <<>>]
  /\ owed = [s \in Sources |-> <<>>]
  /\ capture = <<>>
  /\ pos = 0
  /\ prev = [s \in Sources |-> NoBody]
  /\ kept = <<>>

\* The path loses no run of MaxGap frames.
WithinGap(s, n) ==
  LET seen == {capture[i].num : i \in {j \in 1..Len(capture) : capture[j].src = s}}
  IN  seen # {} => \E m \in seen : n - m <= MaxGap

Captured(s, n, a) ==
  /\ WithinGap(s, n)
  /\ Len(capture) < MaxCopies
  /\ \E residue \in BOOLEAN, opaque \in {FALSE, mirror.opaque} :
       capture' = Append(capture, Copy(s, n, a, residue, opaque))

\* A source sends its next frame; the RX copy is mirrored, or dropped.
Send(s, a) ==
  /\ ~closed
  /\ Len(sent[s]) < MaxSent /\ Len(owed[s]) < mirror.lag
  /\ sent' = [sent EXCEPT ![s] = Append(@, a)]
  /\ owed' = [owed EXCEPT ![s] = Append(@, NextNumber(s))]
  /\ Captured(s, NextNumber(s), a) \/ UNCHANGED capture
  /\ UNCHANGED <<mirror, closed, pos, prev, kept>>

\* A box sends its last frame again, byte for byte.
Resend(s) ==
  /\ ~closed
  /\ sent[s] # <<>> /\ Len(owed[s]) < mirror.lag
  /\ LET n == NextNumber(s) - 1
     IN  /\ owed' = [owed EXCEPT ![s] = Append(@, n)]
         /\ Captured(s, n, AudioOf(s, n))
  /\ UNCHANGED <<mirror, closed, sent, pos, prev, kept>>

\* The TX copy of the oldest outstanding frame is mirrored, or dropped.
MirrorTx(s) ==
  /\ ~closed
  /\ owed[s] # <<>>
  /\ owed' = [owed EXCEPT ![s] = Tail(@)]
  /\ Captured(s, Head(owed[s]), AudioOf(s, Head(owed[s]))) \/ UNCHANGED capture
  /\ UNCHANGED <<mirror, closed, sent, pos, prev, kept>>

\* The capture ends; only then is it read.
Close == ~closed /\ closed' = TRUE /\ UNCHANGED <<mirror, sent, owed, capture, pos, prev, kept>>

Looking == closed /\ pos' = pos + 1

\* No payload: keep the copy and forget what came before it.
KeepOpaque(c) ==
  /\ Looking /\ c.opaque
  /\ prev' = [prev EXCEPT ![c.src] = NoBody]
  /\ kept' = Append(kept, c)
  /\ UNCHANGED <<mirror, closed, sent, owed, capture>>

DropTwin(c) ==
  /\ Looking /\ ~c.opaque /\ prev[c.src] = Body(c)
  /\ UNCHANGED <<mirror, closed, sent, owed, capture, prev, kept>>

KeepNew(c) ==
  /\ Looking /\ ~c.opaque /\ prev[c.src] # Body(c)
  /\ prev' = [prev EXCEPT ![c.src] = Body(c)]
  /\ kept' = Append(kept, c)
  /\ UNCHANGED <<mirror, closed, sent, owed, capture>>

Dedupe ==
  /\ pos < Len(capture)
  /\ LET c == capture[pos + 1]
     IN  KeepOpaque(c) \/ DropTwin(c) \/ KeepNew(c)

Next ==
  \/ \E s \in mirror.ports, a \in Audio : Send(s, a)
  \/ \E s \in mirror.ports : Resend(s) \/ MirrorTx(s)
  \/ Close
  \/ Dedupe

Spec == Init /\ [][Next]_vars

-------------------------------------------------------------------------------
BodyType ==
  [seq : 0 .. SEQ_MODULUS - 1, audio : Audio, len : Nat] \cup {NoBody}

TypeOK ==
  /\ mirror \in Mirrors
  /\ closed \in BOOLEAN
  /\ \A s \in Sources : sent[s] \in Seq(Audio) /\ owed[s] \in Seq(NumberRange)
  /\ pos \in 0..Len(capture)
  /\ prev \in [Sources -> BodyType]
  /\ Len(kept) <= pos

\* Every frame of which the capture holds a copy survives the dedup: what
\* dedupe_mirror_twins promises as "It cannot drop a distinct frame".
NoFrameVanishes ==
  \A i \in 1..pos : \E k \in 1..Len(kept) :
    kept[k].src = capture[i].src /\ kept[k].num = capture[i].num

\* Off a mirror that lags by less than a frame period and whose copies all have
\* their bytes, dedup gives back a capture of one direction: no frame twice, and
\* each source's frames in the order it sent them (dedupe_mirror_twins).
Tight == mirror.lag = 1 /\ ~mirror.opaque
Plain ==
  INSTANCE PlainCapture WITH
    FrameNumbers <- NumberRange,
    log <- IF Tight THEN [k \in 1..Len(kept) |-> <<kept[k].src, kept[k].num>>] ELSE <<>>
GivesBackPlainCapture == Plain!Spec
===============================================================================
