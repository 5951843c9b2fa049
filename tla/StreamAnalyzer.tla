---------------------------- MODULE StreamAnalyzer ----------------------------
(***************************************************************************)
(* analyze_stream of reac/analyzer.py over the capture of one REAC stream. *)
(*                                                                         *)
(* A source numbers its frames 0, 1, 2, ... past FirstFrame and puts only  *)
(* the 16-bit counter of that number on the wire.  The path to the capture *)
(* point may lose, repeat and reorder them.  The analyzer sees the         *)
(* counters in arrival order; "frames" keeps the true numbers so that the  *)
(* report can be compared with what really happened.                       *)
(***************************************************************************)
EXTENDS StreamReport

CONSTANTS
  FirstFrame,    \* number of the first frame the source emits
  MaxGap,        \* most numbers a captured frame is ahead of the one before
  MaxLate,       \* most numbers it is behind the one before
  MaxEmitted,    \* bound: frames the source emits
  MaxCaptured    \* bound: frames in the capture

ASSUME StreamAssumption ==
  /\ FirstFrame \in Nat
  /\ MaxGap \in Nat /\ MaxLate \in Nat
  /\ MaxEmitted \in Nat /\ MaxCaptured \in Nat

VARIABLES
  emitted,       \* number of frames emitted so far
  frames,        \* the capture: true numbers, in arrival order
  phase,         \* capturing -> unwrapping -> done
  ext,           \* analyzer: running unwrapped counter
  prev16,        \* analyzer: counter of the frame before
  extended,      \* analyzer: unwrapped counter per frame
  report         \* analyzer: the StreamReport

vars == <<emitted, frames, phase, ext, prev16, extended, report>>

Init ==
  /\ emitted = 0
  /\ frames = <<>>
  /\ phase = "capturing"
  /\ ext = 0 /\ prev16 = 0
  /\ extended = <<>>
  /\ report = NoReport

Emit ==
  /\ phase = "capturing"
  /\ emitted < MaxEmitted
  /\ emitted' = emitted + 1
  /\ UNCHANGED <<frames, phase, ext, prev16, extended, report>>

\* Any emitted frame may arrive, late or again; one that never does is lost.
Capture(n) ==
  /\ phase = "capturing"
  /\ Len(frames) < MaxCaptured
  /\ frames # <<>> => n - frames[Len(frames)] \in -MaxLate .. MaxGap
  /\ frames' = Append(frames, n)
  /\ UNCHANGED <<emitted, phase, ext, prev16, extended, report>>

AnalyzeEmpty ==
  /\ phase = "capturing" /\ frames = <<>>
  /\ phase' = "done"
  /\ report' = NoReport
  /\ UNCHANGED <<emitted, frames, ext, prev16, extended>>

\* The first frame seeds the unwrapped space with its own counter.
StartUnwrap ==
  /\ phase = "capturing" /\ frames # <<>>
  /\ phase' = "unwrapping"
  /\ prev16' = Seq16(frames[1])
  /\ ext' = Seq16(frames[1])
  /\ extended' = <<Seq16(frames[1])>>
  /\ UNCHANGED <<emitted, frames, report>>

UnwrapNext ==
  /\ phase = "unwrapping" /\ Len(extended) < Len(frames)
  /\ LET seq == Seq16(frames[Len(extended) + 1])
     IN  /\ ext' = ext + SignedDelta(seq, prev16)
         /\ prev16' = seq
  /\ extended' = Append(extended, ext')
  /\ UNCHANGED <<emitted, frames, phase, report>>

MakeReport ==
  /\ phase = "unwrapping" /\ Len(extended) = Len(frames)
  /\ phase' = "done"
  /\ report' = ReportOf(extended)
  /\ UNCHANGED <<emitted, frames, ext, prev16, extended>>

Next ==
  \/ Emit
  \/ \E n \in FirstFrame .. FirstFrame + emitted - 1 : Capture(n)
  \/ AnalyzeEmpty
  \/ StartUnwrap
  \/ UnwrapNext
  \/ MakeReport

Spec == Init /\ [][Next]_vars

-------------------------------------------------------------------------------
\* The path keeps successive captured frames within half the counter range.
PathWithinHalf == MaxGap < HALF /\ MaxLate <= HALF

-------------------------------------------------------------------------------
TypeOK ==
  /\ emitted \in 0..MaxEmitted
  /\ frames \in Seq(Nat)
  /\ phase \in {"capturing", "unwrapping", "done"}
  /\ ext \in Int
  /\ prev16 \in 0 .. SEQ_MODULUS - 1
  /\ extended \in Seq(Int)
  /\ report \in [lost : Nat, reordered : Nat, duplicated : Nat]

\* The report of a finished analysis is the truth about the capture: frames
\* missing between the lowest and the highest seen, arrivals before their
\* predecessor and repeated arrivals are each counted, and neither a counter
\* wrap nor a late frame is counted as anything else (analyze_stream).
ReportIsTruth == phase = "done" => report = Truth(frames)

-------------------------------------------------------------------------------
(* The inductive invariant behind ReportIsTruth.                           *)

\* What the unwrapped space is displaced by: whole turns of the counter.
Shift == frames[1] - Seq16(frames[1])

StepsWithinPath ==
  \A i \in 2..Len(frames) : frames[i] - frames[i - 1] \in -MaxLate .. MaxGap

UnwrappedIsShifted ==
  /\ phase = "capturing" => extended = <<>>
  /\ phase = "unwrapping" =>
       /\ Len(extended) \in 1..Len(frames)
       /\ \A i \in 1..Len(extended) : extended[i] = frames[i] - Shift
       /\ ext = extended[Len(extended)]
       /\ prev16 = Seq16(frames[Len(extended)])

IInv ==
  /\ TypeOK
  /\ StepsWithinPath
  /\ UnwrappedIsShifted
  /\ ReportIsTruth
===============================================================================
