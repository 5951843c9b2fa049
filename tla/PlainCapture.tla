----------------------------- MODULE PlainCapture -----------------------------
(***************************************************************************)
(* What a capture would hold had its port been mirrored in one direction   *)
(* only: every frame at most once, the frames of each source in the order  *)
(* the source sent them.  dedupe_mirror_twins promises to give this back   *)
(* from a capture that holds both mirror copies.                           *)
(***************************************************************************)
EXTENDS Integers, Sequences

CONSTANTS Sources, FrameNumbers

VARIABLE log                   \* <<source, number>> pairs, in arrival order

NewerThanAll(s, n) == \A i \in 1..Len(log) : log[i][1] = s => log[i][2] < n

Init == log = <<>>

Arrive(s, n) ==
  /\ NewerThanAll(s, n)
  /\ log' = Append(log, <<s, n>>)

Next == \E s \in Sources, n \in FrameNumbers : Arrive(s, n)

Spec == Init /\ [][Next]_log
===============================================================================
