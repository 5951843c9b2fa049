-------------------------------- MODULE Picking --------------------------------
(***************************************************************************)
(* What a loop leaves that goes through a list and appends some of its     *)
(* members to another one: Python's filters, the grouping of frames by     *)
(* stream, the twins' removal.                                             *)
(***************************************************************************)
EXTENDS Integers, Sequences

\* The members of fs at these places, in their order.
Picked(fs, places) ==
  LET upto[n \in 0..Len(fs)] ==
        IF n = 0 THEN <<>>
        ELSE IF n \in places THEN Append(upto[n - 1], fs[n])
        ELSE upto[n - 1]
  IN  upto[Len(fs)]
================================================================================
