---------------------------- MODULE MCMirrorDedup ----------------------------
(***************************************************************************)
(* MirrorDedup with two sources, a 40-channel master and a 16-channel box. *)
(***************************************************************************)
EXTENDS MirrorDedup, TLC

CONSTANTS master, box, silence

MCSources == {master, box}
MCWidth == (master :> 40) @@ (box :> 16)

\* One that answers within the frame period, and one that does not and whose
\* copies may lack their payload.
MCTight == {[ports |-> MCSources, lag |-> 1, opaque |-> FALSE]}
MCMirrors == MCTight \cup {[ports |-> {box}, lag |-> 2, opaque |-> TRUE]}
==============================================================================
