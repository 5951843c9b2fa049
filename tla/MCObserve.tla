------------------------------- MODULE MCObserve -------------------------------
(***************************************************************************)
(* Observe with one trunk interface: an untagged master on the 0x8819      *)
(* socket, a tagged box on the 0x8100 socket.                              *)
(***************************************************************************)
EXTENDS Observe, TLC

CONSTANTS master, box, plain, tagged

MCStreams == {master, box}
MCSocks == {plain, tagged}
MCSockOf == (master :> plain) @@ (box :> tagged)
================================================================================
