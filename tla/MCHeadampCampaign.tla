-------------------------- MODULE MCHeadampCampaign --------------------------
(* Plans with the shape of DEFAULT_PLAN.  The sweep's captures hold two or   *)
(* three frames, so that most can overrule a late one, one of another window *)
(* or the first seen; the short ones share file names and run in turn.  The  *)
(* ring of the channel map is 1, 2, wrap, two of them at a time; the announce*)
(* moves a byte of its own now and then.                                     *)
EXTENDS HeadampCampaign

Base == [control |-> "none", channel |-> 0, value |-> 0]
Gain(c, dB) == [control |-> "gain", channel |-> c, value |-> dB]
Phantom(c, on) == [control |-> "48v", channel |-> c, value |-> on]

Sweep == <<Base, Gain(1, 10), Gain(1, 20)>>
Short == {<<Base, Gain(2, 0)>>, <<Base, Gain(1, 10)>>, <<Base, Phantom(2, 1)>>}

MCPlans == {Sweep} \cup Short
MCAlone == {Sweep}
MCMaxFrames == [p \in MCPlans |-> IF p = Sweep THEN <<2, 2, 3>> ELSE <<1, 1>>]

MCWindows == {<<1, 2>>, <<254, 1>>}
MCOtherBlocks == {[j \in Block |-> IF j = 1 THEN b ELSE 0] : b \in {0, 1}}
=============================================================================
