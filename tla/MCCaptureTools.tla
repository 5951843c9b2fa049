---------------------------- MODULE MCCaptureTools ----------------------------
EXTENDS CaptureTools

Pkt(src, words, seq, type, op, cut, size, sysex) ==
  [src |-> src, words |-> words, seq |-> seq, type |-> type, op |-> op,
   cut |-> cut, size |-> size, sysex |-> sysex]

Sysex(cmd, six, ok) == [tag |-> "0500", cmd |-> cmd, six |-> six, ok |-> ok]

Untagged == <<"8819", "data", "data">>
OneTag(tpid) == <<tpid, "8819", "data">>
TwoTags == <<"8100", "8100", "8819">>
Foreign == <<"0800", "data", "data">>

Poll == Pkt("desk", Untagged, 1, "cdea", "0403", "none", 1492, <<Sysex("rq1", TRUE, TRUE)>>)
Audio == Pkt("box", OneTag("8100"), 2, "0000", "", "none", 340, <<>>)

\* What a tool may go wrong on: frames behind each kind of tag, a foreign one,
\* and each kind of counterexample.
Traffic ==
  {Poll, Audio,
   Pkt("desk", OneTag("8100"), 3, "cdea", "0403", "none", 1492, <<Sysex("rq1", FALSE, TRUE)>>),
   Pkt("desk", TwoTags, 4, "cfea", "", "none", 1492, <<>>),
   Pkt("desk", OneTag("88a8"), 4, "0000", "", "none", 1492, <<>>),
   Pkt("box", Untagged, 5, "cdea", "0103-000d", "none", 340,
       <<Sysex("dt1", FALSE, FALSE), [Sysex("other", FALSE, TRUE) EXCEPT !.tag = "0501"]>>),
   Pkt("pc", Foreign, 0, "", "", "none", 340, <<>>)}

\* Every kind of control block and type word, whole and cut short.
Kinds ==
  {Pkt("desk", Untagged, 1, "cdea", op, "none", 1492, <<Sysex("other", FALSE, TRUE)>>) :
     op \in {"0103-0019", "0103-0001", "0100", "0101", "0102", "0103", "01", "0200"}}
  \cup {Pkt("desk", Untagged, 1, t[1], "", t[2], 1492, <<>>) :
          t \in {<<"0000", "block">>, <<"cfea", "op">>, <<"cfea", "none">>, <<"1234", "none">>}}

MCPackets == <<Traffic, {Poll, Audio} \cup Kinds>>
MCMaxPackets == <<2, 1>>
===============================================================================
