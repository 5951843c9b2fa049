------------------------------ MODULE DualPoint ------------------------------
(***************************************************************************)
(* capture-dualpoint.sh takes one stream at the console's end and at the   *)
(* box's end of a link; reac/diff.py compares the two captures.            *)
(*                                                                         *)
(* The two captures start and stop on their own, each is read while its    *)
(* tcpdump still ends, the link loses, repeats and delays frames, and      *)
(* frames of another stream may turn up at the box.                        *)
(***************************************************************************)
EXTENDS TcpdumpText, FiniteSets

CONSTANTS
  Setups,          \* what may go wrong: skew (captures start and stop apart),
                   \* cut (a text ends within a packet), repeat, reorder,
                   \* foreign (another stream), and the vlan of the stream's tag
  FirstFrame,      \* number of the first frame
  MaxSent,         \* bound: frames sent
  MaxRepeated,     \* bound: frames repeated
  MaxForeign       \* bound: frames of the other stream

ASSUME DualAssumption ==
  /\ Setups \subseteq [skew : BOOLEAN, cut : BOOLEAN, repeat : BOOLEAN,
                       reorder : BOOLEAN, foreign : BOOLEAN, vlan : Nat]
  /\ FirstFrame \in Nat /\ MaxSent \in Nat /\ MaxRepeated \in Nat /\ MaxForeign \in Nat

VARIABLES
  setup,
  sent,            \* frames the console sent
  link,            \* numbers of the frames on the link, oldest first
  lost,            \* numbers of those the link lost, or lost a copy of
  repeated,        \* copies the link made
  strange,         \* frames of the other stream at the box
  tap,             \* per point, "before", "open" or "closed"
  packets,         \* per point, the packets captured
  text             \* per point, the text fetched

vars == <<setup, sent, link, lost, repeated, strange, tap, packets, text>>

Points == {"console", "box"}

Packet(src, n) == [src |-> src, vlan |-> setup.vlan, num |-> n, seq |-> Seq16(n)]

Init ==
  /\ setup \in Setups
  /\ sent = 0 /\ link = <<>> /\ lost = {} /\ repeated = 0 /\ strange = 0
  /\ tap = [p \in Points |-> "before"]
  /\ packets = [p \in Points |-> <<>>]
  /\ text = [p \in Points |-> <<>>]

\* A frame passes a point, which captures it if its tcpdump runs.
Passes(p, frame) ==
  packets' = IF tap[p] = "open" THEN [packets EXCEPT ![p] = Append(@, frame)] ELSE packets

\* Captures taken together start before the stream and stop after it.
Together == ~setup.skew
Quiet == link = <<>>

Send ==
  /\ sent < MaxSent
  /\ Together => tap["console"] = "open" /\ tap["box"] = "open"
  /\ sent' = sent + 1
  /\ link' = Append(link, FirstFrame + sent)
  /\ Passes("console", Packet("stream", FirstFrame + sent))
  /\ UNCHANGED <<setup, lost, repeated, strange, tap, text>>

Lose(i) ==
  /\ link' = RemoveAt(link, i)
  /\ lost' = lost \cup {link[i]}
  /\ UNCHANGED <<setup, sent, repeated, strange, tap, packets, text>>

\* A copy comes after whatever is on the link.
Repeat(i) ==
  /\ setup.repeat /\ repeated < MaxRepeated
  /\ repeated' = repeated + 1
  /\ link' = Append(link, link[i])
  /\ UNCHANGED <<setup, sent, lost, strange, tap, packets, text>>

Deliver(i) ==
  /\ i = 1 \/ setup.reorder
  /\ link' = RemoveAt(link, i)
  /\ Passes("box", Packet("stream", link[i]))
  /\ UNCHANGED <<setup, sent, lost, repeated, strange, tap, text>>

Foreign ==
  /\ setup.foreign /\ strange < MaxForeign
  /\ strange' = strange + 1
  /\ \E n \in FirstFrame .. FirstFrame + SEQ_MODULUS - 1 : Passes("box", Packet("other", n))
  /\ UNCHANGED <<setup, sent, link, lost, repeated, tap, text>>

\* ssh starts tcpdump at the point.
Start(p) ==
  /\ tap[p] = "before"
  /\ tap' = [tap EXCEPT ![p] = "open"]
  /\ UNCHANGED <<setup, sent, link, lost, repeated, strange, packets, text>>

\* kill $P; cat: the text is fetched whole, or before tcpdump has written its last.
Stop(p) ==
  /\ tap[p] = "open"
  /\ Together => Quiet /\ \A q \in Points : tap[q] # "before"
  /\ tap' = [tap EXCEPT ![p] = "closed"]
  /\ \E t \in {TextOf(packets[p])}
              \cup (IF setup.cut /\ packets[p] # <<>> THEN CutsOf(packets[p]) ELSE {}) :
       text' = [text EXCEPT ![p] = t]
  /\ UNCHANGED <<setup, sent, link, lost, repeated, strange, packets>>

Next ==
  \/ Send
  \/ \E i \in DOMAIN link : Lose(i) \/ Repeat(i) \/ Deliver(i)
  \/ Foreign
  \/ \E p \in Points : Start(p) \/ Stop(p)

Spec == Init /\ [][Next]_vars

-------------------------------------------------------------------------------
\* diff_streams over sets of frames: their counters are all it compares.
Counters(frames) == {f.seq : f \in frames}

\* Mutant: the captures change places.
DiffSwapped(sender, receiver) ==
  [lost_in_transit |-> Counters(receiver) \ Counters(sender),
   unexpected_at_receiver |-> Counters(sender) \ Counters(receiver)]

diff_streams(sender, receiver) ==
  [lost_in_transit |-> Counters(sender) \ Counters(receiver),
   unexpected_at_receiver |-> Counters(receiver) \ Counters(sender)]

\* Mutant: as many received as sent.
LinkCleanByCount(sender, receiver) ==
  Cardinality(Counters(sender)) = Cardinality(Counters(receiver))

LinkClean(sender, receiver) ==
  LET r == diff_streams(sender, receiver)
  IN  r.lost_in_transit = {} /\ r.unexpected_at_receiver = {}

\* main(): the two texts are parsed once both are fetched.
Done == \A p \in Points : tap[p] = "closed"
Frames(p) == ToSet(parse_tcpdump_text(text[p]))
Report == diff_streams(Frames("console"), Frames("box"))

-------------------------------------------------------------------------------
TypeOK ==
  /\ setup \in Setups
  /\ sent \in 0..MaxSent /\ repeated \in 0..MaxRepeated /\ strange \in 0..MaxForeign
  /\ link \in Seq(FirstFrame .. FirstFrame + MaxSent - 1)
  /\ tap \in [Points -> {"before", "open", "closed"}]
  /\ \A p \in Points : \A f \in Frames(p) : f.seq \in 0 .. SEQ_MODULUS - 1

Captured(p) == {packets[p][i].num : i \in {j \in DOMAIN packets[p] : packets[p][j].src = "stream"}}
Whole == ~setup.cut
UnderATurn == sent <= SEQ_MODULUS
StreamHides == "stream" \in HidingSources \/ setup.vlan \in HidingVlans \ {NoVlan}
StreamAlone == ~setup.foreign /\ ~StreamHides

\* parse_tcpdump_text gives back every packet the point captured, with its
\* source, its tag and, unless an 88 19 hides the ethertype (parser.py:40), its
\* counter; in a text cut short only the last one may be missing, or be there
\* with another counter.
ParsedAsWritten ==
  \A p \in Points : tap[p] = "closed" =>
    LET frames == parse_tcpdump_text(text[p])
        written == packets[p]
        sure == IF Whole THEN Len(written) ELSE Len(written) - 1
    IN  /\ Len(frames) \in sure..Len(written)
        /\ \A i \in DOMAIN frames :
             /\ frames[i].src = written[i].src /\ frames[i].vlan = written[i].vlan
             /\ i <= sure /\ ~Hides(written[i]) => frames[i].seq = written[i].seq

\* A frame captured at the console that the link lost, all of it or every copy
\* the box would have captured, is reported lost, late and repeated frames and
\* captures that start and stop apart or not; with captures taken together
\* nothing else is.
LossIsReported ==
  Done /\ Whole /\ UnderATurn /\ StreamAlone =>
    LET really == {Seq16(n) : n \in (Captured("console") \cap lost) \ Captured("box")}
    IN  /\ really \subseteq Report.lost_in_transit
        /\ Together => Report.lost_in_transit = really /\ Report.unexpected_at_receiver = {}

\* "link clean: every sent frame arrived, none foreign" (diff.py) is said only
\* if each frame captured at the console was captured at the box.
CleanIsClean ==
  Done /\ Whole /\ UnderATurn /\ StreamAlone /\ LinkClean(Frames("console"), Frames("box")) =>
    Captured("console") = Captured("box")
=============================================================================
