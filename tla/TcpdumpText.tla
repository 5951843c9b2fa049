----------------------------- MODULE TcpdumpText -----------------------------
(***************************************************************************)
(* The text "tcpdump -e -xx" prints of REAC packets, and reac/parser.py's  *)
(* reading of it.  A packet is a header line and lines of words; a text    *)
(* taken from under a running tcpdump ends anywhere in a line.             *)
(***************************************************************************)
EXTENDS SeqCounter, Sequences, SequencesExt

CONSTANTS
  HidingSources,   \* addresses that hold the bytes of the ethertype, 88 19
  HidingVlans      \* VLANs whose tag does

\* A word is two bytes: its place in the frame, or that it is 88 19, and its
\* value read as a counter; 0 is that of any word that is always the same.
Word(place, value) == [place |-> place, value |-> value]
BROADCAST == SEQ_MODULUS - 1
Dst == Word("dst", BROADCAST)
Ethertype == Word("8819", 0)
Src(p) == IF p.src \in HidingSources THEN Ethertype ELSE Word("src", 0)
Tag(p) == IF p.vlan \in HidingVlans THEN Ethertype ELSE Word("tag", 0)
Audio == Word("audio", 0)
Half == Word("half", 0)      \* a word cut short

HeaderLine(p) == [kind |-> "header", src |-> p.src, vlan |-> p.vlan, words |-> <<>>]
HexLine(words) == [kind |-> "hex", src |-> "", vlan |-> 0, words |-> words]
CutHeader == [kind |-> "cut", src |-> "", vlan |-> 0, words |-> <<>>]

NoVlan == 0

\* An 88 19 comes before the ethertype.
Hides(p) == p.src \in HidingSources \/ p.vlan \in HidingVlans \ {NoVlan}

\* The lines of one packet: sixteen bytes a line, the ethertype in the first of
\* an untagged frame and in the second of a tagged one.
PacketLines(p) ==
  IF p.vlan = NoVlan
    THEN <<HeaderLine(p), HexLine(<<Dst, Src(p), Ethertype, Word("seq", p.seq)>>), HexLine(<<Audio>>)>>
    ELSE <<HeaderLine(p), HexLine(<<Dst, Src(p), Tag(p)>>), HexLine(<<Ethertype, Word("seq", p.seq)>>)>>

TextOf(packets) == FlattenSeq([i \in DOMAIN packets |-> PacketLines(packets[i])])

\* What is left of a line cut after some words, within the next one or not.
CutLine(line, words, rest) ==
  IF line.kind = "hex" THEN HexLine(SubSeq(line.words, 1, words) \o rest) ELSE CutHeader

\* Every way of cutting a text within its last packet.
CutsOf(packets) ==
  LET whole == TextOf(Front(packets))
      lines == PacketLines(Last(packets))
  IN  UNION {{whole \o SubSeq(lines, 1, k - 1) \o <<CutLine(lines[k], w, rest)>> :
                w \in 0..Len(lines[k].words), rest \in {<<>>, <<Half>>}} : k \in DOMAIN lines}

-------------------------------------------------------------------------------
\* What follows the first 88 19, wherever it is; all of it if there is none.
PayloadAfter8819(words) ==
  LET at == {i \in DOMAIN words : words[i] = Ethertype}
  IN IF at = {} THEN words ELSE SubSeq(words, Min(at) + 1, Len(words))

NoHeader == [kind |-> "none", src |-> "", vlan |-> 0, words |-> <<>>]
ParserStart == [hdr |-> NoHeader, hexparts |-> <<>>, frames |-> <<>>]

\* flush(): a header and some hex make a frame, with counter 0 if the payload
\* is shorter than a counter.
Flush(st) ==
  LET payload == PayloadAfter8819(st.hexparts)
      short == payload = <<>> \/ Head(payload) = Half
  IN  IF st.hdr = NoHeader \/ st.hexparts = <<>>
        THEN st.frames
        ELSE Append(st.frames, [src |-> st.hdr.src, vlan |-> st.hdr.vlan,
                                seq |-> IF short THEN 0 ELSE Head(payload).value])

\* Mutant: a header leaves the hex of the one before.
ParseLineKeepHex(st, line) ==
  CASE line.kind = "header" -> [st EXCEPT !.frames = Flush(st), !.hdr = line]
    [] line.kind = "hex" /\ st.hdr # NoHeader -> [st EXCEPT !.hexparts = @ \o line.words]
    [] OTHER -> st

\* One turn of the loop over the lines.
ParseLine(st, line) ==
  CASE line.kind = "header" -> [hdr |-> line, hexparts |-> <<>>, frames |-> Flush(st)]
    [] line.kind = "hex" /\ st.hdr # NoHeader -> [st EXCEPT !.hexparts = @ \o line.words]
    [] OTHER -> st

parse_tcpdump_text(text) == Flush(FoldLeft(ParseLine, ParserStart, text))
=============================================================================
