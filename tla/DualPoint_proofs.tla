--------------------------- MODULE DualPoint_proofs ---------------------------
(***************************************************************************)
(* The dual-point comparison, for every size of the counter and however    *)
(* many frames: what diff_streams of reac/diff.py tells of captures it     *)
(* only knows by their counters, that reac/parser.py reads back what       *)
(* tcpdump wrote of every packet, and what the report then says of the     *)
(* link.                                                                   *)
(***************************************************************************)
EXTENDS DualPoint, Lemmas

\* The frames with these numbers, as a capture has them.
FramesOf(numbers) == {[seq |-> Seq16(n)] : n \in numbers}

\* What an injection says of two sets' images it says of the sets.
LEMMA ImagesDiffer ==
  ASSUME NEW S, NEW A \in SUBSET S, NEW B \in SUBSET S,
         \A a, b \in S : Seq16(a) = Seq16(b) => a = b
  PROVE  {Seq16(n) : n \in A} \ {Seq16(n) : n \in B} = {Seq16(n) : n \in A \ B}
<1>1. ASSUME NEW a \in A, Seq16(a) \notin {Seq16(n) : n \in B}
      PROVE  a \in A \ B
  BY <1>1
<1>2. ASSUME NEW a \in A \ B
      PROVE  Seq16(a) \notin {Seq16(n) : n \in B}
  BY Zenon
<1> QED
  BY <1>1, <1>2, Zenon

\* The counters of the frames with some numbers.
LEMMA CountersOfFrames ==
  ASSUME NEW S
  PROVE  Counters(FramesOf(S)) = {Seq16(n) : n \in S}
<1>1. \A f \in FramesOf(S) : \E n \in S : f.seq = Seq16(n)
  BY DEF FramesOf
<1>2. \A n \in S : [seq |-> Seq16(n)] \in FramesOf(S) /\ [seq |-> Seq16(n)].seq = Seq16(n)
  BY DEF FramesOf
<1> QED
  BY <1>1, <1>2, Zenon DEF Counters

\* As long as the frames of both captures lie within one turn of the counter,
\* diff_streams reports as lost the counters of the frames only the sender's
\* capture has, as foreign those only the receiver's has, and no other.
THEOREM DiffIsExactWithinATurn ==
  ASSUME NEW lo \in Int,
         NEW A \in SUBSET (lo .. lo + SEQ_MODULUS - 1),
         NEW B \in SUBSET (lo .. lo + SEQ_MODULUS - 1)
  PROVE  diff_streams(FramesOf(A), FramesOf(B)) =
           [lost_in_transit |-> {Seq16(n) : n \in A \ B},
            unexpected_at_receiver |-> {Seq16(n) : n \in B \ A}]
<1>1. Counters(FramesOf(A)) = {Seq16(n) : n \in A}
  BY CountersOfFrames
<1>2. Counters(FramesOf(B)) = {Seq16(n) : n \in B}
  BY CountersOfFrames
<1>3. ASSUME NEW a \in lo .. lo + SEQ_MODULUS - 1, NEW b \in lo .. lo + SEQ_MODULUS - 1,
             Seq16(a) = Seq16(b)
      PROVE  a = b
  <2>1. SEQ_MODULUS \in Nat \ {0}
    BY HalfAssumption DEF SEQ_MODULUS
  <2>2. a \in Int /\ b \in Int /\ -SEQ_MODULUS < a - b /\ a - b < SEQ_MODULUS
    BY <2>1
  <2> QED
    BY <1>3, <2>1, <2>2, SameRemainder DEF Seq16
<1>4. {Seq16(n) : n \in A} \ {Seq16(n) : n \in B} = {Seq16(n) : n \in A \ B}
  BY <1>3, ImagesDiffer
<1>5. {Seq16(n) : n \in B} \ {Seq16(n) : n \in A} = {Seq16(n) : n \in B \ A}
  BY <1>3, ImagesDiffer
<1> QED
  BY <1>1, <1>2, <1>4, <1>5, Zenon DEF diff_streams

\* As long as the frames of both captures lie within one turn of the counter,
\* the link is said to be clean exactly if the receiver's capture has the frames
\* the sender's has and no other.
THEOREM CleanWithinATurn ==
  ASSUME NEW lo \in Int,
         NEW A \in SUBSET (lo .. lo + SEQ_MODULUS - 1),
         NEW B \in SUBSET (lo .. lo + SEQ_MODULUS - 1)
  PROVE  LinkClean(FramesOf(A), FramesOf(B)) <=> A = B
<1> DEFINE r == diff_streams(FramesOf(A), FramesOf(B))
<1>1. LinkClean(FramesOf(A), FramesOf(B)) <=> r.lost_in_transit = {} /\ r.unexpected_at_receiver = {}
  BY DEF LinkClean
<1>2. r = [lost_in_transit |-> {Seq16(n) : n \in A \ B},
           unexpected_at_receiver |-> {Seq16(n) : n \in B \ A}]
  BY DiffIsExactWithinATurn
<1> HIDE DEF r
<1>3. r.lost_in_transit = {Seq16(n) : n \in A \ B} /\ r.unexpected_at_receiver = {Seq16(n) : n \in B \ A}
  BY <1>2
<1>4. ASSUME NEW S PROVE {Seq16(n) : n \in S} = {} <=> S = {}
  OBVIOUS
<1>5. A \ B = {} /\ B \ A = {} <=> A = B
  BY Zenon
<1> QED
  BY <1>1, <1>3, <1>4, <1>5

-------------------------------------------------------------------------------
(* The text of packets and the frames parsed from it.                      *)

Counter == 0 .. SEQ_MODULUS - 1
Names == {"stream", "other"}
PacketSet == [src : Names, vlan : Nat, num : Nat, seq : Counter]
WordSet == [place : {"dst", "src", "tag", "8819", "audio", "half", "seq"}, value : Counter]
LineSet == [kind : {"header", "hex", "cut", "none"}, src : Names \cup {""}, vlan : Nat,
            words : Seq(WordSet)]
FrameSet == [src : Names \cup {""}, vlan : Nat, seq : Counter]
StateSet == [hdr : LineSet, hexparts : Seq(WordSet), frames : Seq(FrameSet)]

LEMMA WordType ==
  /\ SEQ_MODULUS \in Nat \ {0} /\ 0 \in Counter
  /\ {Dst, Word("src", 0), Word("tag", 0), Ethertype, Audio, Half} \subseteq WordSet
  /\ \A c \in Counter : Word("seq", c) \in WordSet
<1>1. SEQ_MODULUS \in Nat \ {0}
  BY HalfAssumption DEF SEQ_MODULUS
<1>2. 0 \in Counter /\ BROADCAST \in Counter
  BY <1>1 DEF Counter, BROADCAST
<1> QED
  BY <1>1, <1>2 DEF Dst, Ethertype, Audio, Half, Word, WordSet

LEMMA PayloadType ==
  ASSUME NEW words \in Seq(WordSet)
  PROVE  PayloadAfter8819(words) \in Seq(WordSet)
<1> DEFINE at == {i \in DOMAIN words : words[i] = Ethertype}
<1>1. Len(words) \in Nat /\ DOMAIN words = 1 .. Len(words)
  OBVIOUS
<1>2. CASE at = {}
  BY <1>2 DEF PayloadAfter8819
<1>3. CASE at # {}
  <2>1. at \in SUBSET Int /\ IsFiniteSet(at)
    <3>1. IsFiniteSet(1 .. Len(words)) /\ at \subseteq 1 .. Len(words)
      BY <1>1, FS_Interval
    <3> HIDE DEF at
    <3>2. IsFiniteSet(at)
      BY <3>1, FS_Subset
    <3>3. at \subseteq Int
      BY <3>1
    <3> QED
      BY <3>2, <3>3
  <2>2. Min(at) \in at
    <3> HIDE DEF at
    <3> QED
      BY <1>3, <2>1, MaxMinType
  <2>3. PICK m \in 1 .. Len(words) : m = Min(at)
    BY <1>1, <2>2
  <2>4. PayloadAfter8819(words) = SubSeq(words, m + 1, Len(words))
    BY <1>3, <2>3 DEF PayloadAfter8819
  <2>5. \A i \in m + 1 .. Len(words) : words[i] \in WordSet
    BY <1>1, <2>3
  <2>6. m + 1 \in Int /\ Len(words) \in Int
    BY <1>1
  <2> QED
    BY <2>4, <2>5, <2>6, SubSeqProperties
<1> QED
  BY <1>2, <1>3

\* The payload begins after the first ethertype.
LEMMA PayloadHead ==
  ASSUME NEW words \in Seq(WordSet), NEW k \in 1 .. Len(words) - 1,
         words[k] = Ethertype, \A i \in 1 .. k - 1 : words[i] # Ethertype
  PROVE  PayloadAfter8819(words) # <<>> /\ Head(PayloadAfter8819(words)) = words[k + 1]
<1> DEFINE at == {i \in DOMAIN words : words[i] = Ethertype}
<1>1. PICK n \in Nat : n = Len(words) /\ DOMAIN words = 1 .. n /\ k \in 1 .. n - 1
  OBVIOUS
<1>2. k \in at /\ at \subseteq Int /\ \A i \in at : k <= i
  BY <1>1
<1>3. IsFiniteSet(at)
  <2>1. IsFiniteSet(1 .. n) /\ at \subseteq 1 .. n
    BY <1>1, FS_Interval
  <2> HIDE DEF at
  <2> QED
    BY <2>1, FS_Subset
<1>4. Min(at) = k
  <2> HIDE DEF at
  <2>1. Min(at) \in at /\ Min(at) <= k
    BY <1>2, <1>3, MaxMinType
  <2>2. PICK m \in Int : m = Min(at) /\ m <= k /\ k <= m /\ k \in Int
    BY <1>2, <2>1
  <2> QED
    BY <2>2
<1>5. PayloadAfter8819(words) = SubSeq(words, k + 1, n)
  BY <1>1, <1>2, <1>4 DEF PayloadAfter8819
<1>6. Len(SubSeq(words, k + 1, n)) # 0 /\ SubSeq(words, k + 1, n)[1] = words[k + 1]
      /\ SubSeq(words, k + 1, n) \in Seq(WordSet)
  <2>1. \A i \in k + 1 .. n : words[i] \in WordSet
    BY <1>1
  <2>2. k + 1 \in Int /\ n \in Int /\ k + 1 <= n /\ n - (k + 1) + 1 # 0
        /\ 1 \in 1 .. n - (k + 1) + 1 /\ (k + 1) + 1 - 1 = k + 1
    BY <1>1
  <2> QED
    BY <2>1, <2>2, SubSeqProperties
<1> HIDE DEF at
<1> QED
  BY <1>5, <1>6, EmptySeq

\* A header and some hex make a frame of that header.
LEMMA FlushType ==
  ASSUME NEW st \in StateSet
  PROVE  /\ Flush(st) \in Seq(FrameSet)
         /\ Flush(st) # st.frames =>
              \E c \in Counter : Flush(st) = Append(st.frames, [src |-> st.hdr.src, vlan |-> st.hdr.vlan, seq |-> c])
<1> DEFINE payload == PayloadAfter8819(st.hexparts)
           short == payload = <<>> \/ Head(payload) = Half
           c == IF short THEN 0 ELSE Head(payload).value
<1>1. st.frames \in Seq(FrameSet) /\ st.hdr \in LineSet /\ st.hexparts \in Seq(WordSet)
  BY DEF StateSet
<1>2. c \in Counter
  <2>1. payload \in Seq(WordSet)
    BY <1>1, PayloadType
  <2> HIDE DEF payload
  <2>2. CASE short
    BY <2>2, WordType
  <2>3. CASE ~ short
    <3>1. Head(payload) \in WordSet
      BY <2>1, <2>3
    <3> QED
      BY <2>3, <3>1 DEF WordSet
  <2> QED
    BY <2>2, <2>3
<1>3. Flush(st) = IF st.hdr = NoHeader \/ st.hexparts = <<>> THEN st.frames
                  ELSE Append(st.frames, [src |-> st.hdr.src, vlan |-> st.hdr.vlan, seq |-> c])
  BY DEF Flush
<1> HIDE DEF c
<1>4. [src |-> st.hdr.src, vlan |-> st.hdr.vlan, seq |-> c] \in FrameSet
  BY <1>1, <1>2 DEF LineSet, FrameSet
<1> QED
  BY <1>1, <1>2, <1>3, <1>4

LEMMA ParseLineType ==
  ASSUME NEW st \in StateSet, NEW line \in LineSet
  PROVE  ParseLine(st, line) \in StateSet
<1>1. CASE line.kind = "header"
  <2>1. ParseLine(st, line) = [hdr |-> line, hexparts |-> <<>>, frames |-> Flush(st)]
    BY <1>1 DEF ParseLine
  <2> QED
    BY <2>1, FlushType DEF StateSet
<1>2. CASE line.kind # "header" /\ (line.kind = "hex" /\ st.hdr # NoHeader)
  <2>1. ParseLine(st, line) = [st EXCEPT !.hexparts = @ \o line.words]
    BY <1>2 DEF ParseLine
  <2>2. line.words \in Seq(WordSet) /\ st.hexparts \in Seq(WordSet)
    BY DEF LineSet, StateSet
  <2>3. st.hexparts \o line.words \in Seq(WordSet)
    BY <2>2, ConcatProperties
  <2> QED
    BY <2>1, <2>3 DEF StateSet
<1>3. CASE line.kind # "header" /\ ~ (line.kind = "hex" /\ st.hdr # NoHeader)
  BY <1>3 DEF ParseLine
<1> QED
  BY <1>1, <1>2, <1>3

-------------------------------------------------------------------------------
(* The loop over the lines.                                                *)

St(input) == FoldLeft(ParseLine, ParserStart, input)

LEMMA StartType == ParserStart \in StateSet /\ NoHeader \in LineSet
BY DEF ParserStart, StateSet, NoHeader, LineSet

\* The states the loop goes through.
IsLoop(st, input) ==
  /\ st[0] = ParserStart
  /\ \A k \in 1 .. Len(input) : st[k] = ParseLine(st[k - 1], input[k])

LEMMA LoopExists ==
  ASSUME NEW input \in Seq(LineSet)
  PROVE  \E st \in [0 .. Len(input) -> StateSet] : IsLoop(st, input) /\ St(input) = st[Len(input)]
<1> DEFINE S == 1 .. Len(input)
           c == [s \in SUBSET S |-> Max(s)]
           F == [i \in S |-> [st \in StateSet |-> ParseLine(st, input[i])]]
           Is(g) == g = [s \in SUBSET S |-> IF s = {} THEN ParserStart
                                           ELSE ParseLine(g[s \ {Max(s)}], input[Max(s)])]
           iter == CHOOSE g : Is(g)
<1>0. Len(input) \in Nat /\ DOMAIN input = S /\ IsFiniteSet(S)
  BY FS_Interval
<1>1. ASSUME NEW s \in SUBSET S, s # {}
      PROVE  Max(s) \in s /\ \A n \in s : n <= Max(s)
  <2>1. IsFiniteSet(s)
    BY <1>0, FS_Subset
  <2>2. s \in SUBSET Int
    OBVIOUS
  <2> QED
    BY <1>1, <2>1, <2>2, MaxMinType
<1>2. PICK g \in [SUBSET S -> StateSet] : IsFold(g, c, F, ParserStart, S)
  <2>1. Takes(c, S)
    BY <1>1 DEF Takes
  <2>2. F \in [S -> [StateSet -> StateSet]]
    BY <1>0, ParseLineType
  <2> HIDE DEF c, F, S
  <2> QED
    BY <1>0, <2>1, <2>2, StartType, FoldExists
<1>3. Is(g)
  <2>1. ASSUME NEW s \in SUBSET S, s # {} PROVE g[s] = ParseLine(g[s \ {Max(s)}], input[Max(s)])
    <3>1. c[s] = Max(s) /\ Max(s) \in S /\ s \ {Max(s)} \in SUBSET S
      BY <1>1, <2>1
    <3>2. g[s] = F[Max(s)][g[s \ {Max(s)}]]
      BY <1>2, <2>1, <3>1 DEF IsFold
    <3>3. g[s \ {Max(s)}] \in StateSet
      BY <3>1
    <3> QED
      BY <3>1, <3>2, <3>3
  <2>2. g[{}] = ParserStart
    BY <1>2 DEF IsFold
  <2> QED
    BY <2>1, <2>2
<1>4. Is(iter)
  <2> HIDE DEF Is
  <2> QED
    BY <1>3
<1>5. St(input) = iter[S]
  BY <1>0 DEF St, FoldLeft, MapThenFoldSet
<1> HIDE DEF iter
<1> DEFINE st == [k \in 0 .. Len(input) |-> iter[1 .. k]]
<1>6. st[0] = ParserStart
  <2>1. 1 .. 0 = {}
    OBVIOUS
  <2> QED
    BY <1>0, <1>4, <2>1
<1>7. ASSUME NEW k \in 1 .. Len(input) PROVE st[k] = ParseLine(st[k - 1], input[k])
  <2>1. (1 .. k) \in SUBSET S /\ 1 .. k # {} /\ (1 .. k) \ {k} = 1 .. k - 1 /\ k - 1 \in 0 .. Len(input)
    BY <1>0
  <2>2. Max(1 .. k) = k
    <3>1. PICK s \in SUBSET S : s = 1 .. k /\ s # {}
      BY <2>1
    <3>2. Max(s) \in s /\ \A n \in s : n <= Max(s)
      BY <1>1, <3>1
    <3>3. k \in s /\ s \subseteq Int /\ \A n \in s : n <= k
      BY <1>0, <3>1
    <3>4. PICK m \in Int : m = Max(s) /\ m <= k /\ k <= m /\ k \in Int
      BY <3>2, <3>3
    <3>5. m = k
      BY <3>4
    <3> QED
      BY <3>1, <3>4, <3>5
  <2>3. iter[1 .. k] = ParseLine(iter[1 .. k - 1], input[k])
    BY <1>4, <2>1, <2>2
  <2> QED
    BY <1>0, <2>1, <2>3
<1>8. st \in [0 .. Len(input) -> StateSet]
  <2> DEFINE A == {k \in 0 .. Len(input) : st[k] \in StateSet}
  <2>1. ASSUME NEW k \in 1 .. Len(input), k - 1 \in A PROVE k \in A
    <3>1. k \in 0 .. Len(input) /\ input[k] \in LineSet /\ st[k - 1] \in StateSet
      BY <1>0, <2>1
    <3> HIDE DEF st
    <3>2. st[k] \in StateSet
      BY <1>7, <3>1, ParseLineType
    <3> QED
      BY <3>1, <3>2
  <2>2. 0 \in A
    BY <1>0, <1>6, StartType
  <2>3. 0 .. Len(input) \subseteq A
    <3> HIDE DEF A
    <3> QED
      BY <1>0, <2>1, <2>2, UpToInduction
  <2> QED
    BY <2>3
<1>9. St(input) = st[Len(input)]
  BY <1>0, <1>5
<1> HIDE DEF st
<1>10. IsLoop(st, input)
  BY <1>6, <1>7 DEF IsLoop
<1> QED
  BY <1>8, <1>9, <1>10

\* A text with a line more takes one turn more.
LEMMA OneTurnMore ==
  /\ St(<<>>) = ParserStart
  /\ \A input \in Seq(LineSet), line \in LineSet :
       St(input) \in StateSet /\ St(Append(input, line)) = ParseLine(St(input), line)
<1>1. St(<<>>) = ParserStart
  <2>1. <<>> \in Seq(LineSet) /\ Len(<<>>) = 0
    OBVIOUS
  <2> QED
    BY <2>1, LoopExists DEF IsLoop
<1>2. ASSUME NEW input \in Seq(LineSet), NEW line \in LineSet
      PROVE  St(input) \in StateSet /\ St(Append(input, line)) = ParseLine(St(input), line)
  <2>1. PICK n \in Nat : n = Len(input)
    OBVIOUS
  <2>2. PICK more \in Seq(LineSet) : more = Append(input, line)
    BY AppendProperties
  <2>3. Len(more) = n + 1 /\ more[n + 1] = line /\ \A k \in 1 .. n : more[k] = input[k]
    BY <2>1, <2>2
  <2>4. PICK a \in [0 .. n -> StateSet] : IsLoop(a, input) /\ St(input) = a[n]
    BY <2>1, LoopExists
  <2>5. PICK b \in [0 .. n + 1 -> StateSet] : IsLoop(b, more) /\ St(more) = b[n + 1]
    BY <2>3, LoopExists
  <2> DEFINE A == {k \in 0 .. n : a[k] = b[k]}
  <2>6. 0 \in A
    BY <2>4, <2>5 DEF IsLoop
  <2>7. ASSUME NEW k \in 1 .. n, k - 1 \in A PROVE k \in A
    <3>1. k \in 1 .. n /\ k \in 1 .. n + 1 /\ k \in 0 .. n
      OBVIOUS
    <3>2. a[k] = ParseLine(a[k - 1], input[k]) /\ b[k] = ParseLine(b[k - 1], more[k])
      BY <2>1, <2>3, <2>4, <2>5, <3>1 DEF IsLoop
    <3> QED
      BY <2>3, <2>7, <3>1, <3>2
  <2>8. 0 .. n \subseteq A
    <3> HIDE DEF A
    <3> QED
      BY <2>6, <2>7, UpToInduction
  <2>9. a[n] = b[n]
    BY <2>8
  <2>10. b[n + 1] = ParseLine(b[n], line)
    <3>1. n + 1 \in 1 .. n + 1 /\ (n + 1) - 1 = n
      OBVIOUS
    <3> QED
      BY <2>3, <2>5, <3>1 DEF IsLoop
  <2> QED
    BY <2>2, <2>4, <2>5, <2>9, <2>10
<1> QED
  BY <1>1, <1>2

-------------------------------------------------------------------------------
(* The text packet by packet.                                              *)

\* What the parser reads for the counter of a whole packet.
SeqRead(p) == IF Hides(p) THEN 0 ELSE p.seq

\* A packet is a header and two lines of words, whose payload begins with it.
LEMMA LinesOfPacket ==
  ASSUME NEW p \in PacketSet
  PROVE  \E a \in Seq(WordSet), b \in Seq(WordSet) :
           /\ PacketLines(p) = <<HeaderLine(p), HexLine(a), HexLine(b)>>
           /\ HeaderLine(p) \in LineSet /\ HexLine(a) \in LineSet /\ HexLine(b) \in LineSet
           /\ a # <<>>
           /\ PayloadAfter8819(a \o b) # <<>> /\ Head(PayloadAfter8819(a \o b)) # Half
           /\ Head(PayloadAfter8819(a \o b)).value = SeqRead(p)
<1>0. p.src \in Names /\ p.vlan \in Nat /\ p.seq \in Counter
  BY DEF PacketSet
<1>1. PICK W \in WordSet : W = Word("seq", p.seq) /\ W # Half /\ W.value = p.seq
  BY <1>0, WordType DEF Word, Half
<1>2. PICK S \in WordSet : /\ S = Src(p) /\ S # Half /\ S.value = 0
                           /\ S = Ethertype <=> p.src \in HidingSources
  BY WordType DEF Src, Word, Ethertype, Half
<1>3. PICK T \in WordSet : /\ T = Tag(p) /\ T # Half /\ T.value = 0
                           /\ T = Ethertype <=> p.vlan \in HidingVlans
  BY WordType DEF Tag, Word, Ethertype, Half
<1>4. PICK D \in WordSet, E \in WordSet, A \in WordSet :
        D = Dst /\ E = Ethertype /\ A = Audio /\ D # E /\ E # Half /\ E.value = 0
  BY WordType DEF Word, Dst, Ethertype, Audio, Half
<1>5. HeaderLine(p) \in LineSet
  <2>1. <<>> \in Seq(WordSet)
    OBVIOUS
  <2> QED
    BY <1>0, <2>1 DEF HeaderLine, LineSet
<1>6. \A ws \in Seq(WordSet) : HexLine(ws) \in LineSet
  BY DEF HexLine, LineSet
<1> HIDE DEF WordSet
<1>7. CASE p.vlan = NoVlan
  <2>a. <<D, S, E, W>> \in Seq(WordSet)
    OBVIOUS
  <2>1. PICK a \in Seq(WordSet) : a = <<D, S, E, W>>
    BY <2>a
  <2>b. <<A>> \in Seq(WordSet)
    OBVIOUS
  <2>2. PICK b \in Seq(WordSet) : b = <<A>>
    BY <2>b
  <2>3. PacketLines(p) = <<HeaderLine(p), HexLine(a), HexLine(b)>>
    BY <1>1, <1>2, <1>4, <1>7, <2>1, <2>2 DEF PacketLines
  <2>4. Len(a) = 4 /\ Len(b) = 1 /\ a # <<>> /\ a[1] = D /\ a[2] = S /\ a[3] = E /\ a[4] = W
    BY <2>1, <2>2
  <2>5. PICK w \in Seq(WordSet) : w = a \o b
    BY ConcatProperties
  <2>6. Len(w) = 5 /\ w[1] = D /\ w[2] = S /\ w[3] = E /\ w[4] = W
    <3>1. Len(w) = Len(a) + Len(b) /\ \A i \in 1 .. Len(a) + Len(b) : w[i] = IF i <= Len(a) THEN a[i] ELSE b[i - Len(a)]
      BY <2>5, ConcatProperties
    <3> QED
      BY <2>4, <3>1
  <2>7. PICK k \in 2 .. 3 : k = IF S = E THEN 2 ELSE 3
    OBVIOUS
  <2>8. k \in 1 .. Len(w) - 1 /\ w[k] = Ethertype /\ \A i \in 1 .. k - 1 : w[i] # Ethertype
    BY <1>4, <2>6, <2>7
  <2>9. w[k + 1] = IF S = E THEN E ELSE W
    BY <2>6, <2>7
  <2>10. Hides(p) <=> S = E
    BY <1>2, <1>4, <1>7 DEF Hides
  <2>11. PayloadAfter8819(w) # <<>> /\ Head(PayloadAfter8819(w)) = w[k + 1]
    BY <2>8, PayloadHead
  <2>12. w[k + 1] # Half /\ w[k + 1].value = SeqRead(p)
    BY <1>1, <1>4, <2>9, <2>10 DEF SeqRead
  <2> QED
    BY <1>5, <1>6, <2>3, <2>4, <2>5, <2>11, <2>12
<1>8. CASE p.vlan # NoVlan
  <2>a. <<D, S, T>> \in Seq(WordSet)
    OBVIOUS
  <2>1. PICK a \in Seq(WordSet) : a = <<D, S, T>>
    BY <2>a
  <2>b. <<E, W>> \in Seq(WordSet)
    OBVIOUS
  <2>2. PICK b \in Seq(WordSet) : b = <<E, W>>
    BY <2>b
  <2>3. PacketLines(p) = <<HeaderLine(p), HexLine(a), HexLine(b)>>
    BY <1>1, <1>2, <1>3, <1>4, <1>8, <2>1, <2>2 DEF PacketLines
  <2>4. Len(a) = 3 /\ Len(b) = 2 /\ a # <<>> /\ a[1] = D /\ a[2] = S /\ a[3] = T /\ b[1] = E /\ b[2] = W
    BY <2>1, <2>2
  <2>5. PICK w \in Seq(WordSet) : w = a \o b
    BY ConcatProperties
  <2>6. Len(w) = 5 /\ w[1] = D /\ w[2] = S /\ w[3] = T /\ w[4] = E /\ w[5] = W
    <3>1. Len(w) = Len(a) + Len(b) /\ \A i \in 1 .. Len(a) + Len(b) : w[i] = IF i <= Len(a) THEN a[i] ELSE b[i - Len(a)]
      BY <2>5, ConcatProperties
    <3> QED
      BY <2>4, <3>1
  <2>7. PICK k \in 2 .. 4 : k = IF S = E THEN 2 ELSE IF T = E THEN 3 ELSE 4
    OBVIOUS
  <2>8. k \in 1 .. Len(w) - 1 /\ w[k] = Ethertype /\ \A i \in 1 .. k - 1 : w[i] # Ethertype
    BY <1>4, <2>6, <2>7
  <2>9. w[k + 1] = IF S = E THEN T ELSE IF T = E THEN E ELSE W
    BY <2>6, <2>7
  <2>10. Hides(p) <=> S = E \/ T = E
    BY <1>2, <1>3, <1>4, <1>8 DEF Hides
  <2>11. PayloadAfter8819(w) # <<>> /\ Head(PayloadAfter8819(w)) = w[k + 1]
    BY <2>8, PayloadHead
  <2>12. w[k + 1] # Half /\ w[k + 1].value = SeqRead(p)
    BY <1>1, <1>3, <1>4, <2>9, <2>10 DEF SeqRead
  <2> QED
    BY <1>5, <1>6, <2>3, <2>4, <2>5, <2>11, <2>12
<1> QED
  BY <1>7, <1>8

\* Flattened, a list of lists with one more is theirs followed by it.
LEMMA FlattenMore ==
  ASSUME NEW L, NEW ss \in Seq(Seq(L)), NEW x \in Seq(L)
  PROVE  FlattenSeq(ss) \in Seq(L) /\ FlattenSeq(Append(ss, x)) = FlattenSeq(ss) \o x
<1> DEFINE Is(g, t) == g = [i \in 1 .. Len(t) |-> IF i = 1 THEN t[i] ELSE g[i - 1] \o t[i]]
           Steps(g, t, n) == \A i \in 1 .. n : g[i] = IF i = 1 THEN t[i] ELSE g[i - 1] \o t[i]
<1>0. ASSUME NEW g, NEW h, NEW t, NEW n \in Nat \ {0}, Steps(g, t, n), Steps(h, t, n)
      PROVE  \A i \in 1 .. n : g[i] = h[i]
  <2> DEFINE A == {i \in 1 .. n : g[i] = h[i]}
  <2>1. PICK lo \in Int : lo = 1
    OBVIOUS
  <2>2. lo \in A
    <3>1. 1 \in 1 .. n
      OBVIOUS
    <3>2. g[1] = t[1] /\ h[1] = t[1]
      BY <1>0, <3>1
    <3> QED
      BY <2>1, <3>1, <3>2
  <2>3. ASSUME NEW i \in lo + 1 .. n, i - 1 \in A PROVE i \in A
    <3>1. i \in 1 .. n /\ i # 1
      BY <2>1
    <3>2. g[i] = g[i - 1] \o t[i] /\ h[i] = h[i - 1] \o t[i]
      BY <1>0, <3>1
    <3> QED
      BY <2>3, <3>1, <3>2
  <2>4. lo .. n \subseteq A
    <3>1. n \in Int
      OBVIOUS
    <3> HIDE DEF A
    <3> QED
      BY <2>2, <2>3, <3>1, IntervalInduction
  <2> QED
    BY <2>1, <2>4
<1>1. ASSUME NEW t \in Seq(Seq(L)), NEW n \in Nat \ {0}, n = Len(t)
      PROVE  \E g \in [1 .. n -> Seq(L)] : Steps(g, t, n) /\ FlattenSeq(t) = g[n]
  <2> DEFINE D == Seq(L)
             F == [i \in 1 .. n |-> [u \in D |-> u \o t[i]]]
             iter == CHOOSE g : Is(g, t)
  <2>1. \A i \in 1 .. n : t[i] \in D
    BY <1>1
  <2>2. PICK lo \in Int : lo = 1
    OBVIOUS
  <2>3. PICK g \in [lo .. n -> D] : IsRecursion(g, lo, n, t[1], F)
    <3>1. t[1] \in D /\ n \in Int
      BY <2>1
    <3>2. F \in [lo .. n -> [D -> D]]
      BY <2>1, <2>2, ConcatProperties
    <3> HIDE DEF F, D
    <3> QED
      BY <3>1, <3>2, RecursionExists
  <2>4. Steps(g, t, n)
    <3> SUFFICES ASSUME NEW i \in 1 .. n PROVE g[i] = IF i = 1 THEN t[i] ELSE g[i - 1] \o t[i]
      OBVIOUS
    <3>1. g[i] = IF i = lo THEN t[1] ELSE F[i][g[i - 1]]
      BY <2>2, <2>3 DEF IsRecursion
    <3>2. i # 1 => g[i - 1] \in D
      BY <2>2, <2>3
    <3> QED
      BY <2>2, <3>1, <3>2
  <2>5. Is(g, t)
    BY <1>1, <2>2, <2>3, <2>4
  <2>6. Is(iter, t)
    <3> HIDE DEF Is
    <3> QED
      BY <2>5
  <2>7. FlattenSeq(t) = iter[n]
    BY <1>1 DEF FlattenSeq
  <2> HIDE DEF iter
  <2>8. Steps(iter, t, n)
    BY <1>1, <2>6
  <2> HIDE DEF Steps
  <2>9. \A i \in 1 .. n : iter[i] = g[i]
    BY <1>0, <2>4, <2>8
  <2>10. FlattenSeq(t) = g[n]
    BY <2>7, <2>9
  <2> QED
    BY <2>2, <2>3, <2>4, <2>10
<1>2. PICK n \in Nat : n = Len(ss)
  OBVIOUS
<1>a. Append(ss, x) \in Seq(Seq(L))
  BY AppendProperties
<1>b. /\ Len(Append(ss, x)) = n + 1 /\ Append(ss, x)[n + 1] = x
      /\ \A i \in 1 .. n : Append(ss, x)[i] = ss[i]
  BY <1>2, AppendProperties
<1>3. PICK t \in Seq(Seq(L)) : /\ t = Append(ss, x)
                               /\ Len(t) = n + 1 /\ t[n + 1] = x /\ \A i \in 1 .. n : t[i] = ss[i]
  BY <1>a, <1>b
<1>4. PICK b \in [1 .. n + 1 -> Seq(L)] : Steps(b, t, n + 1) /\ FlattenSeq(t) = b[n + 1]
  <2>1. n + 1 \in Nat \ {0} /\ n + 1 = Len(t)
    BY <1>3
  <2> HIDE DEF Steps
  <2> QED
    BY <1>1, <2>1
<1>5. CASE n = 0
  <2>1. ss = <<>>
    BY <1>2, <1>5, EmptySeq
  <2>2. FlattenSeq(ss) = <<>> /\ <<>> \in Seq(L)
    BY <2>1 DEF FlattenSeq
  <2>3. b[1] = x
    <3>1. 1 \in 1 .. n + 1 /\ t[1] = x
      BY <1>3, <1>5
    <3> QED
      BY <1>4, <3>1
  <2>4. FlattenSeq(t) = x
    BY <1>4, <1>5, <2>3
  <2>5. <<>> \o x = x
    BY ConcatEmptySeq
  <2> QED
    BY <1>3, <2>2, <2>4, <2>5
<1>6. CASE n # 0
  <2>1. PICK a \in [1 .. n -> Seq(L)] : Steps(a, ss, n) /\ FlattenSeq(ss) = a[n]
    <3> HIDE DEF Steps
    <3> QED
      BY <1>1, <1>2, <1>6
  <2>2. Steps(a, t, n)
    <3>1. \A i \in 1 .. n : t[i] = ss[i]
      BY <1>3
    <3> QED
      BY <2>1, <3>1
  <2>3. Steps(b, t, n)
    <3>1. \A i \in 1 .. n : i \in 1 .. n + 1
      OBVIOUS
    <3> QED
      BY <1>4, <3>1
  <2>4. \A i \in 1 .. n : a[i] = b[i]
    <3>1. n \in Nat \ {0}
      BY <1>6
    <3> HIDE DEF Steps
    <3>2. \A g, h : Steps(g, t, n) /\ Steps(h, t, n) => \A i \in 1 .. n : g[i] = h[i]
      BY <1>0, <3>1
    <3> QED
      BY <2>2, <2>3, <3>2
  <2>5. n \in 1 .. n /\ n + 1 \in 1 .. n + 1 /\ n + 1 # 1 /\ (n + 1) - 1 = n
    BY <1>6
  <2>6. b[n + 1] = b[n] \o x
    BY <1>3, <1>4, <2>5
  <2>7. a[n] = b[n] /\ a[n] \in Seq(L)
    BY <2>1, <2>4, <2>5
  <2> HIDE DEF Steps
  <2> QED
    BY <1>3, <1>4, <2>1, <2>6, <2>7
<1> QED
  BY <1>5, <1>6

LEMMA LinesType ==
  ASSUME NEW p \in PacketSet
  PROVE  PacketLines(p) \in Seq(LineSet)
<1>1. PICK h \in LineSet, one \in LineSet, two \in LineSet : PacketLines(p) = <<h, one, two>>
  <2>1. PICK a \in Seq(WordSet), b \in Seq(WordSet) :
          /\ PacketLines(p) = <<HeaderLine(p), HexLine(a), HexLine(b)>>
          /\ HeaderLine(p) \in LineSet /\ HexLine(a) \in LineSet /\ HexLine(b) \in LineSet
    BY LinesOfPacket
  <2> QED
    BY <2>1
<1> HIDE DEF LineSet
<1> QED
  BY <1>1

\* The text of packets and one more is theirs and its lines.
LEMMA TextMore ==
  /\ TextOf(<<>>) = <<>>
  /\ \A ps \in Seq(PacketSet), p \in PacketSet :
       TextOf(ps) \in Seq(LineSet) /\ TextOf(Append(ps, p)) = TextOf(ps) \o PacketLines(p)
<1> DEFINE lists(ps) == [i \in DOMAIN ps |-> PacketLines(ps[i])]
<1>0. ASSUME NEW ps \in Seq(PacketSet)
      PROVE  lists(ps) \in Seq(Seq(LineSet)) /\ Len(lists(ps)) = Len(ps)
             /\ \A i \in 1 .. Len(ps) : lists(ps)[i] = PacketLines(ps[i])
  <2>1. \A i \in 1 .. Len(ps) : ps[i] \in PacketSet
    BY ElementOfSeq
  <2>2. \A i \in 1 .. Len(ps) : PacketLines(ps[i]) \in Seq(LineSet)
    BY <2>1, LinesType
  <2>3. PICK n \in Nat : n = Len(ps) /\ DOMAIN ps = 1 .. n
    OBVIOUS
  <2> HIDE DEF LineSet, PacketSet
  <2> QED
    BY <2>2, <2>3
<1>1. TextOf(<<>>) = <<>>
  <2>1. <<>> \in Seq(PacketSet) /\ Len(<<>>) = 0
    BY EmptySeq
  <2>2. lists(<<>>) \in Seq(Seq(LineSet)) /\ Len(lists(<<>>)) = 0
    BY <1>0, <2>1
  <2>3. lists(<<>>) = <<>>
    <3> HIDE DEF lists
    <3> QED
      BY <2>2, EmptySeq
  <2> HIDE DEF lists
  <2>4. TextOf(<<>>) = FlattenSeq(lists(<<>>))
    BY DEF TextOf, lists
  <2> QED
    BY <2>1, <2>3, <2>4 DEF FlattenSeq
<1>2. ASSUME NEW ps \in Seq(PacketSet), NEW p \in PacketSet
      PROVE  TextOf(ps) \in Seq(LineSet) /\ TextOf(Append(ps, p)) = TextOf(ps) \o PacketLines(p)
  <2>1. Append(ps, p) \in Seq(PacketSet)
    BY AppendProperties
  <2>2. PacketLines(p) \in Seq(LineSet)
    BY LinesType
  <2> DEFINE D == Seq(LineSet)
             u == lists(Append(ps, p))
             v == Append(lists(ps), PacketLines(p))
  <2>3. lists(ps) \in Seq(D) /\ Len(lists(ps)) = Len(ps) /\ \A i \in 1 .. Len(ps) : lists(ps)[i] = PacketLines(ps[i])
    BY <1>0
  <2>4. u \in Seq(D) /\ Len(u) = Len(Append(ps, p))
        /\ \A i \in 1 .. Len(Append(ps, p)) : u[i] = PacketLines(Append(ps, p)[i])
    BY <1>0, <2>1
  <2>5. Len(Append(ps, p)) = Len(ps) + 1 /\ Append(ps, p)[Len(ps) + 1] = p
        /\ \A i \in 1 .. Len(ps) : Append(ps, p)[i] = ps[i]
    BY AppendProperties
  <2>6. v \in Seq(D) /\ Len(v) = Len(ps) + 1 /\ v[Len(ps) + 1] = PacketLines(p)
        /\ \A i \in 1 .. Len(ps) : v[i] = lists(ps)[i]
    <3> HIDE DEF lists
    <3> QED
      BY <2>2, <2>3, AppendProperties
  <2>7. u = v
    <3>1. PICK n \in Nat : n = Len(ps)
      OBVIOUS
    <3> HIDE DEF lists, u, v, D
    <3>2. \A i \in 1 .. n + 1 : u[i] = v[i]
      <4> SUFFICES ASSUME NEW i \in 1 .. n + 1 PROVE u[i] = v[i]
        OBVIOUS
      <4>1. CASE i = n + 1
        BY <2>4, <2>5, <2>6, <3>1, <4>1
      <4>2. CASE i # n + 1
        <5>1. i \in 1 .. n
          BY <4>2
        <5> QED
          BY <2>3, <2>4, <2>5, <2>6, <3>1, <5>1
      <4> QED
        BY <4>1, <4>2
    <3> QED
      BY <2>4, <2>5, <2>6, <3>1, <3>2, SeqEqual
  <2>8. TextOf(ps) = FlattenSeq(lists(ps)) /\ TextOf(Append(ps, p)) = FlattenSeq(u)
    BY DEF TextOf
  <2> HIDE DEF lists, u
  <2> QED
    BY <2>2, <2>3, <2>7, <2>8, FlattenMore
<1> QED
  BY <1>1, <1>2

\* Up to three lines more take as many turns more.
LEMMA TurnsMore ==
  ASSUME NEW input \in Seq(LineSet)
  PROVE  /\ \A x \in LineSet : St(input \o <<x>>) = ParseLine(St(input), x)
         /\ \A x, y \in LineSet : St(input \o <<x, y>>) = ParseLine(ParseLine(St(input), x), y)
         /\ \A x, y, z \in LineSet :
              St(input \o <<x, y, z>>) = ParseLine(ParseLine(ParseLine(St(input), x), y), z)
<1> HIDE DEF LineSet
<1> DEFINE One(x) == St(input \o <<x>>) = ParseLine(St(input), x)
           Two(x, y) == St(input \o <<x, y>>) = ParseLine(ParseLine(St(input), x), y)
           Three(x, y, z) ==
             St(input \o <<x, y, z>>) = ParseLine(ParseLine(ParseLine(St(input), x), y), z)
<1>1. ASSUME NEW x \in LineSet, NEW y \in LineSet, NEW z \in LineSet
      PROVE  One(x) /\ Two(x, y) /\ Three(x, y, z)
  <2>1. <<x>> \in Seq(LineSet) /\ <<x, y>> \in Seq(LineSet) /\ <<x, y, z>> \in Seq(LineSet)
    OBVIOUS
  <2>2. <<x, y>> = Append(<<x>>, y) /\ <<x, y, z>> = Append(<<x, y>>, z)
    OBVIOUS
  <2>3. \A u \in Seq(LineSet), l \in LineSet : input \o Append(u, l) = Append(input \o u, l)
    <3> SUFFICES ASSUME NEW u \in Seq(LineSet), NEW l \in LineSet PROVE input \o Append(u, l) = Append(input \o u, l)
      OBVIOUS
    <3>1. Append(u, l) = u \o <<l>> /\ <<l>> \in Seq(LineSet) /\ input \o u \in Seq(LineSet)
      BY AppendIsConcat, ConcatProperties
    <3>2. Append(input \o u, l) = (input \o u) \o <<l>>
      BY <3>1, AppendIsConcat
    <3> QED
      BY <3>1, <3>2, ConcatAssociative
  <2>4. input \o <<x>> = Append(input, x)
    BY AppendIsConcat
  <2>5. input \o <<x, y>> = Append(input \o <<x>>, y) /\ input \o <<x, y, z>> = Append(input \o <<x, y>>, z)
    BY <2>1, <2>2, <2>3
  <2>6. input \o <<x>> \in Seq(LineSet) /\ input \o <<x, y>> \in Seq(LineSet)
    BY <2>1, ConcatProperties
  <2>7. St(input \o <<x>>) = ParseLine(St(input), x)
    BY <2>4, OneTurnMore
  <2>8. St(input \o <<x, y>>) = ParseLine(St(input \o <<x>>), y)
    BY <2>5, <2>6, OneTurnMore
  <2>9. St(input \o <<x, y, z>>) = ParseLine(St(input \o <<x, y>>), z)
    BY <2>5, <2>6, OneTurnMore
  <2> QED
    BY <2>7, <2>8, <2>9
<1> HIDE DEF One, Two, Three
<1>2. /\ \A x \in LineSet : One(x)
      /\ \A x, y \in LineSet : Two(x, y)
      /\ \A x, y, z \in LineSet : Three(x, y, z)
  BY <1>1
<1> QED
  BY <1>2 DEF One, Two, Three

\* The frame the parser is to make of a packet.
FrameOf(p) == [src |-> p.src, vlan |-> p.vlan, seq |-> SeqRead(p)]

LEMMA FrameOfType == \A p \in PacketSet : FrameOf(p) \in FrameSet
BY WordType DEF PacketSet, FrameOf, SeqRead, FrameSet

Written(ps) == [i \in 1 .. Len(ps) |-> FrameOf(ps[i])]

\* A header ends the frame before it and the words after it are read as its own.
LEMMA HeaderThenWords ==
  ASSUME NEW st \in StateSet, NEW p \in PacketSet, HeaderLine(p) \in LineSet,
         NEW a \in Seq(WordSet), NEW b \in Seq(WordSet), HexLine(a) \in LineSet, HexLine(b) \in LineSet
  PROVE  LET one == ParseLine(ParseLine(st, HeaderLine(p)), HexLine(a))
             two == ParseLine(one, HexLine(b))
         IN  /\ one = [hdr |-> HeaderLine(p), hexparts |-> a, frames |-> Flush(st)]
             /\ two = [hdr |-> HeaderLine(p), hexparts |-> a \o b, frames |-> Flush(st)]
<1> DEFINE h == HeaderLine(p)
           zero == [hdr |-> h, hexparts |-> <<>>, frames |-> Flush(st)]
           one == [hdr |-> h, hexparts |-> a, frames |-> Flush(st)]
           two == [hdr |-> h, hexparts |-> a \o b, frames |-> Flush(st)]
<1>1. h.kind = "header" /\ h # NoHeader
  BY DEF HeaderLine, NoHeader
<1>2. HexLine(a).kind = "hex" /\ HexLine(a).words = a /\ HexLine(b).kind = "hex" /\ HexLine(b).words = b
  BY DEF HexLine
<1>3. ParseLine(st, h) = zero
  BY <1>1 DEF ParseLine
<1>4. ParseLine(zero, HexLine(a)) = one
  <2>1. <<>> \o a = a
    BY ConcatEmptySeq
  <2> HIDE DEF h
  <2>2. ParseLine(zero, HexLine(a)) = [zero EXCEPT !.hexparts = <<>> \o a]
    BY <1>1, <1>2 DEF ParseLine
  <2> QED
    BY <2>1, <2>2
<1>5. ParseLine(one, HexLine(b)) = two
  <2> HIDE DEF h
  <2>1. ParseLine(one, HexLine(b)) = [one EXCEPT !.hexparts = a \o b]
    BY <1>1, <1>2 DEF ParseLine
  <2> QED
    BY <2>1
<1> HIDE DEF zero, one, two, h
<1> QED
  BY <1>3, <1>4, <1>5 DEF h, one, two

\* The lines of a packet end the frame before it, and make its own.
LEMMA PacketRead ==
  ASSUME NEW input \in Seq(LineSet), NEW p \in PacketSet
  PROVE  /\ input \o PacketLines(p) \in Seq(LineSet)
         /\ Flush(St(input \o PacketLines(p))) = Append(Flush(St(input)), FrameOf(p))
<1>1. PICK a \in Seq(WordSet), b \in Seq(WordSet) :
        /\ PacketLines(p) = <<HeaderLine(p), HexLine(a), HexLine(b)>>
        /\ HeaderLine(p) \in LineSet /\ HexLine(a) \in LineSet /\ HexLine(b) \in LineSet
        /\ a # <<>>
        /\ PayloadAfter8819(a \o b) # <<>> /\ Head(PayloadAfter8819(a \o b)) # Half
        /\ Head(PayloadAfter8819(a \o b)).value = SeqRead(p)
  BY LinesOfPacket
<1>2. St(input) \in StateSet
  <2>1. HeaderLine(p) \in LineSet
    BY <1>1
  <2> QED
    BY <2>1, OneTurnMore
<1>3. St(input \o PacketLines(p)) = ParseLine(ParseLine(ParseLine(St(input), HeaderLine(p)), HexLine(a)), HexLine(b))
  <2>1. HeaderLine(p) \in LineSet /\ HexLine(a) \in LineSet /\ HexLine(b) \in LineSet
        /\ PacketLines(p) = <<HeaderLine(p), HexLine(a), HexLine(b)>>
    BY <1>1
  <2> QED
    BY <2>1, TurnsMore
<1>4. PICK end : end = [hdr |-> HeaderLine(p), hexparts |-> a \o b, frames |-> Flush(St(input))]
  OBVIOUS
<1>5. St(input \o PacketLines(p)) = end
  BY <1>1, <1>2, <1>3, <1>4, HeaderThenWords
<1>6. a \o b # <<>>
  BY <1>1, ConcatEqualIffEmpty
<1>7. HeaderLine(p) # NoHeader /\ HeaderLine(p).src = p.src /\ HeaderLine(p).vlan = p.vlan
  BY DEF HeaderLine, NoHeader
<1>9. end.hdr = HeaderLine(p) /\ end.hexparts = a \o b /\ end.frames = Flush(St(input))
  BY <1>4
<1>10. Flush(end) = Append(end.frames, [src |-> end.hdr.src, vlan |-> end.hdr.vlan, seq |-> SeqRead(p)])
  BY <1>1, <1>6, <1>7, <1>9 DEF Flush
<1>11. input \o PacketLines(p) \in Seq(LineSet)
  BY LinesType, ConcatProperties
<1> QED
  BY <1>5, <1>7, <1>9, <1>10, <1>11 DEF FrameOf

LEMMA WrittenMore ==
  /\ Written(<<>>) = <<>>
  /\ \A ps \in Seq(PacketSet), p \in PacketSet :
       Written(ps) \in Seq(FrameSet) /\ Written(Append(ps, p)) = Append(Written(ps), FrameOf(p))
<1>0. ASSUME NEW ps \in Seq(PacketSet)
      PROVE  Written(ps) \in Seq(FrameSet) /\ Len(Written(ps)) = Len(ps)
             /\ \A i \in 1 .. Len(ps) : Written(ps)[i] = FrameOf(ps[i])
  <2>1. \A i \in 1 .. Len(ps) : ps[i] \in PacketSet
    BY ElementOfSeq
  <2>2. \A i \in 1 .. Len(ps) : FrameOf(ps[i]) \in FrameSet
    BY <2>1, FrameOfType
  <2>3. PICK n \in Nat : n = Len(ps)
    OBVIOUS
  <2> HIDE DEF FrameSet, PacketSet
  <2> QED
    BY <2>2, <2>3 DEF Written
<1>1. Written(<<>>) = <<>>
  <2>1. <<>> \in Seq(PacketSet) /\ Len(<<>>) = 0
    BY EmptySeq
  <2>2. Written(<<>>) \in Seq(FrameSet) /\ Len(Written(<<>>)) = 0
    BY <1>0, <2>1
  <2> QED
    BY <2>2, EmptySeq
<1>2. ASSUME NEW ps \in Seq(PacketSet), NEW p \in PacketSet
      PROVE  Written(ps) \in Seq(FrameSet) /\ Written(Append(ps, p)) = Append(Written(ps), FrameOf(p))
  <2> DEFINE u == Written(Append(ps, p))
             v == Append(Written(ps), FrameOf(p))
  <2>1. Append(ps, p) \in Seq(PacketSet) /\ Len(Append(ps, p)) = Len(ps) + 1 /\ Append(ps, p)[Len(ps) + 1] = p
        /\ \A i \in 1 .. Len(ps) : Append(ps, p)[i] = ps[i]
    BY AppendProperties
  <2>2. FrameOf(p) \in FrameSet
    BY FrameOfType
  <2>3. Written(ps) \in Seq(FrameSet) /\ Len(Written(ps)) = Len(ps) /\ \A i \in 1 .. Len(ps) : Written(ps)[i] = FrameOf(ps[i])
    BY <1>0
  <2>4. u \in Seq(FrameSet) /\ Len(u) = Len(Append(ps, p))
        /\ \A i \in 1 .. Len(Append(ps, p)) : u[i] = FrameOf(Append(ps, p)[i])
    BY <1>0, <2>1
  <2>5. v \in Seq(FrameSet) /\ Len(v) = Len(ps) + 1 /\ v[Len(ps) + 1] = FrameOf(p)
        /\ \A i \in 1 .. Len(ps) : v[i] = Written(ps)[i]
    BY <2>2, <2>3, AppendProperties
  <2>6. PICK n \in Nat : n = Len(ps)
    OBVIOUS
  <2> HIDE DEF u, v, FrameSet, PacketSet
  <2>7. \A i \in 1 .. n + 1 : u[i] = v[i]
    <3> SUFFICES ASSUME NEW i \in 1 .. n + 1 PROVE u[i] = v[i]
      OBVIOUS
    <3>1. CASE i = n + 1
      BY <2>1, <2>4, <2>5, <2>6, <3>1
    <3>2. CASE i # n + 1
      <4>1. i \in 1 .. n
        BY <3>2
      <4> QED
        BY <2>1, <2>3, <2>4, <2>5, <2>6, <4>1
    <3> QED
      BY <3>1, <3>2
  <2>8. u = v
    BY <2>1, <2>4, <2>5, <2>6, <2>7, SeqEqual
  <2> QED
    BY <2>3, <2>8 DEF u, v
<1> QED
  BY <1>1, <1>2

\* What the parser reads in the text of packets is the packets.
LEMMA TextRead ==
  ASSUME NEW ps \in Seq(PacketSet)
  PROVE  TextOf(ps) \in Seq(LineSet) /\ parse_tcpdump_text(TextOf(ps)) = Written(ps)
<1> DEFINE A == {n \in Nat : \A qs \in Seq(PacketSet) : Len(qs) = n =>
                   TextOf(qs) \in Seq(LineSet) /\ Flush(St(TextOf(qs))) = Written(qs)}
<1>1. 0 \in A
  <2> SUFFICES ASSUME NEW qs \in Seq(PacketSet), Len(qs) = 0
               PROVE  TextOf(qs) \in Seq(LineSet) /\ Flush(St(TextOf(qs))) = Written(qs)
    OBVIOUS
  <2>1. qs = <<>>
    BY EmptySeq
  <2>2. Flush(ParserStart) = <<>>
    BY DEF Flush, ParserStart
  <2>3. <<>> \in Seq(LineSet)
    BY EmptySeq
  <2> QED
    BY <2>1, <2>2, <2>3, TextMore, OneTurnMore, WrittenMore
<1>2. ASSUME NEW n \in Nat, n \in A PROVE n + 1 \in A
  <2> SUFFICES ASSUME NEW qs \in Seq(PacketSet), Len(qs) = n + 1
               PROVE  TextOf(qs) \in Seq(LineSet) /\ Flush(St(TextOf(qs))) = Written(qs)
    OBVIOUS
  <2>1. qs # <<>>
    <3>1. n + 1 # 0
      OBVIOUS
    <3> QED
      BY <3>1, EmptySeq
  <2>2. PICK ws \in Seq(PacketSet), p \in PacketSet : qs = Append(ws, p)
    <3> HIDE DEF PacketSet
    <3> QED
      BY <2>1, SequenceEmptyOrAppend
  <2>3. Len(ws) = n
    <3>1. Len(qs) = Len(ws) + 1 /\ Len(ws) \in Nat
      BY <2>2, AppendProperties
    <3> QED
      BY <3>1
  <2>4. TextOf(ws) \in Seq(LineSet) /\ Flush(St(TextOf(ws))) = Written(ws)
    BY <1>2, <2>3
  <2>5. TextOf(qs) = TextOf(ws) \o PacketLines(p) /\ Written(qs) = Append(Written(ws), FrameOf(p))
    BY <2>2, TextMore, WrittenMore
  <2> QED
    BY <2>4, <2>5, PacketRead
<1>3. Nat \subseteq A
  <2> HIDE DEF A
  <2> QED
    BY <1>1, <1>2, SetInduction
<1>4. Len(ps) \in Nat
  OBVIOUS
<1> QED
  BY <1>3, <1>4 DEF parse_tcpdump_text, St

\* The frames a parser in state st is to have after a packet cut short.
CutReads(st, p) == {Flush(st)} \cup
                   {Append(Flush(st), [src |-> p.src, vlan |-> p.vlan, seq |-> c]) : c \in Counter}

LEMMA HalfAPacket ==
  ASSUME NEW st \in StateSet, NEW p \in PacketSet, HeaderLine(p) \in LineSet, NEW ws \in Seq(WordSet)
  PROVE  Flush([hdr |-> HeaderLine(p), hexparts |-> ws, frames |-> Flush(st)]) \in CutReads(st, p)
<1>1. PICK end : end = [hdr |-> HeaderLine(p), hexparts |-> ws, frames |-> Flush(st)]
  OBVIOUS
<1>2. Flush(st) \in Seq(FrameSet)
  BY FlushType
<1>3. end \in StateSet
  BY <1>1, <1>2 DEF StateSet
<1>4. end.frames = Flush(st) /\ end.hdr.src = p.src /\ end.hdr.vlan = p.vlan
  BY <1>1 DEF HeaderLine
<1>5. CASE Flush(end) = end.frames
  BY <1>1, <1>4, <1>5 DEF CutReads
<1>6. CASE Flush(end) # end.frames
  <2>1. PICK c \in Counter :
          Flush(end) = Append(end.frames, [src |-> end.hdr.src, vlan |-> end.hdr.vlan, seq |-> c])
    BY <1>3, <1>6, FlushType
  <2> QED
    BY <1>1, <1>4, <2>1 DEF CutReads
<1> QED
  BY <1>5, <1>6

\* A cut line of words has some of them.
LEMMA CutLineType ==
  ASSUME NEW a \in Seq(WordSet), NEW n \in 0 .. Len(a), NEW rest \in {<<>>, <<Half>>}
  PROVE  \E ws \in Seq(WordSet) : CutLine(HexLine(a), n, rest) = HexLine(ws)
<1> DEFINE some == SubSeq(a, 1, n)
<1>1. some \in Seq(WordSet)
  <2>1. \A i \in 1 .. n : a[i] \in WordSet
    BY ElementOfSeq
  <2>2. 1 \in Int /\ n \in Int
    OBVIOUS
  <2> QED
    BY <2>1, <2>2, SubSeqProperties
<1>2. rest \in Seq(WordSet)
  <2>1. Half \in WordSet
    BY WordType
  <2> HIDE DEF WordSet
  <2>2. <<Half>> \in Seq(WordSet) /\ <<>> \in Seq(WordSet)
    BY <2>1
  <2> QED
    BY <2>2
<1>3. CutLine(HexLine(a), n, rest) = HexLine(some \o rest)
  BY DEF CutLine, HexLine
<1> QED
  BY <1>1, <1>2, <1>3, ConcatProperties

\* The cuts of a text that goes on from its whole packets with these lines.
CutAt(whole, lines, k, w, rest) ==
  whole \o SubSeq(lines, 1, k - 1) \o <<CutLine(lines[k], w, rest)>>
CutsInLine(whole, lines, k) ==
  {CutAt(whole, lines, k, w, rest) : w \in 0 .. Len(lines[k].words), rest \in {<<>>, <<Half>>}}
CutsWithin(whole, lines) == UNION {CutsInLine(whole, lines, k) : k \in DOMAIN lines}

LEMMA FirstOfThree ==
  ASSUME NEW S, NEW x \in S, NEW y \in S, NEW z \in S
  PROVE  SubSeq(<<x, y, z>>, 1, 1) = <<x>> /\ SubSeq(<<x, y, z>>, 1, 2) = <<x, y>>
<1>1. PICK s \in Seq(S) : s = <<x, y, z>> /\ Len(s) = 3 /\ s[1] = x /\ s[2] = y
  <2>1. <<x, y, z>> \in Seq(S)
    OBVIOUS
  <2> QED
    BY <2>1
<1>2. PICK lo \in Int : lo = 1
  OBVIOUS
<1>3. \A n \in Int : \A i \in lo .. n : n <= 2 => s[i] \in S
  BY <1>1, <1>2
<1>4. ASSUME NEW n \in Nat, n <= 2
      PROVE  SubSeq(s, lo, n) \in Seq(S) /\ Len(SubSeq(s, lo, n)) = n
             /\ \A i \in 1 .. n : SubSeq(s, lo, n)[i] = s[i]
  <2>1. /\ SubSeq(s, lo, n) \in Seq(S)
        /\ Len(SubSeq(s, lo, n)) = IF lo <= n THEN n - lo + 1 ELSE 0
        /\ \A i \in 1 .. n - lo + 1 : SubSeq(s, lo, n)[i] = s[lo + i - 1]
    BY <1>3, <1>4, SubSeqProperties
  <2>2. n - lo + 1 = n /\ \A i \in Int : lo + i - 1 = i
    BY <1>2
  <2> QED
    BY <1>2, <2>1, <2>2
<1>5. <<x>> \in Seq(S) /\ Len(<<x>>) = 1 /\ <<x, y>> \in Seq(S) /\ Len(<<x, y>>) = 2
  OBVIOUS
<1>6. SubSeq(s, lo, 1) = <<x>>
  <2>1. PICK n \in Nat : n = 1
    OBVIOUS
  <2>2. PICK u \in Seq(S) : u = <<x>> /\ Len(u) = n /\ u[1] = x
    BY <1>5, <2>1
  <2>a. n <= 2
    BY <2>1
  <2>3. PICK v \in Seq(S) : v = SubSeq(s, lo, n) /\ Len(v) = n /\ \A i \in 1 .. n : v[i] = s[i]
    BY <1>4, <2>a
  <2>4. \A i \in 1 .. n : v[i] = u[i]
    BY <1>1, <2>1, <2>2, <2>3
  <2>5. v = u
    BY <2>2, <2>3, <2>4, SeqEqual
  <2> QED
    BY <2>1, <2>2, <2>3, <2>5
<1>7. SubSeq(s, lo, 2) = <<x, y>>
  <2>1. PICK n \in Nat : n = 2
    OBVIOUS
  <2>2. PICK u \in Seq(S) : u = <<x, y>> /\ Len(u) = n /\ u[1] = x /\ u[2] = y
    BY <1>5, <2>1
  <2>a. n <= 2
    BY <2>1
  <2>3. PICK v \in Seq(S) : v = SubSeq(s, lo, n) /\ Len(v) = n /\ \A i \in 1 .. n : v[i] = s[i]
    BY <1>4, <2>a
  <2>4. \A i \in 1 .. n : v[i] = u[i]
    BY <1>1, <2>1, <2>2, <2>3
  <2>5. v = u
    BY <2>2, <2>3, <2>4, SeqEqual
  <2> QED
    BY <2>1, <2>2, <2>3, <2>5
<1> QED
  BY <1>1, <1>2, <1>6, <1>7

\* A text cut within its last packet has the frames before it, and perhaps one
\* more of that packet's source and tag.
LEMMA CutRead ==
  ASSUME NEW ps \in Seq(PacketSet), NEW p \in PacketSet, NEW t \in CutsOf(Append(ps, p))
  PROVE  \/ parse_tcpdump_text(t) = Written(ps)
         \/ \E c \in Counter :
              parse_tcpdump_text(t) = Append(Written(ps), [src |-> p.src, vlan |-> p.vlan, seq |-> c])
<1> DEFINE all == Append(ps, p)
           lines == PacketLines(p)
           whole == TextOf(ps)
<1>1. Front(all) = ps /\ Last(all) = p
  <2>1. all \in Seq(PacketSet) /\ Len(all) = Len(ps) + 1 /\ all[Len(ps) + 1] = p
        /\ \A i \in 1 .. Len(ps) : all[i] = ps[i]
    BY AppendProperties
  <2>2. PICK n \in Nat : n = Len(ps)
    OBVIOUS
  <2> HIDE DEF all
  <2>3. Front(all) = SubSeq(all, 1, n)
    BY <2>1, <2>2 DEF Front
  <2>4. SubSeq(all, 1, n) \in Seq(PacketSet) /\ Len(SubSeq(all, 1, n)) = n
        /\ \A i \in 1 .. n : SubSeq(all, 1, n)[i] = all[i]
    <3>1. \A i \in 1 .. n : all[i] \in PacketSet
      BY <2>1, <2>2, ElementOfSeq
    <3>2. 1 \in Int /\ n \in Int
      OBVIOUS
    <3> HIDE DEF PacketSet
    <3>3. /\ SubSeq(all, 1, n) \in Seq(PacketSet)
          /\ Len(SubSeq(all, 1, n)) = IF 1 <= n THEN n - 1 + 1 ELSE 0
          /\ \A i \in 1 .. n - 1 + 1 : SubSeq(all, 1, n)[i] = all[1 + i - 1]
      BY <3>1, <3>2, SubSeqProperties
    <3> QED
      BY <3>3
  <2>5. SubSeq(all, 1, n) = ps
    BY <2>1, <2>2, <2>4, SeqEqual
  <2> QED
    BY <2>1, <2>3, <2>5 DEF Last
<1>2. PICK k \in DOMAIN lines : t \in CutsInLine(whole, lines, k)
  <2>1. CutsOf(all) = CutsWithin(TextOf(Front(all)), PacketLines(Last(all)))
    BY DEF CutsOf, CutsWithin, CutsInLine, CutAt
  <2>2. t \in CutsWithin(whole, lines)
    BY <1>1, <2>1
  <2> HIDE DEF whole, lines
  <2> QED
    BY <2>2 DEF CutsWithin
<1>a. PICK w \in 0 .. Len(lines[k].words), rest \in {<<>>, <<Half>>} : t = CutAt(whole, lines, k, w, rest)
  <2> HIDE DEF whole, lines
  <2> QED
    BY <1>2 DEF CutsInLine
<1>3. t = whole \o SubSeq(lines, 1, k - 1) \o <<CutLine(lines[k], w, rest)>>
  BY <1>a DEF CutAt
<1>4. PICK a \in Seq(WordSet), b \in Seq(WordSet) :
        /\ lines = <<HeaderLine(p), HexLine(a), HexLine(b)>>
        /\ HeaderLine(p) \in LineSet /\ HexLine(a) \in LineSet /\ HexLine(b) \in LineSet
  BY LinesOfPacket
<1>5. whole \in Seq(LineSet) /\ Flush(St(whole)) = Written(ps)
  BY TextRead DEF parse_tcpdump_text, St
<1>6. St(whole) \in StateSet
  BY <1>4, <1>5, OneTurnMore, Zenon
<1>7. parse_tcpdump_text(t) = Flush(St(t))
  BY DEF parse_tcpdump_text, St
<1> HIDE DEF all, lines, whole
<1>8. Flush(St(t)) \in CutReads(St(whole), p)
  <2>1. \A ws \in Seq(WordSet) : HexLine(ws) \in LineSet
    BY DEF HexLine, LineSet
  <2>2. whole \o <<>> = whole
    BY <1>5, ConcatEmptySeq
  <2>3. CASE k = 1
    <3>1. SubSeq(lines, 1, k - 1) = <<>>
      BY <2>3, SubSeqEmpty
    <3>2. CutLine(lines[k], w, rest) = CutHeader
      BY <1>4, <2>3 DEF CutLine, HeaderLine
    <3>3. CutHeader \in LineSet /\ ParseLine(St(whole), CutHeader) = St(whole)
      <4>1. <<>> \in Seq(WordSet)
        BY EmptySeq
      <4>2. CutHeader \in LineSet
        BY <4>1 DEF CutHeader, LineSet
      <4>3. CutHeader.kind = "cut"
        BY DEF CutHeader
      <4>4. CutHeader.kind # "header" /\ CutHeader.kind # "hex"
        BY <4>3
      <4>5. ParseLine(St(whole), CutHeader) = St(whole)
        BY <4>4, Zenon DEF ParseLine
      <4> QED
        BY <4>2, <4>5
    <3>4. St(t) = St(whole)
      <4>1. t = whole \o <<CutHeader>>
        BY <1>3, <2>2, <3>1, <3>2
      <4> QED
        BY <1>5, <3>3, <4>1, TurnsMore
    <3> QED
      BY <3>4 DEF CutReads
  <2>4. CASE k = 2
    <3>1. SubSeq(lines, 1, k - 1) = <<HeaderLine(p)>>
      <4>1. k - 1 = 1
        BY <2>4
      <4> QED
        BY <1>4, <4>1, FirstOfThree
    <3>2. lines[k] = HexLine(a) /\ HexLine(a).words = a
      BY <1>4, <2>4 DEF HexLine
    <3>3. PICK ws \in Seq(WordSet) : CutLine(lines[k], w, rest) = HexLine(ws)
      <4>1. PICK n \in 0 .. Len(a) : n = w
        BY <1>a, <3>2
      <4>2. PICK r \in {<<>>, <<Half>>} : r = rest
        BY <1>a, Zenon
      <4>3. \E ws \in Seq(WordSet) : CutLine(HexLine(a), n, r) = HexLine(ws)
        BY CutLineType
      <4> QED
        BY <3>2, <4>1, <4>2, <4>3
    <3>4. t = (whole \o <<HeaderLine(p)>>) \o <<HexLine(ws)>>
      BY <1>3, <3>1, <3>3
    <3>5. St(t) = ParseLine(ParseLine(St(whole), HeaderLine(p)), HexLine(ws))
      <4>1. whole \o <<HeaderLine(p)>> \in Seq(LineSet)
        BY <1>4, <1>5, ConcatProperties
      <4>2. St(t) = ParseLine(St(whole \o <<HeaderLine(p)>>), HexLine(ws))
        BY <2>1, <3>4, <4>1, TurnsMore
      <4>3. St(whole \o <<HeaderLine(p)>>) = ParseLine(St(whole), HeaderLine(p))
        BY <1>4, <1>5, TurnsMore
      <4> QED
        BY <4>2, <4>3
    <3> QED
      BY <1>4, <1>6, <2>1, <3>5, HeaderThenWords, HalfAPacket
  <2>5. CASE k = 3
    <3>1. SubSeq(lines, 1, k - 1) = <<HeaderLine(p), HexLine(a)>>
      <4>1. k - 1 = 2
        BY <2>5
      <4> QED
        BY <1>4, <4>1, FirstOfThree
    <3>2. lines[k] = HexLine(b) /\ HexLine(b).words = b
      BY <1>4, <2>5 DEF HexLine
    <3>3. PICK ws \in Seq(WordSet) : CutLine(lines[k], w, rest) = HexLine(ws)
      <4>1. PICK n \in 0 .. Len(b) : n = w
        BY <1>a, <3>2
      <4>2. PICK r \in {<<>>, <<Half>>} : r = rest
        BY <1>a, Zenon
      <4>3. \E ws \in Seq(WordSet) : CutLine(HexLine(b), n, r) = HexLine(ws)
        BY CutLineType
      <4> QED
        BY <3>2, <4>1, <4>2, <4>3
    <3>4. t = (whole \o <<HeaderLine(p), HexLine(a)>>) \o <<HexLine(ws)>>
      BY <1>3, <3>1, <3>3
    <3>5. St(t) = ParseLine(ParseLine(ParseLine(St(whole), HeaderLine(p)), HexLine(a)), HexLine(ws))
      <4>1. whole \o <<HeaderLine(p), HexLine(a)>> \in Seq(LineSet)
        BY <1>4, <1>5, ConcatProperties
      <4>2. St(t) = ParseLine(St(whole \o <<HeaderLine(p), HexLine(a)>>), HexLine(ws))
        BY <2>1, <3>4, <4>1, TurnsMore
      <4>3. St(whole \o <<HeaderLine(p), HexLine(a)>>) = ParseLine(ParseLine(St(whole), HeaderLine(p)), HexLine(a))
        BY <1>4, <1>5, TurnsMore
      <4> QED
        BY <4>2, <4>3
    <3>6. a \o ws \in Seq(WordSet)
      BY ConcatProperties
    <3>7. St(t) = [hdr |-> HeaderLine(p), hexparts |-> a \o ws, frames |-> Flush(St(whole))]
      BY <1>4, <1>6, <2>1, <3>5, HeaderThenWords
    <3> QED
      BY <1>4, <1>6, <3>6, <3>7, HalfAPacket
  <2>6. k \in {1, 2, 3}
    BY <1>2, <1>4
  <2> QED
    BY <2>3, <2>4, <2>5, <2>6
<1> QED
  BY <1>5, <1>7, <1>8 DEF CutReads

-------------------------------------------------------------------------------
(* What holds of every state.                                              *)

Sent == FirstFrame .. FirstFrame + sent - 1
Capturable(s) ==
  {f \in PacketSet : f.seq = Seq16(f.num) /\ f.vlan = s.vlan /\ (~s.foreign => f.src = "stream")}
TextsOf(ps, cut) == {TextOf(ps)} \cup (IF cut /\ ps # <<>> THEN CutsOf(ps) ELSE {})
Numbers(ps) == {ps[i].num : i \in {j \in DOMAIN ps : ps[j].src = "stream"}}

Bounds ==
  /\ setup \in Setups
  /\ sent \in 0..MaxSent /\ repeated \in 0..MaxRepeated /\ strange \in 0..MaxForeign
  /\ tap \in [Points -> {"before", "open", "closed"}]

Kept == packets \in [Points -> Seq(Capturable(setup))]

\* The text of a point is that of the packets it has once its capture is over.
Fetched ==
  /\ text = [p \in Points |-> text[p]]
  /\ \A p \in Points : IF tap[p] = "closed" THEN text[p] \in TextsOf(packets[p], setup.cut)
                                            ELSE text[p] = <<>>

\* Only frames sent are on the link, lost or captured.
OnlySent ==
  /\ link \in Seq(Sent)
  /\ lost \subseteq Sent
  /\ \A p \in Points : Captured(p) \subseteq Sent

\* Captures taken together see every frame sent, and end with none on the link.
TogetherInv ==
  Together =>
    /\ sent > 0 => \A p \in Points : tap[p] # "before"
    /\ (\E p \in Points : tap[p] = "closed") => link = <<>> /\ \A p \in Points : tap[p] # "before"
    /\ Captured("console") = Sent
    /\ Sent = ToSet(link) \cup lost \cup Captured("box")

DualInv == Bounds /\ Kept /\ Fetched /\ OnlySent /\ TogetherInv

LEMMA SetupType ==
  ASSUME NEW s \in Setups
  PROVE  s.skew \in BOOLEAN /\ s.cut \in BOOLEAN /\ s.foreign \in BOOLEAN /\ s.vlan \in Nat
BY DualAssumption

LEMMA Seq16Type ==
  ASSUME NEW n \in Nat
  PROVE  Seq16(n) \in Counter
<1>1. SEQ_MODULUS \in Nat \ {0} /\ n \in Int
  BY WordType
<1>2. n % SEQ_MODULUS \in 0 .. SEQ_MODULUS - 1
  BY <1>1, DivMod
<1> QED
  BY <1>2 DEF Seq16, Counter

\* A frame more adds its number, if it is the stream's.
LEMMA NumbersMore ==
  /\ Numbers(<<>>) = {}
  /\ \A ps \in Seq(PacketSet), f \in PacketSet :
       Numbers(Append(ps, f)) = Numbers(ps) \cup (IF f.src = "stream" THEN {f.num} ELSE {})
<1>1. Numbers(<<>>) = {}
  <2>1. DOMAIN <<>> = {}
    OBVIOUS
  <2> QED
    BY <2>1 DEF Numbers
<1>2. ASSUME NEW ps \in Seq(PacketSet), NEW f \in PacketSet
      PROVE  Numbers(Append(ps, f)) = Numbers(ps) \cup (IF f.src = "stream" THEN {f.num} ELSE {})
  <2>1. PICK n \in Nat : n = Len(ps) /\ DOMAIN ps = 1 .. n
    OBVIOUS
  <2>2. PICK all \in Seq(PacketSet) : all = Append(ps, f)
    BY AppendProperties
  <2>3. DOMAIN all = 1 .. n + 1 /\ all[n + 1] = f /\ \A i \in 1 .. n : all[i] = ps[i]
    <3>1. Len(all) = n + 1 /\ DOMAIN all = 1 .. Len(all)
      BY <2>1, <2>2, AppendProperties
    <3> QED
      BY <2>1, <2>2, <3>1, AppendProperties
  <2>4. ASSUME NEW m \in Numbers(all) PROVE m \in Numbers(ps) \cup (IF f.src = "stream" THEN {f.num} ELSE {})
    <3>1. PICK i \in 1 .. n + 1 : all[i].src = "stream" /\ m = all[i].num
      BY <2>3 DEF Numbers
    <3>2. CASE i = n + 1
      BY <2>3, <3>1, <3>2
    <3>3. CASE i # n + 1
      <4>1. i \in 1 .. n
        BY <3>3
      <4> QED
        BY <2>1, <2>3, <3>1, <4>1 DEF Numbers
    <3> QED
      BY <3>2, <3>3
  <2>5. ASSUME NEW m \in Numbers(ps) PROVE m \in Numbers(all)
    <3>1. PICK i \in 1 .. n : ps[i].src = "stream" /\ m = ps[i].num
      BY <2>1 DEF Numbers
    <3>2. i \in 1 .. n + 1 /\ all[i] = ps[i]
      BY <2>3
    <3> QED
      BY <2>3, <3>1, <3>2 DEF Numbers
  <2>6. f.src = "stream" => f.num \in Numbers(all)
    <3>1. n + 1 \in 1 .. n + 1
      OBVIOUS
    <3> QED
      BY <2>3, <3>1 DEF Numbers
  <2> QED
    BY <2>2, <2>4, <2>5, <2>6
<1> QED
  BY <1>1, <1>2

\* What is left of a sequence without one of its elements.
LEMMA RemoveAtType ==
  ASSUME NEW S, NEW s \in Seq(S), NEW i \in DOMAIN s
  PROVE  /\ RemoveAt(s, i) \in Seq(S)
         /\ ToSet(s) = ToSet(RemoveAt(s, i)) \cup {s[i]}
<1>1. PICK n \in Nat : n = Len(s) /\ DOMAIN s = 1 .. n /\ n >= 1
  OBVIOUS
<1>2. PICK lo \in Int : lo = 1
  OBVIOUS
<1> DEFINE a == SubSeq(s, lo, i - 1)
           b == SubSeq(s, i + 1, n)
           r == a \o b
<1>3. a \in Seq(S) /\ Len(a) = i - 1 /\ \A j \in 1 .. i - 1 : a[j] = s[j]
  <2>1. \A j \in lo .. i - 1 : s[j] \in S
    BY <1>1, <1>2, ElementOfSeq
  <2>2. PICK k \in Int : k = i - 1 /\ k >= 0 /\ k - lo + 1 = k /\ \A j \in Int : lo + j - 1 = j
    BY <1>1, <1>2
  <2>3. /\ SubSeq(s, lo, k) \in Seq(S)
        /\ Len(SubSeq(s, lo, k)) = IF lo <= k THEN k - lo + 1 ELSE 0
        /\ \A j \in 1 .. k - lo + 1 : SubSeq(s, lo, k)[j] = s[lo + j - 1]
    BY <2>1, <2>2, SubSeqProperties
  <2> QED
    BY <1>2, <2>2, <2>3
<1>4. b \in Seq(S) /\ Len(b) = n - i /\ \A j \in 1 .. n - i : b[j] = s[i + j]
  <2>1. \A j \in i + 1 .. n : s[j] \in S
    BY <1>1, ElementOfSeq
  <2>0. i \in Int /\ n \in Int /\ i <= n
    BY <1>1
  <2>2. PICK k \in Int : k = i + 1
    BY <2>0
  <2>a. n - k + 1 = n - i /\ (IF k <= n THEN n - k + 1 ELSE 0) = n - i
    BY <2>0, <2>2
  <2>b. \A j \in Int : k + j - 1 = i + j
    BY <2>0, <2>2
  <2>3. /\ SubSeq(s, k, n) \in Seq(S)
        /\ Len(SubSeq(s, k, n)) = IF k <= n THEN n - k + 1 ELSE 0
        /\ \A j \in 1 .. n - k + 1 : SubSeq(s, k, n)[j] = s[k + j - 1]
    <3>1. \A j \in k .. n : s[j] \in S
      BY <2>1, <2>2
    <3> QED
      BY <2>0, <3>1, SubSeqProperties
  <2>4. /\ SubSeq(s, k, n) \in Seq(S) /\ Len(SubSeq(s, k, n)) = n - i
        /\ \A j \in 1 .. n - i : SubSeq(s, k, n)[j] = s[i + j]
    <3> DEFINE u == SubSeq(s, k, n)
    <3>1. u \in Seq(S) /\ Len(u) = n - i
      BY <2>a, <2>3
    <3>2. ASSUME NEW j \in 1 .. n - i PROVE u[j] = s[i + j]
      <4>1. j \in 1 .. n - k + 1 /\ j \in Int
        BY <2>a
      <4>2. u[j] = s[k + j - 1]
        BY <2>3, <4>1
      <4> QED
        BY <2>b, <4>1, <4>2
    <3> QED
      BY <3>1, <3>2
  <2> QED
    BY <2>2, <2>4
<1> HIDE DEF a, b
<1>5. r \in Seq(S) /\ Len(r) = n - 1
      /\ \A j \in 1 .. n - 1 : r[j] = IF j < i THEN s[j] ELSE s[j + 1]
  <2>1. r \in Seq(S) /\ Len(r) = Len(a) + Len(b)
        /\ \A j \in 1 .. Len(a) + Len(b) : r[j] = IF j <= Len(a) THEN a[j] ELSE b[j - Len(a)]
    BY <1>3, <1>4, ConcatProperties
  <2>2. Len(a) + Len(b) = n - 1
    BY <1>1, <1>3, <1>4
  <2>3. ASSUME NEW j \in 1 .. n - 1 PROVE r[j] = IF j < i THEN s[j] ELSE s[j + 1]
    <3>1. CASE j < i
      BY <1>1, <1>3, <2>1, <2>2, <3>1
    <3>2. CASE ~ j < i
      <4>1. j - (i - 1) \in 1 .. n - i /\ i + (j - (i - 1)) = j + 1 /\ ~ j <= i - 1
        BY <1>1, <3>2
      <4>2. r[j] = b[j - (i - 1)]
        BY <1>3, <2>1, <2>2, <4>1
      <4> QED
        BY <1>4, <3>2, <4>1, <4>2
    <3> QED
      BY <3>1, <3>2
  <2> QED
    BY <2>1, <2>2, <2>3
<1>6. RemoveAt(s, i) = r
  BY <1>1, <1>2 DEF RemoveAt, a, b
<1> HIDE DEF r
<1>7. DOMAIN r = 1 .. n - 1
  BY <1>5
<1> DEFINE up(j) == IF j < i THEN j ELSE j + 1
<1>8. \A j \in 1 .. n - 1 : r[j] = s[up(j)] /\ up(j) \in 1 .. n /\ up(j) # i
  BY <1>1, <1>5
<1>9. ToSet(s) = ToSet(r) \cup {s[i]}
  <2>1. ASSUME NEW x \in ToSet(r) PROVE x \in ToSet(s)
    <3>1. PICK j \in 1 .. n - 1 : x = r[j]
      BY <1>7, <2>1 DEF ToSet
    <3>2. PICK k \in 1 .. n : k = up(j) /\ x = s[k]
      BY <1>8, <3>1
    <3> QED
      BY <1>1, <3>2 DEF ToSet
  <2>2. ASSUME NEW x \in ToSet(s), x # s[i] PROVE x \in ToSet(r)
    <3>1. PICK k \in 1 .. n : x = s[k] /\ k # i
      BY <1>1, <2>2 DEF ToSet
    <3>2. PICK j \in 1 .. n - 1 : j = (IF k < i THEN k ELSE k - 1) /\ up(j) = k
      BY <1>1, <3>1
    <3> QED
      BY <1>7, <1>8, <3>1, <3>2 DEF ToSet
  <2>3. s[i] \in ToSet(s)
    BY <1>1 DEF ToSet
  <2> QED
    BY <2>1, <2>2, <2>3
<1> QED
  BY <1>5, <1>6, <1>9

LEMMA AppendSet ==
  ASSUME NEW S, NEW s \in Seq(S), NEW x
  PROVE  /\ Append(s, x) \in Seq(S \cup {x})
         /\ ToSet(Append(s, x)) = ToSet(s) \cup {x}
<1> DEFINE T == S \cup {x}
<1>1. PICK n \in Nat : n = Len(s) /\ DOMAIN s = 1 .. n
  OBVIOUS
<1>2. s \in Seq(T)
  BY SeqMonotonic
<1>3. PICK r \in Seq(T) : r = Append(s, x)
  BY <1>2, AppendProperties
<1>4. DOMAIN r = 1 .. n + 1 /\ r[n + 1] = x /\ \A i \in 1 .. n : r[i] = s[i] /\ s[i] \in S
  <2>1. Len(r) = n + 1 /\ r[n + 1] = x /\ \A i \in 1 .. n : r[i] = s[i]
    BY <1>1, <1>2, <1>3, AppendProperties
  <2>2. DOMAIN r = 1 .. Len(r)
    BY <1>3
  <2> QED
    BY <1>1, <2>1, <2>2, ElementOfSeq
<1>5. \A i \in 1 .. n + 1 : i = n + 1 \/ i \in 1 .. n
  OBVIOUS
<1>6. ToSet(r) = ToSet(s) \cup {x}
  <2>1. n + 1 \in 1 .. n + 1 /\ \A i \in 1 .. n : i \in 1 .. n + 1
    OBVIOUS
  <2> QED
    BY <1>1, <1>4, <1>5, <2>1 DEF ToSet
<1> QED
  BY <1>3, <1>6

LEMMA PacketType ==
  ASSUME setup \in Setups, NEW src \in Names, NEW n \in Nat, src = "stream" \/ setup.foreign
  PROVE  /\ Packet(src, n) \in Capturable(setup)
         /\ Packet(src, n).src = src /\ Packet(src, n).num = n
BY SetupType, Seq16Type DEF Packet, Capturable, PacketSet

\* A point that does not capture, or has captured, keeps what it has.
LEMMA PassesMore ==
  ASSUME Bounds, Kept, NEW p \in Points, NEW f \in Capturable(setup), Passes(p, f), UNCHANGED setup
  PROVE  /\ Kept'
         /\ Captured(p)' = Captured(p) \cup (IF tap[p] = "open" /\ f.src = "stream" THEN {f.num} ELSE {})
         /\ \A q \in Points : q # p => Captured(q)' = Captured(q)
         /\ \A q \in Points : tap[q] = "closed" => packets'[q] = packets[q]
<1> DEFINE C == Capturable(setup)
<1>1. packets \in [Points -> Seq(C)] /\ f \in C
  BY DEF Kept
<1>2. C \subseteq PacketSet
  BY DEF Capturable
<1>3. \A q \in Points : Captured(q) = Numbers(packets[q]) /\ Captured(q)' = Numbers(packets'[q])
  BY DEF Captured, Numbers
<1> HIDE DEF C
<1>4. CASE tap[p] = "open"
  <2>1. packets' = [packets EXCEPT ![p] = Append(packets[p], f)]
    BY <1>4 DEF Passes
  <2>2. packets[p] \in Seq(C) /\ Append(packets[p], f) \in Seq(C)
    BY <1>1, AppendProperties
  <2>3. packets' \in [Points -> Seq(C)] /\ packets'[p] = Append(packets[p], f)
        /\ \A q \in Points : q # p => packets'[q] = packets[q]
    BY <1>1, <2>1, <2>2
  <2>4. packets[p] \in Seq(PacketSet) /\ f \in PacketSet
    BY <1>1, <1>2, <2>2, SeqMonotonic
  <2>5. Numbers(packets'[p]) = Numbers(packets[p]) \cup (IF f.src = "stream" THEN {f.num} ELSE {})
    BY <2>3, <2>4, NumbersMore
  <2>6. Captured(p)' = Captured(p) \cup (IF tap[p] = "open" /\ f.src = "stream" THEN {f.num} ELSE {})
    BY <1>3, <1>4, <2>5
  <2>7. Kept'
    BY <2>3 DEF Kept, C
  <2>8. \A q \in Points : tap[q] = "closed" => q # p
    BY <1>4
  <2> QED
    BY <1>3, <2>3, <2>6, <2>7, <2>8
<1>5. CASE tap[p] # "open"
  <2>1. packets' = packets
    BY <1>5 DEF Passes
  <2>2. Kept'
    BY <1>1, <2>1 DEF Kept, C
  <2> QED
    BY <1>3, <1>5, <2>1, <2>2
<1> QED
  BY <1>4, <1>5

LEMMA FetchedStays ==
  ASSUME Fetched, UNCHANGED <<setup, tap, text>>,
         \A q \in Points : tap[q] = "closed" => packets'[q] = packets[q]
  PROVE  Fetched'
BY DEF Fetched

LEMMA SentMore ==
  ASSUME Bounds, sent' = sent + 1
  PROVE  FirstFrame + sent \in Nat \ Sent /\ Sent' = Sent \cup {FirstFrame + sent} /\ sent + 1 > 0
<1>1. FirstFrame \in Nat /\ sent \in Nat
  BY DualAssumption DEF Bounds
<1>2. Sent' = FirstFrame .. FirstFrame + (sent + 1) - 1
  BY DEF Sent
<1> QED
  BY <1>1, <1>2 DEF Sent

LEMMA InitInv == Init => DualInv
<1> SUFFICES ASSUME Init PROVE DualInv
  OBVIOUS
<1> USE DEF Init
<1>1. Bounds
  BY DualAssumption DEF Bounds
<1>2. Kept
  <2>1. <<>> \in Seq(Capturable(setup))
    BY EmptySeq
  <2> QED
    BY <2>1 DEF Kept
<1>3. Fetched
  BY DEF Fetched
<1>4. \A p \in Points : Captured(p) = {}
  <2>1. \A p \in Points : Captured(p) = Numbers(<<>>)
    BY DEF Captured, Numbers
  <2> QED
    BY <2>1, NumbersMore
<1>5. Sent = {}
  BY DualAssumption DEF Sent
<1>6. link \in Seq(Sent) /\ ToSet(link) = {}
  <2>1. <<>> \in Seq(Sent) /\ DOMAIN <<>> = {}
    BY EmptySeq
  <2> QED
    BY <2>1 DEF ToSet
<1>7. OnlySent
  BY <1>4, <1>6 DEF OnlySent
<1>8. TogetherInv
  <2>1. "console" \in Points /\ "box" \in Points
    BY DEF Points
  <2>2. ~ (sent > 0) /\ \A p \in Points : tap[p] # "closed"
    OBVIOUS
  <2> QED
    BY <1>4, <1>5, <1>6, <2>1, <2>2 DEF TogetherInv
<1> QED
  BY <1>1, <1>2, <1>3, <1>7, <1>8 DEF DualInv

LEMMA SendKeeps ==
  ASSUME DualInv, Send
  PROVE  DualInv'
<1> USE DEF Send
<1>0. Bounds /\ Kept /\ Fetched /\ OnlySent /\ TogetherInv
  BY DEF DualInv
<1> DEFINE n == FirstFrame + sent
           f == Packet("stream", n)
<1>1. n \in Nat \ Sent /\ Sent' = Sent \cup {n}
  BY <1>0, SentMore
<1>2. f \in Capturable(setup) /\ f.src = "stream" /\ f.num = n
  BY <1>0, <1>1, PacketType DEF Bounds, Names
<1>3. "console" \in Points /\ "box" \in Points /\ \A p \in Points : p = "console" \/ p = "box"
  BY DEF Points
<1> HIDE DEF f
<1>4. /\ Kept'
      /\ Captured("console")' = Captured("console") \cup (IF tap["console"] = "open" THEN {n} ELSE {})
      /\ Captured("box")' = Captured("box")
      /\ \A q \in Points : tap[q] = "closed" => packets'[q] = packets[q]
  <2>1. Passes("console", f) /\ UNCHANGED setup
    BY DEF f
  <2>2. /\ Kept'
        /\ Captured("console")' = Captured("console") \cup (IF tap["console"] = "open" /\ f.src = "stream" THEN {f.num} ELSE {})
        /\ \A q \in Points : q # "console" => Captured(q)' = Captured(q)
        /\ \A q \in Points : tap[q] = "closed" => packets'[q] = packets[q]
    BY <1>0, <1>2, <1>3, <2>1, PassesMore
  <2> QED
    BY <1>2, <1>3, <2>2
<1> HIDE DEF n
<1>5. Bounds'
  <2>1. sent' \in 0..MaxSent
    BY <1>0, DualAssumption DEF Bounds
  <2> QED
    BY <1>0, <2>1 DEF Bounds
<1>6. Fetched'
  BY <1>0, <1>4, FetchedStays
<1>7. link' \in Seq(Sent \cup {n}) /\ ToSet(link') = ToSet(link) \cup {n}
  <2>1. link \in Seq(Sent)
    BY <1>0 DEF OnlySent
  <2>2. link' = Append(link, n)
    BY <1>0 DEF n
  <2>3. PICK S, s, x : S = Sent /\ s = link /\ x = n
    OBVIOUS
  <2>4. Append(s, x) \in Seq(S \cup {x}) /\ ToSet(Append(s, x)) = ToSet(s) \cup {x}
    BY <2>1, <2>3, AppendSet
  <2> QED
    BY <2>2, <2>3, <2>4
<1>8. OnlySent'
  <2>1. Captured("console") \subseteq Sent /\ Captured("box") \subseteq Sent
    BY <1>0, <1>3 DEF OnlySent
  <2>2. Captured("console")' \subseteq Sent' /\ Captured("box")' \subseteq Sent'
    BY <1>1, <1>4, <2>1
  <2>3. \A p \in Points : Captured(p)' \subseteq Sent'
    BY <2>2 DEF Points
  <2>4. lost' \subseteq Sent' /\ link' \in Seq(Sent')
    BY <1>0, <1>1, <1>7 DEF OnlySent
  <2> QED
    BY <2>3, <2>4 DEF OnlySent
<1>9. TogetherInv'
  <2> SUFFICES ASSUME Together'
               PROVE  /\ \A p \in Points : tap'[p] # "before" /\ tap'[p] # "closed"
                      /\ Captured("console")' = Sent'
                      /\ Sent' = ToSet(link') \cup lost' \cup Captured("box")'
    BY DEF TogetherInv
  <2>1. Together /\ tap["console"] = "open" /\ tap["box"] = "open" /\ tap' = tap /\ lost' = lost
    BY DEF Together
  <2>2. Captured("console") = Sent /\ Sent = ToSet(link) \cup lost \cup Captured("box")
    BY <1>0, <2>1 DEF TogetherInv
  <2> QED
    BY <1>1, <1>3, <1>4, <1>7, <2>1, <2>2
<1> QED
  BY <1>4, <1>5, <1>6, <1>8, <1>9 DEF DualInv

\* What a link that holds a frame tells.
LEMMA LinkHolds ==
  ASSUME DualInv, NEW i \in DOMAIN link
  PROVE  /\ link[i] \in Sent \cap Nat /\ link[i] \in ToSet(link)
         /\ Together => \A p \in Points : tap[p] = "open"
<1>1. Bounds /\ OnlySent /\ TogetherInv
  BY DEF DualInv
<1>2. link[i] \in ToSet(link) /\ link \in Seq(Sent)
  BY <1>1 DEF OnlySent, ToSet
<1>3. link[i] \in Sent
  BY <1>2
<1>4. FirstFrame \in Nat /\ sent \in Nat
  BY <1>1, DualAssumption DEF Bounds
<1>5. link[i] \in Nat /\ sent > 0
  BY <1>3, <1>4 DEF Sent
<1>6. link # <<>>
  BY <1>2
<1>7. Together => \A p \in Points : tap[p] = "open"
  BY <1>1, <1>5, <1>6 DEF TogetherInv, Bounds
<1> QED
  BY <1>2, <1>3, <1>5, <1>7

\* A number taken from the link may still be on it as a copy.
LEMMA LinkLess ==
  ASSUME DualInv, NEW i \in DOMAIN link, link' = RemoveAt(link, i)
  PROVE  link' \in Seq(Sent) /\ ToSet(link) = ToSet(link') \cup {link[i]}
<1>1. link \in Seq(Sent)
  BY DEF DualInv, OnlySent
<1> QED
  BY <1>1, RemoveAtType

LEMMA LoseKeeps ==
  ASSUME DualInv, NEW i \in DOMAIN link, Lose(i)
  PROVE  DualInv'
<1> USE DEF Lose
<1>0. Bounds /\ Kept /\ Fetched /\ OnlySent /\ TogetherInv
  BY DEF DualInv
<1>1. PICK n : n = link[i]
  OBVIOUS
<1>2. /\ n \in Sent /\ n \in ToSet(link)
      /\ Together => \A p \in Points : tap[p] = "open"
      /\ link' \in Seq(Sent) /\ ToSet(link) = ToSet(link') \cup {n}
  BY <1>1, LinkHolds, LinkLess
<1>3. lost' = lost \cup {n} /\ UNCHANGED <<setup, sent, repeated, strange, tap, packets, text>>
  BY <1>1
<1>4. Bounds' /\ Kept' /\ Fetched'
  BY <1>0, <1>3 DEF Bounds, Kept, Fetched
<1>5. Sent' = Sent /\ \A p \in Points : Captured(p)' = Captured(p)
  BY <1>3 DEF Sent, Captured
<1>6. "box" \in Points /\ "console" \in Points
  BY DEF Points
<1>7. OnlySent'
  BY <1>0, <1>2, <1>3, <1>5 DEF OnlySent
<1>8. TogetherInv'
  <2> SUFFICES ASSUME Together'
               PROVE  /\ \A p \in Points : tap'[p] # "before" /\ tap'[p] # "closed"
                      /\ Captured("console")' = Sent'
                      /\ Sent' = ToSet(link') \cup lost' \cup Captured("box")'
    BY DEF TogetherInv
  <2>1. Together
    BY <1>3 DEF Together
  <2>2. Captured("console") = Sent /\ Sent = ToSet(link) \cup lost \cup Captured("box")
    BY <1>0, <2>1 DEF TogetherInv
  <2>3. \A p \in Points : tap'[p] # "before" /\ tap'[p] # "closed"
    BY <1>2, <1>3, <2>1
  <2> QED
    BY <1>2, <1>3, <1>5, <1>6, <2>2, <2>3
<1> QED
  BY <1>4, <1>7, <1>8 DEF DualInv

LEMMA RepeatKeeps ==
  ASSUME DualInv, NEW i \in DOMAIN link, Repeat(i)
  PROVE  DualInv'
<1> USE DEF Repeat
<1>0. Bounds /\ Kept /\ Fetched /\ OnlySent /\ TogetherInv
  BY DEF DualInv
<1>1. PICK n : n = link[i]
  OBVIOUS
<1>2. n \in Sent /\ n \in ToSet(link) /\ link \in Seq(Sent) /\ link # <<>>
  BY <1>0, <1>1, LinkHolds DEF OnlySent
<1>3. link' = Append(link, n) /\ UNCHANGED <<setup, sent, lost, strange, tap, packets, text>>
  BY <1>1
<1>4. link' \in Seq(Sent) /\ ToSet(link') = ToSet(link)
  <2>1. link' \in Seq(Sent \cup {n}) /\ ToSet(link') = ToSet(link) \cup {n}
    BY <1>2, <1>3, AppendSet
  <2>2. Sent \cup {n} = Sent
    BY <1>2
  <2> QED
    BY <1>2, <2>1, <2>2
<1>5. Bounds'
  <2>1. repeated' \in 0..MaxRepeated
    BY <1>0, DualAssumption DEF Bounds
  <2> QED
    BY <1>0, <1>3, <2>1 DEF Bounds
<1>6. Kept' /\ Fetched'
  BY <1>0, <1>3 DEF Kept, Fetched
<1>7. Sent' = Sent /\ \A p \in Points : Captured(p)' = Captured(p)
  BY <1>3 DEF Sent, Captured
<1>8. OnlySent'
  BY <1>0, <1>3, <1>4, <1>7 DEF OnlySent
<1>9. TogetherInv'
  <2> SUFFICES ASSUME Together'
               PROVE  /\ \A p \in Points : tap'[p] # "before" /\ tap'[p] # "closed"
                      /\ Captured("console")' = Sent'
                      /\ Sent' = ToSet(link') \cup lost' \cup Captured("box")'
    BY DEF TogetherInv
  <2>1. Together
    BY <1>3 DEF Together
  <2>2. Captured("console") = Sent /\ Sent = ToSet(link) \cup lost \cup Captured("box")
    BY <1>0, <2>1 DEF TogetherInv
  <2>3. \A p \in Points : tap'[p] # "before" /\ tap'[p] # "closed"
    BY <1>3, <2>1, LinkHolds
  <2>4. "box" \in Points /\ "console" \in Points
    BY DEF Points
  <2> QED
    BY <1>3, <1>4, <1>7, <2>2, <2>3, <2>4
<1> QED
  BY <1>5, <1>6, <1>8, <1>9 DEF DualInv

LEMMA DeliverKeeps ==
  ASSUME DualInv, NEW i \in DOMAIN link, Deliver(i)
  PROVE  DualInv'
<1> USE DEF Deliver
<1>0. Bounds /\ Kept /\ Fetched /\ OnlySent /\ TogetherInv
  BY DEF DualInv
<1>1. PICK n : n = link[i]
  OBVIOUS
<1>2. /\ n \in Sent /\ n \in Nat /\ n \in ToSet(link)
      /\ Together => \A p \in Points : tap[p] = "open"
      /\ link' \in Seq(Sent) /\ ToSet(link) = ToSet(link') \cup {n}
  BY <1>1, LinkHolds, LinkLess
<1>3. Passes("box", Packet("stream", n)) /\ UNCHANGED <<setup, sent, lost, repeated, strange, tap, text>>
  BY <1>1
<1>4. PICK f : f = Packet("stream", n)
  OBVIOUS
<1>5. f \in Capturable(setup) /\ f.src = "stream" /\ f.num = n
  BY <1>0, <1>2, <1>4, PacketType DEF Bounds, Names
<1>6. "console" \in Points /\ "box" \in Points
  BY DEF Points
<1>7. /\ Kept'
      /\ Captured("box")' = Captured("box") \cup (IF tap["box"] = "open" THEN {n} ELSE {})
      /\ Captured("console")' = Captured("console")
      /\ \A q \in Points : tap[q] = "closed" => packets'[q] = packets[q]
  <2>1. /\ Kept'
        /\ Captured("box")' = Captured("box") \cup (IF tap["box"] = "open" /\ f.src = "stream" THEN {f.num} ELSE {})
        /\ \A q \in Points : q # "box" => Captured(q)' = Captured(q)
        /\ \A q \in Points : tap[q] = "closed" => packets'[q] = packets[q]
    BY <1>0, <1>3, <1>4, <1>5, <1>6, PassesMore
  <2> QED
    BY <1>5, <1>6, <2>1
<1>8. Bounds' /\ Fetched' /\ Sent' = Sent
  BY <1>0, <1>3, <1>7, FetchedStays DEF Bounds, Sent
<1>9. OnlySent'
  <2>1. lost \subseteq Sent /\ Captured("console") \subseteq Sent /\ Captured("box") \subseteq Sent
    BY <1>0, <1>6 DEF OnlySent
  <2>2. lost' \subseteq Sent' /\ Captured("console")' \subseteq Sent' /\ Captured("box")' \subseteq Sent'
    BY <1>2, <1>3, <1>7, <1>8, <2>1
  <2>3. \A p \in Points : Captured(p)' \subseteq Sent'
    BY <2>2 DEF Points
  <2>4. link' \in Seq(Sent')
    BY <1>2, <1>8
  <2> QED
    BY <2>2, <2>3, <2>4 DEF OnlySent
<1>10. TogetherInv'
  <2> SUFFICES ASSUME Together'
               PROVE  /\ \A p \in Points : tap'[p] # "before" /\ tap'[p] # "closed"
                      /\ Captured("console")' = Sent'
                      /\ Sent' = ToSet(link') \cup lost' \cup Captured("box")'
    BY DEF TogetherInv
  <2>1. Together
    BY <1>3 DEF Together
  <2>2. Captured("console") = Sent /\ Sent = ToSet(link) \cup lost \cup Captured("box")
    BY <1>0, <2>1 DEF TogetherInv
  <2>3. \A p \in Points : tap[p] = "open" /\ tap'[p] # "before" /\ tap'[p] # "closed"
    BY <1>2, <1>3, <2>1
  <2>4. Captured("box")' = Captured("box") \cup {n}
    BY <1>6, <1>7, <2>3
  <2> QED
    BY <1>2, <1>3, <1>7, <1>8, <2>2, <2>3, <2>4
<1> QED
  BY <1>7, <1>8, <1>9, <1>10 DEF DualInv

\* Nothing of the stream changes.
LEMMA StreamStays ==
  ASSUME DualInv, UNCHANGED <<setup, sent, link, lost>>,
         \A p \in Points : Captured(p)' = Captured(p)
  PROVE  /\ OnlySent'
         /\ UNCHANGED tap => TogetherInv'
<1>0. OnlySent /\ TogetherInv
  BY DEF DualInv
<1>1. "console" \in Points /\ "box" \in Points
  BY DEF Points
<1>2. Sent' = Sent
  BY DEF Sent
<1>3. OnlySent'
  BY <1>0, <1>1, <1>2 DEF OnlySent
<1>4. UNCHANGED tap => TogetherInv'
  BY <1>0, <1>1, <1>2 DEF TogetherInv, Together
<1> QED
  BY <1>3, <1>4

LEMMA ForeignKeeps ==
  ASSUME DualInv, Foreign
  PROVE  DualInv'
<1> USE DEF Foreign
<1>0. Bounds /\ Kept /\ Fetched
  BY DEF DualInv
<1>1. PICK n \in FirstFrame .. FirstFrame + SEQ_MODULUS - 1 : Passes("box", Packet("other", n))
  OBVIOUS
<1>2. n \in Nat
  BY DualAssumption, WordType
<1>3. PICK f : f = Packet("other", n)
  OBVIOUS
<1>4. f \in Capturable(setup) /\ f.src = "other"
  BY <1>0, <1>2, <1>3, PacketType DEF Bounds, Names
<1>5. "box" \in Points
  BY DEF Points
<1>6. /\ Kept'
      /\ \A q \in Points : Captured(q)' = Captured(q)
      /\ \A q \in Points : tap[q] = "closed" => packets'[q] = packets[q]
  BY <1>0, <1>1, <1>3, <1>4, <1>5, PassesMore
<1>7. Bounds'
  <2>1. strange' \in 0..MaxForeign
    BY <1>0, DualAssumption DEF Bounds
  <2> QED
    BY <1>0, <2>1 DEF Bounds
<1>8. Fetched'
  BY <1>0, <1>6, FetchedStays
<1>9. OnlySent' /\ TogetherInv'
  BY <1>6, StreamStays
<1> QED
  BY <1>6, <1>7, <1>8, <1>9 DEF DualInv

LEMMA StartKeeps ==
  ASSUME DualInv, NEW p \in Points, Start(p)
  PROVE  DualInv'
<1> USE DEF Start
<1>0. Bounds /\ Kept /\ Fetched /\ TogetherInv
  BY DEF DualInv
<1>1. tap'[p] = "open" /\ tap[p] = "before" /\ \A q \in Points : q # p => tap'[q] = tap[q]
  BY <1>0 DEF Bounds
<1>2. Bounds' /\ Kept'
  BY <1>0 DEF Bounds, Kept
<1>3. Fetched'
  BY <1>0, <1>1 DEF Fetched
<1>4. \A q \in Points : Captured(q)' = Captured(q)
  BY DEF Captured
<1>5. OnlySent'
  BY <1>4, StreamStays
<1>6. TogetherInv'
  <2> SUFFICES ASSUME Together'
               PROVE  /\ ~ sent' > 0
                      /\ \A q \in Points : tap'[q] # "closed"
                      /\ Captured("console")' = Sent'
                      /\ Sent' = ToSet(link') \cup lost' \cup Captured("box")'
    BY DEF TogetherInv
  <2>1. Together /\ "console" \in Points /\ "box" \in Points
    BY DEF Together, Points
  <2>2. ~ sent > 0 /\ \A q \in Points : tap[q] # "closed"
    BY <1>0, <1>1, <2>1 DEF TogetherInv
  <2>3. Captured("console") = Sent /\ Sent = ToSet(link) \cup lost \cup Captured("box") /\ Sent' = Sent
    BY <1>0, <2>1 DEF TogetherInv, Sent
  <2> QED
    BY <1>1, <1>4, <2>1, <2>2, <2>3
<1> QED
  BY <1>2, <1>3, <1>5, <1>6 DEF DualInv

LEMMA StopKeeps ==
  ASSUME DualInv, NEW p \in Points, Stop(p)
  PROVE  DualInv'
<1> USE DEF Stop
<1>0. Bounds /\ Kept /\ Fetched /\ TogetherInv
  BY DEF DualInv
<1>1. tap'[p] = "closed" /\ tap[p] = "open" /\ \A q \in Points : q # p => tap'[q] = tap[q]
  BY <1>0 DEF Bounds
<1>2. Bounds' /\ Kept'
  BY <1>0 DEF Bounds, Kept
<1>3. Fetched'
  <2>1. PICK t \in TextsOf(packets[p], setup.cut) : text' = [text EXCEPT ![p] = t]
    BY DEF TextsOf
  <2>2. text' = [q \in Points |-> text'[q]] /\ text'[p] = t /\ \A q \in Points : q # p => text'[q] = text[q]
    BY <1>0, <2>1 DEF Fetched
  <2>3. t \in TextsOf(packets'[p], setup'.cut)
    BY <2>1
  <2> QED
    BY <1>0, <1>1, <2>2, <2>3 DEF Fetched
<1>4. \A q \in Points : Captured(q)' = Captured(q)
  BY DEF Captured
<1>5. OnlySent'
  BY <1>4, StreamStays
<1>6. TogetherInv'
  <2> SUFFICES ASSUME Together'
               PROVE  /\ \A q \in Points : tap'[q] # "before"
                      /\ link' = <<>>
                      /\ Captured("console")' = Sent'
                      /\ Sent' = ToSet(link') \cup lost' \cup Captured("box")'
    BY DEF TogetherInv
  <2>1. Together /\ "console" \in Points /\ "box" \in Points
    BY DEF Together, Points
  <2>2. link = <<>> /\ \A q \in Points : tap[q] # "before"
    BY <2>1 DEF Quiet
  <2>3. Captured("console") = Sent /\ Sent = ToSet(link) \cup lost \cup Captured("box") /\ Sent' = Sent
    BY <1>0, <2>1 DEF TogetherInv, Sent
  <2> QED
    BY <1>1, <1>4, <2>1, <2>2, <2>3
<1> QED
  BY <1>2, <1>3, <1>5, <1>6 DEF DualInv

\* What the two taps hold, and what is on the link between them, in every
\* reachable state.
THEOREM DualSafety == Spec => []DualInv
<1>1. Init => DualInv
  BY InitInv
<1>2. DualInv /\ [Next]_vars => DualInv'
  <2> SUFFICES ASSUME DualInv, [Next]_vars PROVE DualInv'
    OBVIOUS
  <2>1. CASE Send
    BY <2>1, SendKeeps
  <2>2. ASSUME NEW i \in DOMAIN link, Lose(i) PROVE DualInv'
    BY <2>2, LoseKeeps
  <2>3. ASSUME NEW i \in DOMAIN link, Deliver(i) PROVE DualInv'
    BY <2>3, DeliverKeeps
  <2>8. ASSUME NEW i \in DOMAIN link, Repeat(i) PROVE DualInv'
    BY <2>8, RepeatKeeps
  <2>4. CASE Foreign
    BY <2>4, ForeignKeeps
  <2>5. ASSUME NEW p \in Points, Start(p) PROVE DualInv'
    BY <2>5, StartKeeps
  <2>6. ASSUME NEW p \in Points, Stop(p) PROVE DualInv'
    BY <2>6, StopKeeps
  <2>7. CASE UNCHANGED vars
    <3>1. UNCHANGED <<setup, sent, link, lost, repeated, strange, tap, packets, text>>
      BY <2>7 DEF vars
    <3>2. Bounds' /\ Kept' /\ Fetched'
      BY <3>1 DEF DualInv, Bounds, Kept, Fetched
    <3>3. \A p \in Points : Captured(p)' = Captured(p)
      BY <3>1 DEF Captured
    <3>4. OnlySent' /\ TogetherInv'
      BY <3>1, <3>3, StreamStays
    <3> QED
      BY <3>2, <3>4 DEF DualInv
  <2> QED
    BY <2>1, <2>2, <2>3, <2>4, <2>5, <2>6, <2>7, <2>8 DEF Next
<1> QED
  BY <1>1, <1>2, PTL DEF Spec

-------------------------------------------------------------------------------
(* What the captures tell.                                                 *)

\* The frames parsed at a point are those of the packets, all or all but the last,
\* and what is known of the last.
LEMMA FramesRead ==
  ASSUME DualInv, NEW p \in Points
  PROVE  /\ packets[p] \in Seq(PacketSet)
         /\ tap[p] # "closed" => parse_tcpdump_text(text[p]) = <<>>
         /\ tap[p] = "closed" =>
              \/ parse_tcpdump_text(text[p]) = Written(packets[p])
              \/ /\ setup.cut
                 /\ \E ws \in Seq(PacketSet), q \in PacketSet :
                      /\ packets[p] = Append(ws, q)
                      /\ \/ parse_tcpdump_text(text[p]) = Written(ws)
                         \/ \E c \in Counter :
                              parse_tcpdump_text(text[p]) = Append(Written(ws), [src |-> q.src, vlan |-> q.vlan, seq |-> c])
<1>0. Bounds /\ Kept /\ Fetched
  BY DEF DualInv
<1>1. packets[p] \in Seq(PacketSet)
  <2> DEFINE C == Capturable(setup)
  <2>1. packets[p] \in Seq(C) /\ C \subseteq PacketSet
    BY <1>0 DEF Kept, Capturable
  <2> HIDE DEF C
  <2> QED
    BY <2>1, SeqMonotonic
<1>2. CASE tap[p] # "closed"
  <2>1. text[p] = <<>>
    BY <1>0, <1>2 DEF Fetched
  <2>2. parse_tcpdump_text(<<>>) = Flush(ParserStart)
    BY OneTurnMore DEF parse_tcpdump_text, St
  <2>3. Flush(ParserStart) = <<>>
    BY DEF Flush, ParserStart
  <2> QED
    BY <1>1, <1>2, <2>1, <2>2, <2>3
<1>3. CASE tap[p] = "closed"
  <2>1. text[p] \in TextsOf(packets[p], setup.cut)
    BY <1>0, <1>3 DEF Fetched
  <2>2. CASE text[p] = TextOf(packets[p])
    BY <1>1, <1>3, <2>2, TextRead
  <2>3. CASE text[p] # TextOf(packets[p])
    <3>1. setup.cut /\ packets[p] # <<>> /\ text[p] \in CutsOf(packets[p])
      BY <2>1, <2>3 DEF TextsOf
    <3>2. PICK ws \in Seq(PacketSet), q \in PacketSet : packets[p] = Append(ws, q)
      <4> HIDE DEF PacketSet
      <4> QED
        BY <1>1, <3>1, SequenceEmptyOrAppend
    <3>3. \/ parse_tcpdump_text(text[p]) = Written(ws)
          \/ \E c \in Counter :
               parse_tcpdump_text(text[p]) = Append(Written(ws), [src |-> q.src, vlan |-> q.vlan, seq |-> c])
      BY <3>1, <3>2, CutRead
    <3> QED
      BY <1>1, <1>3, <3>1, <3>2, <3>3
  <2> QED
    BY <2>2, <2>3
<1> QED
  BY <1>2, <1>3

LEMMA WrittenAt ==
  ASSUME NEW ps \in Seq(PacketSet)
  PROVE  /\ Written(ps) \in Seq(FrameSet) /\ Len(Written(ps)) = Len(ps) /\ DOMAIN Written(ps) = 1 .. Len(ps)
         /\ \A i \in 1 .. Len(ps) : Written(ps)[i] = FrameOf(ps[i])
<1>1. Written(ps) \in Seq(FrameSet)
  <2>1. PICK p : p \in PacketSet
    <3>1. 0 \in Nat /\ "stream" \in Names /\ 0 \in Counter
      BY WordType DEF Names
    <3>2. [src |-> "stream", vlan |-> 0, num |-> 0, seq |-> 0] \in PacketSet
      BY <3>1 DEF PacketSet
    <3> QED
      BY <3>2
  <2> QED
    BY <2>1, WrittenMore
<1>2. DOMAIN Written(ps) = 1 .. Len(ps) /\ \A i \in 1 .. Len(ps) : Written(ps)[i] = FrameOf(ps[i])
  BY DEF Written
<1>3. Len(Written(ps)) = Len(ps)
  BY <1>1, <1>2
<1> QED
  BY <1>1, <1>2, <1>3

\* The frames of both captures are frames.
LEMMA FramesType ==
  ASSUME DualInv, NEW p \in Points
  PROVE  parse_tcpdump_text(text[p]) \in Seq(FrameSet)
<1> DEFINE frames == parse_tcpdump_text(text[p])
<1>1. CASE frames = <<>>
  BY <1>1, EmptySeq
<1>2. ASSUME NEW ps \in Seq(PacketSet), frames = Written(ps) PROVE frames \in Seq(FrameSet)
  BY <1>2, WrittenAt
<1>3. ASSUME NEW ps \in Seq(PacketSet), NEW q \in PacketSet, NEW c \in Counter,
             frames = Append(Written(ps), [src |-> q.src, vlan |-> q.vlan, seq |-> c])
      PROVE  frames \in Seq(FrameSet)
  <2>1. [src |-> q.src, vlan |-> q.vlan, seq |-> c] \in FrameSet
    BY DEF PacketSet, FrameSet
  <2> QED
    BY <1>3, <2>1, WrittenAt, AppendProperties
<1> HIDE DEF frames
<1>4. /\ packets[p] \in Seq(PacketSet)
      /\ tap[p] # "closed" => frames = <<>>
      /\ tap[p] = "closed" =>
           \/ frames = Written(packets[p])
           \/ \E ws \in Seq(PacketSet), q \in PacketSet :
                \/ frames = Written(ws)
                \/ \E c \in Counter : frames = Append(Written(ws), [src |-> q.src, vlan |-> q.vlan, seq |-> c])
  BY FramesRead DEF frames
<1> QED
  BY <1>1, <1>2, <1>3, <1>4 DEF frames

\* Every variable keeps its type, and every counter parsed has its width.
THEOREM TypeCorrect == Spec => []TypeOK
<1>1. DualInv => TypeOK
  <2> SUFFICES ASSUME DualInv PROVE TypeOK
    OBVIOUS
  <2>1. Bounds /\ OnlySent
    BY DEF DualInv
  <2>2. link \in Seq(FirstFrame .. FirstFrame + MaxSent - 1)
    <3>1. Sent \subseteq FirstFrame .. FirstFrame + MaxSent - 1
      BY <2>1, DualAssumption DEF Bounds, Sent
    <3>2. link \in Seq(Sent)
      BY <2>1 DEF OnlySent
    <3> QED
      BY <3>1, <3>2, SeqMonotonic
  <2>3. ASSUME NEW p \in Points, NEW f \in Frames(p) PROVE f.seq \in 0 .. SEQ_MODULUS - 1
    <3>1. PICK fs \in Seq(FrameSet) : fs = parse_tcpdump_text(text[p])
      BY FramesType
    <3>2. PICK i \in DOMAIN fs : f = fs[i]
      BY <3>1 DEF Frames, ToSet
    <3>3. f \in FrameSet
      BY <3>2
    <3> QED
      BY <3>3 DEF FrameSet, Counter
  <2> QED
    BY <2>1, <2>2, <2>3 DEF Bounds, TypeOK
<1> QED
  BY <1>1, DualSafety, PTL

\* parse_tcpdump_text gives back the packets written, whatever they are and
\* wherever the text is cut, but for the counters of those that hide theirs.
THEOREM ParsedCorrect == Spec => []ParsedAsWritten
<1>1. DualInv => ParsedAsWritten
  <2> SUFFICES ASSUME DualInv, NEW p \in Points, tap[p] = "closed"
               PROVE  LET frames == parse_tcpdump_text(text[p])
                          written == packets[p]
                          sure == IF Whole THEN Len(written) ELSE Len(written) - 1
                      IN  /\ Len(frames) \in sure..Len(written)
                          /\ \A i \in DOMAIN frames :
                               /\ frames[i].src = written[i].src /\ frames[i].vlan = written[i].vlan
                               /\ i <= sure /\ ~Hides(written[i]) => frames[i].seq = written[i].seq
    BY DEF ParsedAsWritten
  <2> DEFINE frames == parse_tcpdump_text(text[p])
             written == packets[p]
             sure == IF Whole THEN Len(written) ELSE Len(written) - 1
             Goal == /\ Len(frames) \in sure..Len(written)
                     /\ \A i \in DOMAIN frames :
                          /\ frames[i].src = written[i].src /\ frames[i].vlan = written[i].vlan
                          /\ i <= sure /\ ~Hides(written[i]) => frames[i].seq = written[i].seq
  <2>0. \A q : FrameOf(q).src = q.src /\ FrameOf(q).vlan = q.vlan /\ (~Hides(q) => FrameOf(q).seq = q.seq)
    BY DEF FrameOf, SeqRead
  <2>1. PICK n \in Nat : n = Len(written)
    BY FramesRead
  <2>2. written \in Seq(PacketSet) /\ sure \in {n, n - 1} /\ (setup.cut => sure = n - 1)
    BY <2>1, FramesRead DEF Whole
  <2>3. ASSUME frames = Written(written) PROVE Goal
    <3>1. Len(frames) = n /\ DOMAIN frames = 1 .. n /\ \A i \in 1 .. n : frames[i] = FrameOf(written[i])
      BY <2>1, <2>2, <2>3, WrittenAt
    <3>2. n \in sure .. n
      BY <2>2
    <3> HIDE DEF frames, written, sure
    <3> QED
      BY <2>0, <2>1, <3>1, <3>2
  <2>4. ASSUME NEW ws \in Seq(PacketSet), NEW q \in PacketSet, setup.cut, written = Append(ws, q),
               frames = Written(ws)
        PROVE  Goal
    <3>1. n = Len(ws) + 1 /\ Len(ws) \in Nat /\ \A i \in 1 .. Len(ws) : written[i] = ws[i]
      BY <2>1, <2>4, AppendProperties
    <3>2. Len(frames) = Len(ws) /\ DOMAIN frames = 1 .. Len(ws) /\ \A i \in 1 .. Len(ws) : frames[i] = FrameOf(ws[i])
      BY <2>4, WrittenAt
    <3> HIDE DEF frames, written, sure
    <3>3. sure = Len(ws) /\ n = Len(written) /\ Len(ws) \in sure .. n
      BY <2>1, <2>2, <2>4, <3>1
    <3> QED
      BY <2>0, <3>1, <3>2, <3>3
  <2>5. ASSUME NEW ws \in Seq(PacketSet), NEW q \in PacketSet, setup.cut, written = Append(ws, q), NEW c \in Counter,
               frames = Append(Written(ws), [src |-> q.src, vlan |-> q.vlan, seq |-> c])
        PROVE  Goal
    <3>0. PICK m \in Nat : m = Len(ws)
      OBVIOUS
    <3>1. n = m + 1 /\ written[m + 1] = q /\ \A i \in 1 .. m : written[i] = ws[i]
      BY <2>1, <2>5, <3>0, AppendProperties
    <3>2. PICK r \in FrameSet : r = [src |-> q.src, vlan |-> q.vlan, seq |-> c]
      BY DEF PacketSet, FrameSet
    <3>3. /\ frames \in Seq(FrameSet) /\ Len(frames) = m + 1 /\ frames[m + 1] = r
          /\ \A i \in 1 .. m : frames[i] = FrameOf(ws[i])
      <4>1. /\ Written(ws) \in Seq(FrameSet) /\ Len(Written(ws)) = m
            /\ \A i \in 1 .. m : Written(ws)[i] = FrameOf(ws[i])
        BY <3>0, WrittenAt
      <4> QED
        BY <2>5, <3>2, <4>1, AppendProperties
    <3> HIDE DEF frames, written, sure
    <3>4. DOMAIN frames = 1 .. m + 1
      BY <3>3
    <3>5. sure = m /\ n = Len(written) /\ m + 1 \in sure .. n
      BY <2>1, <2>2, <2>5, <3>1
    <3>6. ASSUME NEW i \in 1 .. m + 1
          PROVE  /\ frames[i].src = written[i].src /\ frames[i].vlan = written[i].vlan
                 /\ i <= sure /\ ~Hides(written[i]) => frames[i].seq = written[i].seq
      <4>1. CASE i = m + 1
        BY <3>1, <3>2, <3>3, <3>5, <4>1
      <4>2. CASE i # m + 1
        <5>1. i \in 1 .. m
          BY <4>2
        <5> QED
          BY <2>0, <3>1, <3>3, <5>1
      <4> QED
        BY <4>1, <4>2
    <3> QED
      BY <3>1, <3>3, <3>4, <3>5, <3>6
  <2>6. \/ frames = Written(written)
        \/ /\ setup.cut
           /\ \E ws \in Seq(PacketSet), q \in PacketSet :
                /\ written = Append(ws, q)
                /\ \/ frames = Written(ws)
                   \/ \E c \in Counter : frames = Append(Written(ws), [src |-> q.src, vlan |-> q.vlan, seq |-> c])
    BY FramesRead
  <2>7. Goal
    <3>1. ASSUME NEW ws \in Seq(PacketSet), NEW q \in PacketSet, setup.cut, written = Append(ws, q),
                 \/ frames = Written(ws)
                 \/ \E c \in Counter : frames = Append(Written(ws), [src |-> q.src, vlan |-> q.vlan, seq |-> c])
          PROVE  Goal
      <4> HIDE DEF Goal, frames, written
      <4>1. CASE frames = Written(ws)
        BY <2>4, <3>1, <4>1
      <4>2. ASSUME NEW c \in Counter, frames = Append(Written(ws), [src |-> q.src, vlan |-> q.vlan, seq |-> c])
            PROVE  Goal
        BY <2>5, <3>1, <4>2
      <4> QED
        BY <3>1, <4>1, <4>2
    <3> HIDE DEF Goal, frames, written
    <3> QED
      BY <2>3, <2>6, <3>1
  <2> QED
    BY <2>7
<1> QED
  BY <1>1, DualSafety, PTL

\* Of whole texts of the stream alone the counters parsed are those of the
\* numbers captured.
LEMMA CountersCaptured ==
  ASSUME DualInv, NEW p \in Points, tap[p] = "closed", Whole, StreamAlone
  PROVE  Counters(Frames(p)) = {Seq16(n) : n \in Captured(p)}
<1> DEFINE ps == packets[p]
<1>1. ps \in Seq(Capturable(setup)) /\ ps \in Seq(PacketSet)
  BY FramesRead DEF DualInv, Kept
<1>2. parse_tcpdump_text(text[p]) = Written(ps)
  BY FramesRead DEF Whole
<1>3. PICK n \in Nat : n = Len(ps) /\ DOMAIN ps = 1 .. n
  BY <1>1
<1> HIDE DEF ps
<1>4. \A i \in 1 .. n : ps[i].src = "stream" /\ ps[i].seq = Seq16(ps[i].num) /\ ~Hides(ps[i])
  <2>1. \A i \in 1 .. n : ps[i] \in Capturable(setup)
    BY <1>1, <1>3, ElementOfSeq
  <2>2. \A i \in 1 .. n : ps[i].src = "stream" /\ ps[i].seq = Seq16(ps[i].num) /\ ps[i].vlan = setup.vlan
    BY <2>1 DEF Capturable, StreamAlone
  <2> QED
    BY <2>2 DEF Hides, StreamAlone, StreamHides
<1>5. Captured(p) = {ps[i].num : i \in 1 .. n}
  BY <1>3, <1>4 DEF Captured, ps
<1>6. PICK fs : fs = Written(ps) /\ DOMAIN fs = 1 .. n /\ \A i \in 1 .. n : fs[i] = FrameOf(ps[i])
  BY <1>1, <1>3, WrittenAt
<1>7. \A i \in 1 .. n : fs[i].seq = Seq16(ps[i].num)
  BY <1>4, <1>6 DEF FrameOf, SeqRead
<1>8. Counters(Frames(p)) = {fs[i].seq : i \in 1 .. n}
  BY <1>2, <1>6 DEF Counters, Frames, ToSet
<1> QED
  BY <1>5, <1>7, <1>8

\* Within a turn of the counter the report is that of the numbers captured.
LEMMA ReportIsOfNumbers ==
  ASSUME DualInv, Done, Whole, UnderATurn, StreamAlone
  PROVE  LET A == Captured("console")
             B == Captured("box")
         IN  /\ Report.lost_in_transit = {Seq16(n) : n \in A \ B}
             /\ Report.unexpected_at_receiver = {Seq16(n) : n \in B \ A}
             /\ A \subseteq Sent /\ B \subseteq Sent
             /\ \A a, b \in Sent : Seq16(a) = Seq16(b) => a = b
<1> DEFINE A == Captured("console")
           B == Captured("box")
<1>1. "console" \in Points /\ "box" \in Points
  BY DEF Points
<1>2. Counters(Frames("console")) = {Seq16(n) : n \in A} /\ Counters(Frames("box")) = {Seq16(n) : n \in B}
  BY <1>1, CountersCaptured DEF Done
<1>3. A \subseteq Sent /\ B \subseteq Sent
  BY <1>1 DEF DualInv, OnlySent
<1>4. ASSUME NEW a \in Sent, NEW b \in Sent, Seq16(a) = Seq16(b) PROVE a = b
  <2>1. SEQ_MODULUS \in Nat \ {0} /\ FirstFrame \in Nat /\ sent \in Nat /\ sent <= SEQ_MODULUS
    BY WordType, DualAssumption DEF DualInv, Bounds, UnderATurn
  <2>2. a \in Int /\ b \in Int /\ -SEQ_MODULUS < a - b /\ a - b < SEQ_MODULUS
    BY <2>1 DEF Sent
  <2> QED
    BY <1>4, <2>1, <2>2, SameRemainder DEF Seq16
<1> HIDE DEF A, B
<1>5. {Seq16(n) : n \in A} \ {Seq16(n) : n \in B} = {Seq16(n) : n \in A \ B}
      /\ {Seq16(n) : n \in B} \ {Seq16(n) : n \in A} = {Seq16(n) : n \in B \ A}
  BY <1>3, <1>4, ImagesDiffer
<1>6. Report.lost_in_transit = Counters(Frames("console")) \ Counters(Frames("box"))
      /\ Report.unexpected_at_receiver = Counters(Frames("box")) \ Counters(Frames("console"))
  BY DEF Report, diff_streams
<1> QED
  BY <1>2, <1>3, <1>4, <1>5, <1>6 DEF A, B

\* Within a turn of the counter diff_streams reports every frame the link lost
\* of those the console's capture has, and of captures taken together no other.
THEOREM LossCorrect == Spec => []LossIsReported
<1>1. DualInv => LossIsReported
  <2> SUFFICES ASSUME DualInv, Done, Whole, UnderATurn, StreamAlone
               PROVE  LET really == {Seq16(n) : n \in (Captured("console") \cap lost) \ Captured("box")}
                      IN  /\ really \subseteq Report.lost_in_transit
                          /\ Together => Report.lost_in_transit = really /\ Report.unexpected_at_receiver = {}
    BY DEF LossIsReported
  <2> DEFINE A == Captured("console")
             B == Captured("box")
  <2>1. /\ Report.lost_in_transit = {Seq16(n) : n \in A \ B}
        /\ Report.unexpected_at_receiver = {Seq16(n) : n \in B \ A}
        /\ A \subseteq Sent /\ B \subseteq Sent
    BY ReportIsOfNumbers
  <2>3. Together => A = Sent /\ Sent = lost \cup B
    <3> SUFFICES ASSUME Together PROVE A = Sent /\ Sent = lost \cup B
      OBVIOUS
    <3>1. \E p \in Points : tap[p] = "closed"
      BY DEF Done, Points
    <3>2. link = <<>> /\ A = Sent /\ Sent = ToSet(link) \cup lost \cup B
      BY <3>1 DEF DualInv, TogetherInv
    <3>3. ToSet(<<>>) = {}
      BY DEF ToSet
    <3> QED
      BY <3>2, <3>3
  <2> HIDE DEF A, B
  <2>4. (A \cap lost) \ B \subseteq A \ B
    OBVIOUS
  <2>5. Together => (A \cap lost) \ B = A \ B /\ B \ A = {}
    BY <2>1, <2>3
  <2>6. {Seq16(n) : n \in (A \cap lost) \ B} \subseteq Report.lost_in_transit
    BY <2>1, <2>4
  <2>7. Together => Report.lost_in_transit = {Seq16(n) : n \in (A \cap lost) \ B} /\ Report.unexpected_at_receiver = {}
    BY <2>1, <2>5
  <2> QED
    BY <2>6, <2>7 DEF A, B
<1> QED
  BY <1>1, DualSafety, PTL

\* Within a turn of the counter a link said to be clean brought to the box's
\* capture every frame the console's has, and no other.
THEOREM CleanCorrect == Spec => []CleanIsClean
<1>1. DualInv => CleanIsClean
  <2> SUFFICES ASSUME DualInv, Done, Whole, UnderATurn, StreamAlone,
                      LinkClean(Frames("console"), Frames("box"))
               PROVE  Captured("console") = Captured("box")
    BY DEF CleanIsClean
  <2>1. Report.lost_in_transit = {} /\ Report.unexpected_at_receiver = {}
    BY DEF LinkClean, Report
  <2>2. /\ Report.lost_in_transit = {Seq16(n) : n \in Captured("console") \ Captured("box")}
        /\ Report.unexpected_at_receiver = {Seq16(n) : n \in Captured("box") \ Captured("console")}
    BY ReportIsOfNumbers
  <2> QED
    BY <2>1, <2>2
<1> QED
  BY <1>1, DualSafety, PTL
===============================================================================
