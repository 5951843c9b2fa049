------------------------ MODULE HeadampCampaign_proofs ------------------------
(***************************************************************************)
(* A manifest names the steps of one whole plan, and the analysis of the   *)
(* files it lists tells the console's controls, for any plans, any number  *)
(* of campaigns in one directory and any interleaving of the operator, of  *)
(* tcpdump and of the analysis.                                            *)
(***************************************************************************)
EXTENDS HeadampCampaign, Lemmas

\* s lists the first n steps of plan p, each under its own file.
ListsSteps(s, p, n) ==
  /\ s = [i \in 1..n |-> s[i]]
  /\ \A i \in 1..n : s[i].step = p[i] /\ s[i].pcap = PcapName(i, p[i])

\* A campaign that runs is at a step of its plan, and only then is there a capture.
AtAStep ==
  /\ plan \in Plans \cup {<<>>}
  /\ step \in 0..Len(plan)
  /\ step = 0 <=> plan = <<>>
  /\ capture # NotCapturing => step > 0

\* It has listed the steps before the one at hand ...
ListIsPrefix == IF step = 0 THEN segments = <<>> ELSE ListsSteps(segments, plan, step - 1)

\* ... and a manifest, if there is one, lists a whole plan.
ManifestIsList == manifest # <<>> => \E p \in Plans : ListsSteps(manifest, p, Len(p))

IInv == AtAStep /\ ListIsPrefix /\ ManifestIsList

LEMMA PlanType ==
  ASSUME NEW p \in Plans
  PROVE  p \in Seq(ToSet(p)) /\ Len(p) \in Nat /\ Len(p) > 0 /\ p # <<>> /\ p = [i \in 1..Len(p) |-> p[i]]
<1>1. p \in Seq(ToSet(p)) /\ Len(p) > 0
  BY CampaignAssumption
<1> QED
  BY <1>1

\* Append after n entries.
LEMMA AppendList ==
  ASSUME NEW n \in Nat, NEW s, s = [i \in 1..n |-> s[i]], NEW e
  PROVE  /\ Append(s, e) = [i \in 1..n + 1 |-> Append(s, e)[i]]
         /\ \A i \in 1..n : Append(s, e)[i] = s[i]
         /\ Append(s, e)[n + 1] = e
<1> DEFINE S == {s[i] : i \in 1..n} \cup {e}
<1>1. s \in [1..n -> S]
  OBVIOUS
<1> HIDE DEF S
<1>2. s \in Seq(S) /\ Len(s) = n
  BY <1>1
<1>3. e \in S
  BY DEF S
<1> QED
  BY <1>2, <1>3

LEMMA IInvInit == Init => IInv
<1> SUFFICES ASSUME Init PROVE IInv
  OBVIOUS
<1>1. plan = <<>> /\ step = 0 /\ segments = <<>> /\ manifest = <<>> /\ capture = NotCapturing
  BY DEF Init
<1> QED
  BY <1>1 DEF IInv, AtAStep, ListIsPrefix, ManifestIsList

\* A step listed makes the list one longer, or the manifest whole.
LEMMA ListedKeeps ==
  ASSUME IInv, step > 0, NEW fs, Listed(fs)
  PROVE  IInv'
<1> DEFINE e == [step |-> plan[step], pcap |-> PcapName(step, plan[step]),
                 frames |-> IF PcapName(step, plan[step]) \in DOMAIN fs
                              THEN Len(fs[PcapName(step, plan[step])]) ELSE -1]
<1>1. /\ plan \in Plans /\ Len(plan) \in Nat /\ step \in 1..Len(plan) /\ plan # <<>>
      /\ ListsSteps(segments, plan, step - 1)
  <2>1. plan \in Plans
    BY DEF IInv, AtAStep
  <2> QED
    BY <2>1, PlanType DEF IInv, AtAStep, ListIsPrefix
<1>2. IF step = Len(plan)
        THEN manifest' = Append(segments, e) /\ segments' = <<>> /\ step' = 0 /\ plan' = <<>>
        ELSE manifest' = manifest /\ segments' = Append(segments, e) /\ step' = step + 1 /\ plan' = plan
  BY DEF Listed
<1>3. capture' = NotCapturing
  BY DEF Listed
<1>4. e.step = plan[step] /\ e.pcap = PcapName(step, plan[step])
  OBVIOUS
<1> HIDE DEF e
<1>5. ListsSteps(Append(segments, e), plan, step)
  <2>1. PICK n \in Nat : n = step - 1
    BY <1>1
  <2>2. step = n + 1
    BY <1>1, <2>1
  <2>3. /\ Append(segments, e) = [i \in 1..n + 1 |-> Append(segments, e)[i]]
        /\ \A i \in 1..n : Append(segments, e)[i] = segments[i]
        /\ Append(segments, e)[n + 1] = e
    BY <1>1, <2>1, AppendList DEF ListsSteps
  <2>4. ASSUME NEW i \in 1..n + 1
        PROVE  /\ Append(segments, e)[i].step = plan[i]
               /\ Append(segments, e)[i].pcap = PcapName(i, plan[i])
    <3>1. CASE i = n + 1
      BY <1>4, <2>2, <2>3, <3>1
    <3>2. CASE i \in 1..n
      BY <1>1, <2>1, <2>3, <3>2 DEF ListsSteps
    <3>3. i = n + 1 \/ i \in 1..n
      OBVIOUS
    <3> QED
      BY <3>1, <3>2, <3>3
  <2> QED
    BY <2>2, <2>3, <2>4 DEF ListsSteps
<1>6. CASE step = Len(plan)
  <2>1. ManifestIsList'
    BY <1>1, <1>2, <1>5, <1>6 DEF ManifestIsList, ListsSteps
  <2>2. AtAStep' /\ ListIsPrefix'
    BY <1>2, <1>6, <1>3 DEF AtAStep, ListIsPrefix
  <2> QED
    BY <2>1, <2>2 DEF IInv
<1>7. CASE step # Len(plan)
  <2>1. AtAStep'
    BY <1>1, <1>2, <1>7, <1>3 DEF AtAStep
  <2>2. step' # 0 /\ step' - 1 = step
    BY <1>1, <1>2, <1>7
  <2>3. ListIsPrefix'
    BY <1>2, <1>5, <1>7, <2>2 DEF ListIsPrefix, ListsSteps
  <2>4. ManifestIsList'
    BY <1>2, <1>7 DEF IInv, ManifestIsList, ListsSteps
  <2> QED
    BY <2>1, <2>3, <2>4 DEF IInv
<1> QED
  BY <1>6, <1>7

LEMMA IInvNext == IInv /\ [Next]_vars => IInv'
<1> SUFFICES ASSUME IInv, [Next]_vars PROVE IInv'
  OBVIOUS
<1>1. CASE UNCHANGED <<plan, step, segments, manifest>> /\ (capture' # NotCapturing => step > 0)
  BY <1>1 DEF IInv, AtAStep, ListIsPrefix, ManifestIsList, ListsSteps
<1>2. CASE Start
  <2>1. plan' \in Plans /\ step' = 1 /\ segments' = <<>> /\ manifest' = manifest
    BY <1>2 DEF Start
  <2>2. AtAStep'
    <3>1. PICK p \in Plans : p = plan'
      BY <2>1
    <3> QED
      BY <2>1, <3>1, PlanType DEF AtAStep
  <2>3. ListIsPrefix'
    BY <2>1 DEF ListIsPrefix, ListsSteps
  <2> QED
    BY <2>1, <2>2, <2>3 DEF IInv, ManifestIsList, ListsSteps
<1>3. CASE Abort \/ AbortCapture
  <2>1. /\ plan' = <<>> /\ step' = 0 /\ segments' = <<>> /\ manifest' = manifest
        /\ capture' = NotCapturing
    BY <1>3 DEF Abort, AbortCapture
  <2> QED
    BY <2>1 DEF IInv, AtAStep, ListIsPrefix, ManifestIsList, ListsSteps
<1>4. CASE Stop \/ CaptureFails
  <2>1. step > 0
    BY <1>4, CampaignAssumption DEF Stop, CaptureFails, IInv, AtAStep
  <2> QED
    BY <1>4, <2>1, ListedKeeps DEF Stop, CaptureFails
<1>5. \/ Start \/ Abort \/ AbortCapture \/ Stop \/ CaptureFails
      \/ UNCHANGED <<plan, step, segments, manifest>> /\ (capture' # NotCapturing => step > 0)
  BY DEF Next, SetControl, Enter, Captured, Analyse, vars, IInv, AtAStep
<1> QED
  BY <1>1, <1>2, <1>3, <1>4, <1>5

\* Whatever campaigns were aborted, failed to capture or ran in the directory
\* before, a manifest lists one whole plan in order, one file for each step.
THEOREM ManifestCorrect == Spec => []ManifestIsAWholePlan
<1>1. IInv => ManifestIsAWholePlan
  <2> SUFFICES ASSUME IInv, manifest # <<>>
               PROVE  /\ Steps \in Plans
                      /\ \A i, j \in DOMAIN manifest : manifest[i].pcap = manifest[j].pcap => i = j
    BY DEF ManifestIsAWholePlan
  <2>1. PICK p \in Plans : ListsSteps(manifest, p, Len(p))
    BY DEF IInv, ManifestIsList
  <2>2. DOMAIN manifest = 1..Len(p)
    BY <2>1 DEF ListsSteps
  <2>3. Steps = [i \in 1..Len(p) |-> p[i]]
    BY <2>1, <2>2 DEF Steps, StepsOf, ListsSteps
  <2>4. Steps = p
    BY <2>3, PlanType
  <2>5. \A i, j \in DOMAIN manifest : manifest[i].pcap = manifest[j].pcap => i = j
    BY <2>1, <2>2 DEF ListsSteps, PcapName
  <2> QED
    BY <2>4, <2>5
<1> QED
  BY <1>1, IInvInit, IInvNext, PTL DEF Spec

-------------------------------------------------------------------------------
(* The blocks of the console.                                               *)

\* A step of a plan sets one control of one channel, or none.
LEMMA StepType ==
  ASSUME NEW st \in StepsOfPlans
  PROVE  \/ st.control = "none" /\ st.value = 0
         \/ st.control = "gain" /\ st.value \in 0..255 /\ st.channel \in Channels
         \/ st.control = "48v" /\ st.value \in {0, 1} /\ st.channel \in Channels
<1>1. PICK p \in Plans : st \in ToSet(p)
  BY DEF StepsOfPlans
<1>2. PICK i \in DOMAIN p : st = p[i]
  BY <1>1 DEF ToSet
<1>3. \/ p[i].control = "none" /\ p[i].value = 0
      \/ p[i].control = "gain" /\ p[i].value \in 0..255 /\ p[i].channel \in Channels
      \/ p[i].control = "48v" /\ p[i].value \in {0, 1} /\ p[i].channel \in Channels
  BY CampaignAssumption
<1> QED
  BY <1>2, <1>3

\* The settings a prompt asks for, channel by channel.
LEMMA AskedType ==
  ASSUME NEW st \in StepsOfPlans
  PROVE  /\ Asked(st).gain \in [Channels -> 0..255]
         /\ Asked(st).phantom \in [Channels -> {0, 1}]
         /\ \A c \in Channels :
              /\ Asked(st).gain[c] = IF st.control = "gain" /\ c = st.channel THEN st.value ELSE 0
              /\ Asked(st).phantom[c] = IF st.control = "48v" /\ c = st.channel THEN st.value ELSE 0
<1>1. CASE st.control = "none"
  BY <1>1 DEF Asked, Flat
<1>2. CASE st.control = "gain" /\ st.value \in 0..255 /\ st.channel \in Channels
  BY <1>2 DEF Asked, Flat
<1>3. CASE st.control = "48v" /\ st.value \in {0, 1} /\ st.channel \in Channels
  BY <1>3 DEF Asked, Flat
<1> QED
  BY <1>1, <1>2, <1>3, StepType

\* A prompt asks for the flat console exactly if its value is flat.
LEMMA AskedFlat ==
  ASSUME NEW st \in StepsOfPlans
  PROVE  Asked(st) = Flat <=> st.value = 0
<1>1. CASE st.control = "none" /\ st.value = 0
  BY <1>1 DEF Asked
<1>2. CASE st.control = "gain" /\ st.value \in 0..255 /\ st.channel \in Channels
  <2>1. Asked(st) = [Flat EXCEPT !.gain[st.channel] = st.value]
    BY <1>2 DEF Asked
  <2>2. Asked(st).gain[st.channel] = st.value /\ Flat.gain[st.channel] = 0
    BY <1>2, <2>1 DEF Flat
  <2>3. st.value = 0 => Asked(st) = Flat
    BY <2>1, <2>2 DEF Flat
  <2> QED
    BY <2>2, <2>3
<1>3. CASE st.control = "48v" /\ st.value \in {0, 1} /\ st.channel \in Channels
  <2>1. Asked(st) = [Flat EXCEPT !.phantom[st.channel] = st.value]
    BY <1>3 DEF Asked
  <2>2. Asked(st).phantom[st.channel] = st.value /\ Flat.phantom[st.channel] = 0
    BY <1>3, <2>1 DEF Flat
  <2>3. st.value = 0 => Asked(st) = Flat
    BY <2>1, <2>2 DEF Flat
  <2> QED
    BY <2>2, <2>3
<1> QED
  BY <1>1, <1>2, <1>3, StepType

\* Every byte but the checksum is one of the three of one entry.
LEMMA BytesOfEntries ==
  /\ WindowSize \in Nat /\ Cksum \in Nat /\ Block = 1..Cksum /\ IsFiniteSet(Block)
  /\ \A e \in 1..WindowSize :
       /\ Ident(e) \in Block \ {Cksum} /\ Flag(e) \in Block \ {Cksum} /\ Value(e) \in Block \ {Cksum}
       /\ (Ident(e) + 2) \div 3 = e /\ (Flag(e) + 2) \div 3 = e /\ (Value(e) + 2) \div 3 = e
       /\ Ident(e) # Flag(e) /\ Ident(e) # Value(e) /\ Flag(e) # Value(e)
  /\ \A j \in Block \ {Cksum} : \E e \in 1..WindowSize : j \in {Ident(e), Flag(e), Value(e)}
<1>1. PICK n \in Nat : n = WindowSize
  BY CampaignAssumption
<1>2. Cksum = 3 * n + 1 /\ Block = 1..3 * n + 1
  BY <1>1 DEF Cksum, Block
<1>3. IsFiniteSet(Block)
  BY <1>2, FS_Interval
<1>4. ASSUME NEW e \in 1..n
      PROVE  /\ Ident(e) \in Block \ {Cksum} /\ Flag(e) \in Block \ {Cksum} /\ Value(e) \in Block \ {Cksum}
             /\ (Ident(e) + 2) \div 3 = e /\ (Flag(e) + 2) \div 3 = e /\ (Value(e) + 2) \div 3 = e
             /\ Ident(e) # Flag(e) /\ Ident(e) # Value(e) /\ Flag(e) # Value(e)
  BY <1>2 DEF Ident, Flag, Value
<1>5. ASSUME NEW j \in Block \ {Cksum}
      PROVE  \E e \in 1..n : j \in {Ident(e), Flag(e), Value(e)}
  <2>1. j \in 1..3 * n
    BY <1>2
  <2>2. PICK e \in Int : j = 3 * e - 2 \/ j = 3 * e - 1 \/ j = 3 * e
    <3>1. j + 2 = 3 * ((j + 2) \div 3) + ((j + 2) % 3) /\ (j + 2) \div 3 \in Int /\ (j + 2) % 3 \in 0..2
      BY <2>1, DivMod
    <3> QED
      BY <2>1, <3>1
  <2>3. e \in 1..n
    BY <2>1, <2>2
  <2> QED
    BY <2>2, <2>3 DEF Ident, Flag, Value
<1> QED
  BY <1>1, <1>2, <1>3, <1>4, <1>5

\* What a window's entry says of a console: its flag byte and its gain byte.
FlagsOf(con, c) == IF c = RingWrap THEN 0 ELSE 40 + 16 * con.phantom[c]
GainOf(con, c) == IF c = RingWrap THEN 0 ELSE con.gain[c]

\* The flags and the gain of an entry are bytes.
LEMMA EntryBytes ==
  ASSUME NEW con \in Consoles, NEW c \in Channels \cup {RingWrap}
  PROVE  FlagsOf(con, c) \in 0..255 /\ GainOf(con, c) \in 0..255
<1>1. CASE c = RingWrap
  BY <1>1 DEF FlagsOf, GainOf
<1>2. CASE c \in Channels /\ c # RingWrap
  <2>1. con.gain \in [Channels -> 0..255] /\ con.phantom \in [Channels -> {0, 1}]
    BY AskedType DEF Consoles
  <2>2. PICK x \in {0, 1}, g \in 0..255 : x = con.phantom[c] /\ g = con.gain[c]
    BY <1>2, <2>1
  <2>3. FlagsOf(con, c) = 40 + 16 * x /\ GainOf(con, c) = g
    BY <1>2, <2>2 DEF FlagsOf, GainOf
  <2>4. 40 + 16 * x \in 0..255
    BY <2>2
  <2> QED
    BY <2>3, <2>4
<1> QED
  BY <1>1, <1>2

\* The heartbeat's block holds slot, flags and gain of each entry.
LEMMA HeartbeatBytes ==
  ASSUME NEW con \in Consoles, NEW w \in Windows
  PROVE  /\ HeartbeatBlock[con][w] \in [Block -> 0..255]
         /\ \A e \in 1..WindowSize :
              /\ HeartbeatBlock[con][w][Ident(e)] = w[e]
              /\ HeartbeatBlock[con][w][Flag(e)] = FlagsOf(con, w[e])
              /\ HeartbeatBlock[con][w][Value(e)] = GainOf(con, w[e])
<1>1. PICK st \in StepsOfPlans : con = Asked(st)
  BY DEF Consoles
<1>2. con.gain \in [Channels -> 0..255] /\ con.phantom \in [Channels -> {0, 1}]
  BY <1>1, AskedType
<1>3. /\ w \in [1..WindowSize -> Channels \cup {RingWrap}]
      /\ Channels \subseteq 0..255 /\ RingWrap \in 0..255
  BY CampaignAssumption
<1> DEFINE flags(c) == IF c = RingWrap THEN 0 ELSE 40 + 16 * con.phantom[c]
           gain(c) == IF c = RingWrap THEN 0 ELSE con.gain[c]
           byte(j) == LET e == (j + 2) \div 3
                      IN CASE j = Ident(e) -> w[e]
                           [] j = Flag(e) -> flags(w[e])
                           [] j = Value(e) -> gain(w[e])
           bytes == [j \in Block \ {Cksum} |-> byte(j)]
           sum == SumFunction(bytes)
<1>4. HeartbeatBlock[con][w]
        = [j \in Block |-> IF j = Cksum THEN (256 - (sum % 256)) % 256 ELSE byte(j)]
  BY DEF HeartbeatBlock
<1>5. ASSUME NEW e \in 1..WindowSize
      PROVE  /\ byte(Ident(e)) = w[e] /\ byte(Flag(e)) = FlagsOf(con, w[e])
             /\ byte(Value(e)) = GainOf(con, w[e])
             /\ w[e] \in 0..255 /\ FlagsOf(con, w[e]) \in 0..255 /\ GainOf(con, w[e]) \in 0..255
  <2>1. PICK i, f, v : i = Ident(e) /\ f = Flag(e) /\ v = Value(e)
    OBVIOUS
  <2>2. (i + 2) \div 3 = e /\ (f + 2) \div 3 = e /\ (v + 2) \div 3 = e /\ i # f /\ i # v /\ f # v
    BY <2>1, BytesOfEntries
  <2>3. byte(i) = w[e]
    BY <2>1, <2>2
  <2>4. byte(f) = FlagsOf(con, w[e])
    BY <2>1, <2>2 DEF FlagsOf
  <2>5. byte(v) = GainOf(con, w[e])
    BY <2>1, <2>2 DEF GainOf
  <2>6. w[e] \in Channels \cup {RingWrap} /\ w[e] \in 0..255
    BY <1>3
  <2>7. FlagsOf(con, w[e]) \in 0..255 /\ GainOf(con, w[e]) \in 0..255
    BY <2>6, EntryBytes
  <2> HIDE DEF byte
  <2> QED
    BY <2>1, <2>3, <2>4, <2>5, <2>6, <2>7
<1> HIDE DEF byte
<1>6. ASSUME NEW j \in Block \ {Cksum} PROVE byte(j) \in 0..255
  <2>1. PICK e \in 1..WindowSize : j \in {Ident(e), Flag(e), Value(e)}
    BY BytesOfEntries
  <2> QED
    BY <1>5, <2>1
<1>7. sum \in Int
  <2>1. bytes \in [Block \ {Cksum} -> Int]
    BY <1>6
  <2>2. IsFiniteSet(Block \ {Cksum})
    BY BytesOfEntries, FS_RemoveElement
  <2>3. SumFunctionOnSet(bytes, Block \ {Cksum}) \in Int
    <3> HIDE DEF bytes
    <3> QED
      BY <2>1, <2>2, SumType
  <2>4. DOMAIN bytes = Block \ {Cksum}
    OBVIOUS
  <2> QED
    BY <2>3, <2>4 DEF SumFunction
<1> HIDE DEF sum
<1>8. (256 - (sum % 256)) % 256 \in 0..255
  BY <1>7
<1>9. HeartbeatBlock[con][w] \in [Block -> 0..255]
  BY <1>4, <1>6, <1>8
<1>10. ASSUME NEW j \in Block \ {Cksum} PROVE HeartbeatBlock[con][w][j] = byte(j)
  BY <1>4
<1>11. ASSUME NEW e \in 1..WindowSize
       PROVE  /\ HeartbeatBlock[con][w][Ident(e)] = byte(Ident(e))
              /\ HeartbeatBlock[con][w][Flag(e)] = byte(Flag(e))
              /\ HeartbeatBlock[con][w][Value(e)] = byte(Value(e))
  <2>1. Ident(e) \in Block \ {Cksum} /\ Flag(e) \in Block \ {Cksum} /\ Value(e) \in Block \ {Cksum}
    BY BytesOfEntries
  <2> QED
    BY <1>10, <2>1
<1>12. ASSUME NEW e \in 1..WindowSize
       PROVE  /\ HeartbeatBlock[con][w][Ident(e)] = w[e]
              /\ HeartbeatBlock[con][w][Flag(e)] = FlagsOf(con, w[e])
              /\ HeartbeatBlock[con][w][Value(e)] = GainOf(con, w[e])
  BY <1>5, <1>11
<1> QED
  BY <1>9, <1>12

\* A channel in a window has a place there, and one only.
LEMMA PlaceOf ==
  ASSUME NEW w \in Windows, NEW e \in 1..WindowSize
  PROVE  Place(w[e], w) = e
BY CampaignAssumption DEF Place

\* Against the flat console, at one window, only the byte of the control that
\* is set differs, if its channel is in the window at all.
LEMMA OneByteMoves ==
  ASSUME NEW st \in StepsOfPlans, NEW w \in Windows, Flat \in Consoles
  PROVE  /\ _block_diff(HeartbeatBlock[Flat][w], HeartbeatBlock[Asked(st)][w])
              = IF st.value # 0 /\ st.channel \in Range(w) THEN {ByteOf(st, w)} ELSE {}
         /\ st.value # 0 /\ st.channel \in Range(w) => ByteOf(st, w) \in Block
<1> DEFINE a == HeartbeatBlock[Flat][w]
           b == HeartbeatBlock[Asked(st)][w]
<1>1. Asked(st) \in Consoles
  BY DEF Consoles
<1>2. w \in [1..WindowSize -> Channels \cup {RingWrap}] /\ RingWrap \notin Channels
  BY CampaignAssumption
<1>3. ASSUME NEW e \in 1..WindowSize
      PROVE  /\ a[Ident(e)] = w[e] /\ b[Ident(e)] = w[e]
             /\ a[Flag(e)] # b[Flag(e)] <=> st.control = "48v" /\ st.value # 0 /\ w[e] = st.channel
             /\ a[Value(e)] # b[Value(e)] <=> st.control = "gain" /\ st.value # 0 /\ w[e] = st.channel
  <2>1. /\ a[Ident(e)] = w[e] /\ b[Ident(e)] = w[e]
        /\ a[Flag(e)] = FlagsOf(Flat, w[e]) /\ b[Flag(e)] = FlagsOf(Asked(st), w[e])
        /\ a[Value(e)] = GainOf(Flat, w[e]) /\ b[Value(e)] = GainOf(Asked(st), w[e])
    BY <1>1, HeartbeatBytes
  <2>2. CASE w[e] = RingWrap
    <3>1. ~(st.control = "48v" /\ w[e] = st.channel) /\ ~(st.control = "gain" /\ w[e] = st.channel)
      BY <1>2, <2>2, StepType
    <3> QED
      BY <2>1, <2>2, <3>1 DEF FlagsOf, GainOf
  <2>3. CASE w[e] \in Channels /\ w[e] # RingWrap
    <3>1. Flat.phantom[w[e]] = 0 /\ Flat.gain[w[e]] = 0
      BY <2>3 DEF Flat
    <3>2. PICK ph, g : ph = Asked(st).phantom[w[e]] /\ g = Asked(st).gain[w[e]]
      OBVIOUS
    <3>3. /\ g = (IF st.control = "gain" /\ w[e] = st.channel THEN st.value ELSE 0)
          /\ ph = (IF st.control = "48v" /\ w[e] = st.channel THEN st.value ELSE 0)
          /\ g \in 0..255 /\ ph \in {0, 1}
      BY <2>3, <3>2, AskedType
    <3>4. /\ a[Flag(e)] = 40 /\ b[Flag(e)] = 40 + 16 * ph
          /\ a[Value(e)] = 0 /\ b[Value(e)] = g
      BY <2>1, <2>3, <3>1, <3>2 DEF FlagsOf, GainOf
    <3>5. b[Flag(e)] # 40 <=> ph # 0
      BY <3>3, <3>4
    <3> HIDE DEF a, b
    <3> QED
      BY <2>1, <3>3, <3>4, <3>5
  <2> QED
    BY <1>2, <2>2, <2>3
<1> HIDE DEF a, b
<1>4. ASSUME NEW j \in Block \ {Cksum}, a[j] # b[j]
      PROVE  st.value # 0 /\ st.channel \in Range(w) /\ j = ByteOf(st, w)
  <2>1. PICK e \in 1..WindowSize : j \in {Ident(e), Flag(e), Value(e)}
    BY BytesOfEntries
  <2>2. /\ w[e] = st.channel /\ st.value # 0
        /\ \/ st.control = "48v" /\ j = Flag(e)
           \/ st.control = "gain" /\ j = Value(e)
    BY <1>3, <1>4, <2>1
  <2>3. Place(st.channel, w) = e
    BY <2>2, PlaceOf
  <2>4. st.channel \in Range(w)
    BY <1>2, <2>2 DEF Range
  <2> QED
    BY <2>2, <2>3, <2>4 DEF ByteOf
<1>5. ASSUME st.value # 0, st.channel \in Range(w)
      PROVE  ByteOf(st, w) \in Block \ {Cksum} /\ a[ByteOf(st, w)] # b[ByteOf(st, w)]
  <2>1. PICK e \in 1..WindowSize : w[e] = st.channel
    BY <1>2, <1>5 DEF Range
  <2>2. Place(st.channel, w) = e
    BY <2>1, PlaceOf
  <2>3. st.control = "48v" \/ st.control = "gain"
    BY <1>5, StepType
  <2>4. Flag(e) \in Block \ {Cksum} /\ Value(e) \in Block \ {Cksum}
    BY BytesOfEntries
  <2> QED
    BY <1>3, <1>5, <2>1, <2>2, <2>3, <2>4 DEF ByteOf
<1> QED
  BY <1>4, <1>5 DEF _block_diff, a, b

-------------------------------------------------------------------------------
(* The block a segment is said to hold.                                     *)

\* The frames a capture may have: heartbeats of settings asked for, and others.
Recorded ==
  {[key |-> Heartbeat, block |-> HeartbeatBlock[con][w]] : con \in Consoles, w \in Windows}
    \cup [key : Keys \ {Heartbeat}, block : OtherBlocks]

\* Frames are counted by key and block.
LEMMA CountType ==
  ASSUME NEW seg \in Seq(Recorded), NEW k, NEW b
  PROVE  /\ IsFiniteSet({i \in DOMAIN seg : seg[i].key = k})
         /\ CountOf(seg, k, b) \in Nat /\ Total(seg, k) \in Nat
<1>1. DOMAIN seg = 1..Len(seg) /\ Len(seg) \in Nat /\ IsFiniteSet(1..Len(seg))
  BY FS_Interval
<1>2. IsFiniteSet({i \in DOMAIN seg : seg[i].key = k})
  BY <1>1, FS_Subset
<1>3. IsFiniteSet({i \in DOMAIN seg : seg[i].key = k /\ seg[i].block = b})
  BY <1>1, FS_Subset
<1> QED
  BY <1>2, <1>3, FS_CardinalityType DEF CountOf, Total

\* The most common block is that of some frame, and no other is more common.
LEMMA MostCommonType ==
  ASSUME NEW seg \in Seq(Recorded), NEW k \in KeysOf(seg)
  PROVE  \E i \in DOMAIN seg :
           /\ seg[i].key = k /\ MostCommon(seg, k) = seg[i].block
           /\ \A j \in DOMAIN seg : seg[j].key = k =>
                CountOf(seg, k, seg[j].block) <= CountOf(seg, k, seg[i].block)
<1> DEFINE At == {i \in DOMAIN seg : seg[i].key = k}
           n == [i \in At |-> CountOf(seg, k, seg[i].block)]
           Most == {i \in At : \A j \in At : n[j] <= n[i]}
<1>1. At # {}
  BY DEF KeysOf, ToSet
<1>2. IsFiniteSet(At) /\ n \in [At -> Int]
  <2>1. IsFiniteSet(At)
    BY CountType
  <2>2. \A i \in At : CountOf(seg, k, seg[i].block) \in Nat
    BY CountType
  <2> QED
    BY <2>1, <2>2
<1>3. At \subseteq Int
  OBVIOUS
<1>4. Most # {} /\ IsFiniteSet(Most) /\ Most \in SUBSET Int
  <2>1. \E i \in At : \A j \in At : n[j] <= n[i]
    <3> HIDE DEF At, n
    <3> QED
      BY <1>1, <1>2, GreatestExists
  <2> QED
    BY <1>2, <1>3, <2>1, FS_Subset
<1>5. Min(Most) \in Most
  <2> HIDE DEF Most
  <2> QED
    BY <1>4, MaxMinType
<1>6. Most = {i \in At : \A j \in At : CountOf(seg, k, seg[j].block) <= CountOf(seg, k, seg[i].block)}
  OBVIOUS
<1>7. MostCommon(seg, k) = seg[Min(Most)].block
  BY <1>6 DEF MostCommon
<1>8. PICK m \in Most : m = Min(Most)
  BY <1>5
<1>9. m \in DOMAIN seg /\ seg[m].key = k /\ MostCommon(seg, k) = seg[m].block
  BY <1>7, <1>8
<1> QED
  BY <1>6, <1>9

\* A block that prevails is the most common one.
LEMMA PrevailingIsMostCommon ==
  ASSUME NEW seg \in Seq(Recorded), NEW b, Prevails(seg, b)
  PROVE  Heartbeat \in KeysOf(seg) /\ MostCommon(seg, Heartbeat) = b
<1>1. Heartbeat \in KeysOf(seg)
  BY DEF Prevails
<1>2. PICK m \in DOMAIN seg :
        /\ seg[m].key = Heartbeat /\ MostCommon(seg, Heartbeat) = seg[m].block
        /\ \A j \in DOMAIN seg : seg[j].key = Heartbeat =>
             CountOf(seg, Heartbeat, seg[j].block) <= CountOf(seg, Heartbeat, seg[m].block)
  BY <1>1, MostCommonType
<1>3. CASE seg[m].block = b
  BY <1>1, <1>2, <1>3
<1>4. CASE seg[m].block # b
  <2>1. CountOf(seg, Heartbeat, seg[m].block) < CountOf(seg, Heartbeat, b)
    BY <1>2, <1>4 DEF Prevails, ToSet
  <2>2. CountOf(seg, Heartbeat, b) \in Nat /\ CountOf(seg, Heartbeat, seg[m].block) \in Nat
    BY CountType
  <2>3. {i \in DOMAIN seg : seg[i].key = Heartbeat /\ seg[i].block = b} # {}
    <3>1. CountOf(seg, Heartbeat, b) # 0
      BY <2>1, <2>2
    <3> QED
      BY <3>1, FS_EmptySet DEF CountOf
  <2>4. PICK i \in DOMAIN seg : seg[i].key = Heartbeat /\ seg[i].block = b
    BY <2>3
  <2> QED
    BY <1>2, <2>1, <2>2, <2>4
<1> QED
  BY <1>3, <1>4

\* The segments in which the tool sees a signature of the baseline move.
MovesOf(segs, n, k) ==
  {i \in 2..n : /\ k \in KeysOf(segs[i])
                /\ _block_diff(MostCommon(segs[1], k), MostCommon(segs[i], k)) # {}}

LEMMA MovesFinite ==
  ASSUME NEW n \in Nat, NEW S, S \subseteq 2..n
  PROVE  IsFiniteSet(S) /\ Cardinality(S) \in Nat
<1>1. IsFiniteSet(2..n)
  BY FS_Interval
<1>2. IsFiniteSet(S)
  BY <1>1, FS_Subset
<1> QED
  BY <1>2, FS_CardinalityType

\* The signature is in the baseline and none of the baseline moves more often.
LEMMA SignatureFound ==
  ASSUME NEW segs, NEW n \in Nat, DOMAIN segs = 1..n, Len(segs) = n,
         \A i \in 1..n : segs[i] \in Seq(Recorded), n > 0, segs[1] # <<>>
  PROVE  /\ _pick_signature(segs) \in KeysOf(segs[1])
         /\ \A k \in KeysOf(segs[1]) :
              Cardinality(MovesOf(segs, n, k)) <= Cardinality(MovesOf(segs, n, _pick_signature(segs)))
<1> DEFINE base == segs[1]
           moves == [i \in DOMAIN base |-> Cardinality(MovesOf(segs, n, base[i].key))]
           Best == {i \in DOMAIN base : \A j \in DOMAIN base : moves[j] <= moves[i]}
<1>1. DOMAIN base = 1..Len(base) /\ Len(base) \in Nat /\ base # <<>> /\ base \in Seq(Recorded)
  OBVIOUS
<1>2. IsFiniteSet(DOMAIN base) /\ DOMAIN base # {} /\ DOMAIN base \subseteq Int
  <2>1. IsFiniteSet(1..Len(base))
    BY <1>1, FS_Interval
  <2>2. Len(base) > 0
    BY <1>1
  <2>3. DOMAIN base # {} /\ DOMAIN base \subseteq Int
    <3>1. 1 \in 1..Len(base)
      BY <1>1, <2>2
    <3> HIDE DEF base
    <3> QED
      BY <1>1, <3>1
  <2>4. IsFiniteSet(DOMAIN base)
    BY <1>1, <2>1
  <2> QED
    BY <2>3, <2>4
<1>3. \A k : Cardinality(MovesOf(segs, n, k)) \in Nat
  <2> SUFFICES ASSUME NEW k PROVE Cardinality(MovesOf(segs, n, k)) \in Nat
    OBVIOUS
  <2>1. MovesOf(segs, n, k) \subseteq 2..n
    BY DEF MovesOf
  <2> QED
    BY <2>1, MovesFinite
<1>4. _pick_signature(segs) = base[Min(Best)].key
  BY DEF _pick_signature, MovesOf
<1> HIDE DEF base
<1>5. moves \in [DOMAIN base -> Int]
  BY <1>3
<1>6. Best # {} /\ IsFiniteSet(Best) /\ Best \in SUBSET Int
  <2>1. \E i \in DOMAIN base : \A j \in DOMAIN base : moves[j] <= moves[i]
    <3> HIDE DEF moves
    <3> QED
      BY <1>2, <1>5, GreatestExists
  <2> QED
    BY <1>2, <2>1, FS_Subset
<1>7. PICK m \in Best : m = Min(Best)
  <2> HIDE DEF Best
  <2> QED
    BY <1>6, MaxMinType
<1>8. m \in DOMAIN base /\ _pick_signature(segs) = base[m].key /\ \A j \in DOMAIN base : moves[j] <= moves[m]
  BY <1>4, <1>7
<1>9. _pick_signature(segs) \in KeysOf(base)
  BY <1>8 DEF KeysOf, ToSet
<1>10. ASSUME NEW k \in KeysOf(base)
       PROVE  Cardinality(MovesOf(segs, n, k)) <= Cardinality(MovesOf(segs, n, base[m].key))
  <2>1. PICK j \in DOMAIN base : base[j].key = k
    BY DEF KeysOf, ToSet
  <2> QED
    BY <1>8, <2>1
<1> QED
  BY <1>8, <1>9, <1>10 DEF base

-------------------------------------------------------------------------------
(* What the directory holds and what the analysis says of it.               *)

\* The console is as some prompt asked, or as it was found.
ConsoleAsked == console \in Consoles \cup {Flat}

\* A capture, taken or being taken, has frames that were on the link.
CapturesHeld ==
  /\ capture # NotCapturing => capture \in Seq(Recorded)
  /\ DOMAIN files \subseteq PcapNames
  /\ \A n \in DOMAIN files : files[n] \in Seq(Recorded)

EntriesListed ==
  /\ \A i \in DOMAIN segments : segments[i] \in Entries
  /\ \A i \in DOMAIN manifest : manifest[i] \in Entries

CampaignCounted == runs \in 0..MaxRuns

\* A report is of the directory as it stands.
ReportIsCurrent == report # NoReport => manifest # <<>> /\ report = isolate(Steps, Segs)

DirInv == ConsoleAsked /\ CapturesHeld /\ EntriesListed /\ CampaignCounted /\ ReportIsCurrent

\* A plan's first step leaves the console flat.
LEMMA FlatIsAsked ==
  ASSUME NEW p \in Plans
  PROVE  Flat \in Consoles
<1>1. 1 \in DOMAIN p /\ p[1].control = "none"
  BY PlanType, CampaignAssumption
<1>2. p[1] \in StepsOfPlans
  BY <1>1 DEF StepsOfPlans, ToSet
<1>3. Asked(p[1]) = Flat
  BY <1>1 DEF Asked
<1> QED
  BY <1>2, <1>3 DEF Consoles

LEMMA StepOfPlan ==
  ASSUME NEW p \in Plans, NEW i \in 1..Len(p)
  PROVE  p[i] \in StepsOfPlans /\ PcapName(i, p[i]) \in PcapNames
<1>1. i \in DOMAIN p
  BY PlanType
<1>2. p[i] \in StepsOfPlans
  BY <1>1 DEF StepsOfPlans, ToSet
<1>3. i \in UNION {DOMAIN q : q \in Plans}
  BY <1>1
<1> QED
  BY <1>2, <1>3 DEF PcapNames, PcapName

\* A frame of the link is of the shape a capture holds.
LEMMA RecordedType == Recorded \subseteq [key : Keys, block : [Block -> 0..255]]
<1>1. Heartbeat \in Keys
  <2>1. Keys # {}
    BY CampaignAssumption, FS_EmptySet
  <2> QED
    BY <2>1 DEF Heartbeat
<1>2. \A con \in Consoles, w \in Windows : HeartbeatBlock[con][w] \in [Block -> 0..255]
  BY HeartbeatBytes
<1>3. OtherBlocks \subseteq [Block -> 0..255]
  BY CampaignAssumption
<1> QED
  BY <1>1, <1>2, <1>3 DEF Recorded

LEMMA DirInvInit == Init => DirInv
<1> SUFFICES ASSUME Init PROVE DirInv
  OBVIOUS
<1>1. /\ console = Flat /\ capture = NotCapturing /\ DOMAIN files = {} /\ step = 0
      /\ segments = <<>> /\ manifest = <<>> /\ report = NoReport /\ runs = 0
  BY DEF Init
<1>2. DOMAIN segments = {} /\ DOMAIN manifest = {}
  BY <1>1
<1>3. 0 \in 0..MaxRuns
  BY CampaignAssumption
<1> QED
  BY <1>1, <1>2, <1>3 DEF DirInv, ConsoleAsked, CapturesHeld, EntriesListed, CampaignCounted, ReportIsCurrent

\* The entry a step is listed with.
LEMMA ListedEntry ==
  ASSUME IInv, DirInv, step > 0, NEW fs, Listed(fs),
         \A n \in DOMAIN fs : fs[n] \in Seq(Recorded)
  PROVE  EntriesListed'
<1> DEFINE name == PcapName(step, plan[step])
           e == [step |-> plan[step], pcap |-> name,
                 frames |-> IF name \in DOMAIN fs THEN Len(fs[name]) ELSE -1]
<1>1. plan \in Plans /\ Len(plan) \in Nat /\ step \in 1..Len(plan)
  <2>1. plan \in Plans
    BY DEF IInv, AtAStep
  <2> QED
    BY <2>1, PlanType DEF IInv, AtAStep
<1>2. e \in Entries
  <2>1. name \in PcapNames /\ plan[step] \in StepsOfPlans
    BY <1>1, StepOfPlan
  <2>2. (IF name \in DOMAIN fs THEN Len(fs[name]) ELSE -1) \in {-1} \cup Nat
    OBVIOUS
  <2> HIDE DEF name
  <2> QED
    BY <2>1, <2>2 DEF Entries
<1>3. \/ manifest' = Append(segments, e) /\ segments' = <<>>
      \/ manifest' = manifest /\ segments' = Append(segments, e)
  BY DEF Listed
<1> HIDE DEF e
<1>4. PICK s : s = Append(segments, e)
  OBVIOUS
<1>5. \A i \in DOMAIN s : s[i] \in Entries
  <2>1. ListsSteps(segments, plan, step - 1)
    BY <1>1 DEF IInv, ListIsPrefix
  <2>2. PICK n \in Nat : n = step - 1
    BY <1>1
  <2>3. segments = [i \in 1..n |-> segments[i]] /\ DOMAIN segments = 1..n
    BY <2>1, <2>2 DEF ListsSteps
  <2>4. /\ s = [i \in 1..n + 1 |-> s[i]]
        /\ \A i \in 1..n : s[i] = segments[i]
        /\ s[n + 1] = e
    BY <1>4, <2>3, AppendList
  <2>5. DOMAIN s = 1..n + 1
    BY <2>4
  <2>6. \A i \in 1..n : segments[i] \in Entries
    BY <2>3 DEF DirInv, EntriesListed
  <2>7. \A i \in 1..n + 1 : i \in 1..n \/ i = n + 1
    OBVIOUS
  <2> HIDE DEF Entries
  <2> QED
    BY <1>2, <2>4, <2>5, <2>6, <2>7
<1>6. CASE manifest' = s /\ segments' = <<>>
  BY <1>5, <1>6 DEF EntriesListed
<1>7. CASE manifest' = manifest /\ segments' = s
  BY <1>5, <1>7 DEF EntriesListed, DirInv
<1> QED
  BY <1>3, <1>4, <1>6, <1>7

LEMMA DirInvNext == IInv /\ DirInv /\ [Next]_vars => DirInv'
<1> SUFFICES ASSUME IInv, DirInv, [Next]_vars PROVE DirInv'
  OBVIOUS
<1>0. MaxRuns \in Nat
  BY CampaignAssumption
<1>1. CASE UNCHANGED vars
  BY <1>1 DEF DirInv, ConsoleAsked, CapturesHeld, EntriesListed, CampaignCounted, ReportIsCurrent,
              Steps, StepsOf, Segs, SegmentsOnDisk, vars
<1>2. CASE Start
  <2>1. /\ runs \in 0..MaxRuns - 1 /\ runs' \in {runs + 1, MaxRuns} /\ report' = NoReport /\ segments' = <<>>
        /\ UNCHANGED <<console, capture, files, manifest>>
    BY <1>0, <1>2 DEF Start, DirInv, CampaignCounted
  <2>2. CampaignCounted'
    BY <1>0, <2>1 DEF CampaignCounted
  <2> QED
    BY <2>1, <2>2 DEF DirInv, ConsoleAsked, CapturesHeld, EntriesListed, ReportIsCurrent
<1>3. CASE SetControl
  <2>1. /\ console' = Asked(plan[step]) /\ step > 0 /\ report' = NoReport
        /\ UNCHANGED <<plan, step, capture, files, segments, manifest, runs>>
    BY <1>3 DEF SetControl
  <2>2. plan \in Plans /\ step \in 1..Len(plan)
    <3>1. plan \in Plans
      BY <2>1 DEF IInv, AtAStep
    <3> QED
      BY <2>1, <3>1, PlanType DEF IInv, AtAStep
  <2>3. ConsoleAsked'
    BY <2>1, <2>2, StepOfPlan DEF ConsoleAsked, Consoles
  <2> QED
    BY <2>1, <2>3 DEF DirInv, CapturesHeld, EntriesListed, CampaignCounted, ReportIsCurrent
<1>4. CASE Abort
  <2>1. /\ step' = 0 /\ segments' = <<>> /\ report' = NoReport
        /\ UNCHANGED <<console, capture, files, manifest, runs>>
    BY <1>4 DEF Abort
  <2> QED
    BY <2>1 DEF DirInv, ConsoleAsked, CapturesHeld, EntriesListed, CampaignCounted, ReportIsCurrent
<1>5. CASE Enter
  <2>1. /\ capture' = <<>> /\ report' = NoReport
        /\ UNCHANGED <<plan, step, console, files, segments, manifest, runs>>
    BY <1>5 DEF Enter
  <2>2. CapturesHeld'
    BY <2>1 DEF DirInv, CapturesHeld
  <2> QED
    BY <2>1, <2>2 DEF DirInv, ConsoleAsked, EntriesListed, CampaignCounted, ReportIsCurrent
<1>6. ASSUME NEW f \in Frames, Captured(f) PROVE DirInv'
  <2>1. /\ capture' = Append(capture, f) /\ report' = NoReport /\ capture # NotCapturing
        /\ UNCHANGED <<plan, step, console, files, segments, manifest, runs>>
    BY <1>6 DEF Captured
  <2>2. plan \in Plans
    BY <2>1 DEF IInv, AtAStep
  <2>3. console \in Consoles
    BY <2>2, FlatIsAsked DEF DirInv, ConsoleAsked
  <2>4. f \in Recorded
    BY <1>6, <2>3 DEF Frames, Recorded
  <2>5. capture \in Seq(Recorded)
    BY <2>1 DEF DirInv, CapturesHeld
  <2>6. capture' \in Seq(Recorded)
    BY <2>1, <2>4, <2>5
  <2>7. CapturesHeld'
    BY <2>1, <2>6 DEF DirInv, CapturesHeld
  <2> QED
    BY <2>1, <2>7 DEF DirInv, ConsoleAsked, EntriesListed, CampaignCounted, ReportIsCurrent
<1>10. ASSUME capture # NotCapturing
       PROVE  LET fs == FileWritten(PcapName(step, plan[step]))
              IN  DOMAIN fs \subseteq PcapNames /\ \A n \in DOMAIN fs : fs[n] \in Seq(Recorded)
  <2>1. plan \in Plans /\ step \in 1..Len(plan)
    <3>1. plan \in Plans /\ step > 0
      BY <1>10 DEF IInv, AtAStep
    <3> QED
      BY <3>1, PlanType DEF IInv, AtAStep
  <2>2. PcapName(step, plan[step]) \in PcapNames
    BY <2>1, StepOfPlan
  <2> QED
    BY <1>10, <2>2 DEF DirInv, CapturesHeld, FileWritten
<1>7. CASE Stop
  <2>1. PICK fs : fs = FileWritten(PcapName(step, plan[step]))
    OBVIOUS
  <2>2. /\ capture # NotCapturing /\ Listed(fs) /\ report' = NoReport /\ UNCHANGED <<console, runs>>
    BY <1>7, <2>1 DEF Stop
  <2>3. step > 0
    BY <2>2 DEF IInv, AtAStep
  <2>4. DOMAIN fs \subseteq PcapNames /\ \A n \in DOMAIN fs : fs[n] \in Seq(Recorded)
    BY <1>10, <2>1, <2>2
  <2>5. EntriesListed'
    BY <2>2, <2>3, <2>4, ListedEntry
  <2>6. files' = fs /\ capture' = NotCapturing
    BY <2>2 DEF Listed
  <2>7. CapturesHeld'
    BY <2>4, <2>6 DEF CapturesHeld
  <2> QED
    BY <2>2, <2>5, <2>7 DEF DirInv, ConsoleAsked, CampaignCounted, ReportIsCurrent
<1>8. CASE CaptureFails
  <2>1. /\ capture # NotCapturing /\ Listed(files) /\ report' = NoReport /\ UNCHANGED <<console, runs>>
    BY <1>8, CampaignAssumption DEF CaptureFails
  <2>2. step > 0
    BY <2>1 DEF IInv, AtAStep
  <2>3. \A n \in DOMAIN files : files[n] \in Seq(Recorded)
    BY DEF DirInv, CapturesHeld
  <2>4. EntriesListed'
    BY <2>1, <2>2, <2>3, ListedEntry
  <2>5. files' = files /\ capture' = NotCapturing
    BY <2>1 DEF Listed
  <2>6. CapturesHeld'
    BY <2>5 DEF CapturesHeld, DirInv
  <2> QED
    BY <2>1, <2>2, <2>4, <2>6 DEF DirInv, ConsoleAsked, CampaignCounted, ReportIsCurrent
<1>9. CASE Analyse
  <2>1. /\ report' = isolate(Steps, Segs) /\ manifest # <<>>
        /\ UNCHANGED <<plan, step, console, capture, files, segments, manifest, runs>>
    BY <1>9 DEF Analyse
  <2>2. Steps' = Steps /\ Segs' = Segs
    BY <2>1 DEF Steps, StepsOf, Segs, SegmentsOnDisk
  <2>3. ReportIsCurrent'
    BY <2>1, <2>2 DEF ReportIsCurrent
  <2> QED
    BY <2>1, <2>3 DEF DirInv, ConsoleAsked, CapturesHeld, EntriesListed, CampaignCounted
<1>11. CASE AbortCapture
  <2>1. PICK fs : fs = FileWritten(PcapName(step, plan[step]))
    OBVIOUS
  <2>2. /\ capture # NotCapturing /\ files' \in {fs, files} /\ capture' = NotCapturing
        /\ segments' = <<>> /\ report' = NoReport /\ UNCHANGED <<console, manifest, runs>>
    BY <1>11, <2>1 DEF AbortCapture
  <2>3. DOMAIN fs \subseteq PcapNames /\ \A n \in DOMAIN fs : fs[n] \in Seq(Recorded)
    BY <1>10, <2>1, <2>2
  <2>4. CapturesHeld'
    BY <2>2, <2>3 DEF DirInv, CapturesHeld
  <2> QED
    BY <2>2, <2>4 DEF DirInv, ConsoleAsked, EntriesListed, CampaignCounted, ReportIsCurrent
<1> QED
  BY <1>1, <1>2, <1>3, <1>4, <1>5, <1>6, <1>7, <1>8, <1>9, <1>11 DEF Next

\* Every variable keeps its shape.
THEOREM TypeCorrect == Spec => []TypeOK
<1>1. IInv /\ DirInv => TypeOK
  <2> SUFFICES ASSUME IInv, DirInv PROVE TypeOK
    OBVIOUS
  <2>1. console.gain \in [Channels -> Nat] /\ console.phantom \in [Channels -> {0, 1}]
    <3>1. CASE console = Flat
      BY <3>1 DEF Flat
    <3>2. CASE console \in Consoles
      <4>1. PICK st \in StepsOfPlans : console = Asked(st)
        BY <3>2 DEF Consoles
      <4>2. Asked(st).gain \in [Channels -> 0..255] /\ Asked(st).phantom \in [Channels -> {0, 1}]
        BY AskedType
      <4> QED
        BY <4>1, <4>2
    <3> QED
      BY <3>1, <3>2 DEF DirInv, ConsoleAsked
  <2>2. ASSUME NEW seg \in Seq(Recorded) PROVE seg \in Captures
    <3>1. PICK C : C = [key : Keys, block : [Block -> 0..255]]
      OBVIOUS
    <3>2. Recorded \subseteq C
      BY <3>1, RecordedType
    <3>3. seg \in Seq(C)
      BY <3>2
    <3> QED
      BY <3>1, <3>3 DEF Captures
  <2>3. capture # NotCapturing => step > 0 /\ capture \in Captures
    BY <2>2 DEF IInv, AtAStep, DirInv, CapturesHeld
  <2>4. DOMAIN files \subseteq PcapNames /\ \A n \in DOMAIN files : files[n] \in Captures
    BY <2>2 DEF DirInv, CapturesHeld
  <2>5. Len(segments) = (IF step = 0 THEN 0 ELSE step - 1)
    <3>1. CASE step = 0
      BY <3>1 DEF IInv, ListIsPrefix
    <3>2. CASE step # 0
      <4>1. ListsSteps(segments, plan, step - 1)
        BY <3>2 DEF IInv, ListIsPrefix
      <4>2. PICK n \in Nat : n = step - 1
        <5>1. plan \in Plans /\ step \in 0..Len(plan)
          BY <3>2 DEF IInv, AtAStep
        <5> QED
          BY <3>2, <5>1, PlanType
      <4>3. segments = [i \in 1..n |-> segments[i]]
        BY <4>1, <4>2 DEF ListsSteps
      <4>4. Len(segments) = n
        BY <4>3
      <4> QED
        BY <3>2, <4>2, <4>4
    <3> QED
      BY <3>1, <3>2
  <2>6. plan \in Plans \cup {<<>>} /\ step \in 0 .. Len(plan) /\ (step = 0 <=> plan = <<>>)
    BY DEF IInv, AtAStep
  <2>7. /\ \A i \in DOMAIN segments : segments[i] \in Entries
        /\ \A i \in DOMAIN manifest : manifest[i] \in Entries
        /\ runs \in 0 .. MaxRuns
    BY DEF DirInv, EntriesListed, CampaignCounted
  <2> QED
    BY <2>1, <2>3, <2>4, <2>5, <2>6, <2>7 DEF TypeOK
<1> QED
  BY <1>1, IInvInit, IInvNext, DirInvInit, DirInvNext, PTL DEF Spec

-------------------------------------------------------------------------------
(* What the analysis says of a campaign.                                    *)

\* The segments of a report: one for each step, none of them foreign.
LEMMA ReportedSegments ==
  ASSUME IInv, DirInv, report # NoReport
  PROVE  \E p \in Plans :
           /\ Steps = p /\ Flat \in Consoles
           /\ DOMAIN Segs = 1..Len(p) /\ Len(Segs) = Len(p) /\ Len(p) \in Nat /\ Len(p) > 0
           /\ \A i \in 1..Len(p) : Segs[i] \in Seq(Recorded) /\ p[i] \in StepsOfPlans
           /\ report = isolate(p, Segs)
<1>1. manifest # <<>> /\ report = isolate(Steps, Segs)
  BY DEF DirInv, ReportIsCurrent
<1>2. PICK p \in Plans : ListsSteps(manifest, p, Len(p))
  BY <1>1 DEF IInv, ManifestIsList
<1>3. DOMAIN manifest = 1..Len(p)
  BY <1>2 DEF ListsSteps
<1>4. Steps = p
  <2>1. Steps = [i \in 1..Len(p) |-> p[i]]
    BY <1>2, <1>3 DEF Steps, StepsOf, ListsSteps
  <2> QED
    BY <2>1, PlanType
<1>5. Segs = [i \in 1..Len(p) |-> IF manifest[i].pcap \in DOMAIN files THEN files[manifest[i].pcap] ELSE <<>>]
  BY <1>3 DEF Segs, SegmentsOnDisk
<1>6. \A i \in 1..Len(p) : Segs[i] \in Seq(Recorded)
  BY <1>5 DEF DirInv, CapturesHeld
<1>7. Len(p) \in Nat /\ Len(p) > 0
  BY PlanType
<1>8. DOMAIN Segs = 1..Len(p) /\ Len(Segs) = Len(p)
  BY <1>5, <1>7
<1>9. \A i \in 1..Len(p) : p[i] \in StepsOfPlans
  BY StepOfPlan
<1> QED
  BY <1>1, <1>4, <1>6, <1>7, <1>8, <1>9, FlatIsAsked

\* What a report holds, once the baseline holds the flat console.
LEMMA IsolateUnfolds ==
  ASSUME NEW p, NEW segs, segs[1] # <<>>
  PROVE  LET k == _pick_signature(segs)
             base == MostCommon(segs[1], k)
             a == isolate(p, segs)
         IN  /\ a.key = k
             /\ a.findings = [i \in 2..Len(segs) |-> FindingOf(p[i], segs[i], k, base)]
             /\ a.laws = GainLaws(p, segs, k, base)
BY DEF isolate

\* Against the flat console, at one window, what an asked console moved.
LEMMA AskedMoves ==
  ASSUME NEW st \in StepsOfPlans, NEW w \in Windows, Flat \in Consoles,
         NEW D, D = _block_diff(HeartbeatBlock[Flat][w], HeartbeatBlock[Asked(st)][w])
  PROVE  /\ D # {} <=> st.value # 0 /\ st.channel \in Range(w)
         /\ D # {} => D = {ByteOf(st, w)} /\ Min(D) = ByteOf(st, w) /\ Cardinality(D) = 1
<1>1. /\ D = IF st.value # 0 /\ st.channel \in Range(w) THEN {ByteOf(st, w)} ELSE {}
      /\ st.value # 0 /\ st.channel \in Range(w) => ByteOf(st, w) \in Block
  BY OneByteMoves
<1>2. CASE st.value # 0 /\ st.channel \in Range(w)
  <2>1. D = {ByteOf(st, w)} /\ ByteOf(st, w) \in Block
    BY <1>1, <1>2
  <2>2. Cardinality(D) = 1 /\ IsFiniteSet(D)
    BY <2>1, FS_Singleton
  <2>3. Min(D) \in D
    <3>1. D \in SUBSET Int /\ D # {}
      BY <2>1, BytesOfEntries
    <3> QED
      BY <2>2, <3>1, MaxMinType
  <2> QED
    BY <1>2, <2>1, <2>2, <2>3
<1>3. CASE ~(st.value # 0 /\ st.channel \in Range(w))
  BY <1>1, <1>3
<1> QED
  BY <1>2, <1>3

\* What a report is of: a segment for each step, the first showing the flat console.
Reports(p, n, segs, k, base, w) ==
  /\ p \in Plans /\ Steps = p /\ Flat \in Consoles
  /\ n \in Nat /\ n > 0 /\ n = Len(p)
  /\ segs = Segs /\ DOMAIN segs = 1..n /\ Len(segs) = n /\ segs[1] # <<>>
  /\ \A l \in 1..n : segs[l] \in Seq(Recorded) /\ p[l] \in StepsOfPlans
  /\ k = _pick_signature(segs) /\ base = MostCommon(segs[1], k)
  /\ Heartbeat \in KeysOf(segs[1]) /\ MostCommon(segs[1], Heartbeat) = HeartbeatBlock[Flat][w]
  /\ report.key = k
  /\ report.findings = [l \in 2..n |-> FindingOf(p[l], segs[l], k, base)]
  /\ report.laws = GainLaws(p, segs, k, base)

LEMMA ReportUnfolds ==
  ASSUME IInv, DirInv, report # NoReport, NEW w \in Windows, Shows(Segs[1], Flat, w)
  PROVE  \E p, n, segs, k, base : Reports(p, n, segs, k, base, w)
<1>1. PICK p \in Plans :
        /\ Steps = p /\ Flat \in Consoles
        /\ DOMAIN Segs = 1..Len(p) /\ Len(Segs) = Len(p) /\ Len(p) \in Nat /\ Len(p) > 0
        /\ \A l \in 1..Len(p) : Segs[l] \in Seq(Recorded) /\ p[l] \in StepsOfPlans
        /\ report = isolate(p, Segs)
  BY ReportedSegments
<1>2. PICK n, segs : n = Len(p) /\ segs = Segs
  OBVIOUS
<1>3. Heartbeat \in KeysOf(segs[1]) /\ MostCommon(segs[1], Heartbeat) = HeartbeatBlock[Flat][w]
  <2>1. segs[1] \in Seq(Recorded)
    BY <1>1, <1>2
  <2> QED
    BY <1>2, <2>1, PrevailingIsMostCommon DEF Shows
<1>4. segs[1] # <<>>
  BY <1>3 DEF KeysOf, ToSet
<1>5. PICK k, base : k = _pick_signature(segs) /\ base = MostCommon(segs[1], k)
  OBVIOUS
<1>6. /\ report.key = k
      /\ report.findings = [l \in 2..n |-> FindingOf(p[l], segs[l], k, base)]
      /\ report.laws = GainLaws(p, segs, k, base)
  <2>1. report = isolate(p, segs) /\ Len(segs) = n
    BY <1>1, <1>2
  <2>2. PICK a : a = isolate(p, segs)
    OBVIOUS
  <2>3. /\ a.key = k
        /\ a.findings = [l \in 2..Len(segs) |-> FindingOf(p[l], segs[l], k, base)]
        /\ a.laws = GainLaws(p, segs, k, base)
    BY <1>4, <1>5, <2>2, IsolateUnfolds
  <2> QED
    BY <2>1, <2>2, <2>3
<1>7. Reports(p, n, segs, k, base, w)
  BY <1>1, <1>2, <1>3, <1>4, <1>5, <1>6 DEF Reports
<1> QED
  BY <1>7

\* A segment that shows an asked console, at the window of the baseline.
LEMMA ShownMoves ==
  ASSUME NEW p, NEW n, NEW segs, NEW k, NEW base, NEW w \in Windows, Reports(p, n, segs, k, base, w),
         NEW i \in 2..n, Shows(segs[i], Asked(p[i]), w),
         NEW b, b = MostCommon(segs[i], Heartbeat),
         NEW D, D = _block_diff(HeartbeatBlock[Flat][w], b)
  PROVE  /\ Heartbeat \in KeysOf(segs[i]) /\ b = HeartbeatBlock[Asked(p[i])][w]
         /\ D # {} <=> Asked(p[i]) # Flat /\ p[i].channel \in Range(w)
         /\ D # {} => D = {ByteOf(p[i], w)} /\ Min(D) = ByteOf(p[i], w)
<1>1. n \in Nat /\ i \in 1..n
  BY DEF Reports
<1>2. p[i] \in StepsOfPlans /\ segs[i] \in Seq(Recorded) /\ Flat \in Consoles
  BY <1>1 DEF Reports
<1>3. Heartbeat \in KeysOf(segs[i]) /\ MostCommon(segs[i], Heartbeat) = HeartbeatBlock[Asked(p[i])][w]
  BY <1>2, PrevailingIsMostCommon DEF Shows
<1>4. b = HeartbeatBlock[Asked(p[i])][w] /\ D = _block_diff(HeartbeatBlock[Flat][w], HeartbeatBlock[Asked(p[i])][w])
  BY <1>3
<1>5. /\ D # {} <=> p[i].value # 0 /\ p[i].channel \in Range(w)
      /\ D # {} => D = {ByteOf(p[i], w)} /\ Min(D) = ByteOf(p[i], w)
  BY <1>2, <1>4, AskedMoves
<1>6. Asked(p[i]) = Flat <=> p[i].value = 0
  BY <1>2, AskedFlat
<1> QED
  BY <1>3, <1>4, <1>5, <1>6

\* Of a heartbeat that is picked, where the operator was at most one step
\* behind and the window stood still, the byte named for a step is that of its
\* control, and the only one that moved.
THEOREM NamesCorrect == Spec => []NamesItsControl
<1>1. IInv /\ DirInv => NamesItsControl
  <2> SUFFICES ASSUME IInv, DirInv, report # NoReport, report.key = Heartbeat,
                      NEW w \in Windows, Shows(Segs[1], Flat, w), BackToFlat(Steps),
                      NEW i \in DOMAIN report.findings, report.findings[i].kind = "byte",
                      \A m \in DOMAIN Segs[i] : Segs[i][m].key = Heartbeat =>
                        Segs[i][m].block \in {HeartbeatBlock[Asked(Steps[l])][w] : l \in {i - 1, i}}
               PROVE  report.findings[i].index = ByteOf(Steps[i], w) /\ report.findings[i].conf = "high"
    BY DEF NamesItsControl
  <2>1. PICK p, n, segs, k, base : Reports(p, n, segs, k, base, w)
    BY ReportUnfolds
  <2>2. /\ k = Heartbeat /\ base = HeartbeatBlock[Flat][w] /\ Steps = p /\ segs = Segs /\ n \in Nat
        /\ n = Len(p)
    BY <2>1 DEF Reports
  <2>3. i \in 2..n /\ report.findings[i] = FindingOf(p[i], segs[i], k, base)
    BY <2>1 DEF Reports
  <2>4. PICK D : D = _block_diff(base, MostCommon(segs[i], k))
    OBVIOUS
  <2>5. /\ k \in KeysOf(segs[i]) /\ D # {}
        /\ report.findings[i].index = Min(D)
        /\ report.findings[i].conf = IF Cardinality(D) = 1 THEN "high" ELSE "medium"
    BY <2>3, <2>4 DEF FindingOf, NoByte
  <2>6. PICK m \in DOMAIN segs[i] : segs[i][m].key = Heartbeat /\ MostCommon(segs[i], k) = segs[i][m].block
    <3>1. segs[i] \in Seq(Recorded)
      BY <2>1, <2>2, <2>3 DEF Reports
    <3> QED
      BY <2>2, <2>5, <3>1, MostCommonType
  <2>7. PICK l \in {i - 1, i} : MostCommon(segs[i], k) = HeartbeatBlock[Asked(p[l])][w]
    BY <2>2, <2>6
  <2>8. l \in 1..n /\ p[l] \in StepsOfPlans /\ Flat \in Consoles
    <3>1. l \in 1..n
      BY <2>2, <2>3
    <3> QED
      BY <2>1, <3>1 DEF Reports
  <2>9. p[l].value # 0 /\ Min(D) = ByteOf(p[l], w) /\ Cardinality(D) = 1
    <3>1. D = _block_diff(HeartbeatBlock[Flat][w], HeartbeatBlock[Asked(p[l])][w]) /\ D # {}
      BY <2>2, <2>4, <2>5, <2>7
    <3>2. p[l] \in StepsOfPlans /\ Flat \in Consoles
      BY <2>8
    <3> QED
      BY <3>1, <3>2, AskedMoves
  <2>10. ByteOf(p[l], w) = ByteOf(p[i], w)
    <3>1. CASE l = i
      BY <3>1
    <3>2. CASE l = i - 1
      <4>1. <<p[i].control, p[i].channel>> = <<p[i - 1].control, p[i - 1].channel>>
        BY <2>2, <2>3, <2>9, <3>2 DEF BackToFlat
      <4> QED
        BY <3>2, <4>1 DEF ByteOf
    <3> QED
      BY <3>1, <3>2
  <2> QED
    BY <2>2, <2>5, <2>9, <2>10
<1> QED
  BY <1>1, IInvInit, IInvNext, DirInvInit, DirInvNext, PTL DEF Spec

\* The segments in which a signature has a block that the baseline has not the like of.
RestlessIn(segs, n, k) ==
  {i \in 2..n : \E a \in ToSet(segs[1]), b \in ToSet(segs[i]) :
     a.key = k /\ b.key = k /\ a.block # b.block}

\* The heartbeat is picked, whatever other signatures move, unless one of them
\* is restless in as many segments as it is told to have moved in.
LEMMA HeartbeatPicked ==
  ASSUME NEW p, NEW n, NEW segs, NEW k, NEW base, NEW w \in Windows, Reports(p, n, segs, k, base, w),
         NEW Moved, Moved \subseteq 2..n,
         \A i \in Moved : /\ Shows(segs[i], Asked(p[i]), w)
                          /\ Asked(p[i]) # Flat /\ p[i].channel \in Range(w),
         \A q \in KeysOf(segs[1]) \ {Heartbeat} : Cardinality(RestlessIn(segs, n, q)) < Cardinality(Moved)
  PROVE  k = Heartbeat
<1>1. /\ n \in Nat /\ n > 0 /\ DOMAIN segs = 1..n /\ Len(segs) = n /\ segs[1] # <<>>
      /\ \A l \in 1..n : segs[l] \in Seq(Recorded)
      /\ k = _pick_signature(segs)
      /\ Heartbeat \in KeysOf(segs[1]) /\ MostCommon(segs[1], Heartbeat) = HeartbeatBlock[Flat][w]
  BY DEF Reports
<1>2. SUFFICES ASSUME k # Heartbeat PROVE FALSE
  OBVIOUS
<1>3. /\ k \in KeysOf(segs[1])
      /\ Cardinality(MovesOf(segs, n, Heartbeat)) <= Cardinality(MovesOf(segs, n, k))
  BY <1>1, SignatureFound
<1>4. Cardinality(RestlessIn(segs, n, k)) < Cardinality(Moved)
  BY <1>2, <1>3
<1>5. Moved \subseteq MovesOf(segs, n, Heartbeat)
  <2> SUFFICES ASSUME NEW i \in Moved PROVE i \in MovesOf(segs, n, Heartbeat)
    OBVIOUS
  <2>1. i \in 2..n /\ Shows(segs[i], Asked(p[i]), w) /\ Asked(p[i]) # Flat /\ p[i].channel \in Range(w)
    OBVIOUS
  <2>2. PICK b, D : b = MostCommon(segs[i], Heartbeat) /\ D = _block_diff(HeartbeatBlock[Flat][w], b)
    OBVIOUS
  <2>3. Heartbeat \in KeysOf(segs[i]) /\ D # {}
    BY <2>1, <2>2, ShownMoves
  <2> QED
    BY <1>1, <2>1, <2>2, <2>3 DEF MovesOf
<1>6. MovesOf(segs, n, k) \subseteq RestlessIn(segs, n, k)
  <2> SUFFICES ASSUME NEW i \in MovesOf(segs, n, k)
               PROVE  i \in 2..n /\ \E a \in ToSet(segs[1]), b \in ToSet(segs[i]) :
                                      a.key = k /\ b.key = k /\ a.block # b.block
    BY DEF RestlessIn
  <2>1. /\ i \in 2..n /\ k \in KeysOf(segs[i])
        /\ _block_diff(MostCommon(segs[1], k), MostCommon(segs[i], k)) # {}
    BY DEF MovesOf
  <2>2. MostCommon(segs[1], k) # MostCommon(segs[i], k)
    BY <2>1 DEF _block_diff
  <2>3. segs[1] \in Seq(Recorded) /\ segs[i] \in Seq(Recorded)
    BY <1>1, <2>1
  <2>4. PICK l \in DOMAIN segs[1] : segs[1][l].key = k /\ MostCommon(segs[1], k) = segs[1][l].block
    BY <1>3, <2>3, MostCommonType
  <2>5. PICK m \in DOMAIN segs[i] : segs[i][m].key = k /\ MostCommon(segs[i], k) = segs[i][m].block
    BY <2>1, <2>3, MostCommonType
  <2>6. segs[1][l] \in ToSet(segs[1]) /\ segs[i][m] \in ToSet(segs[i])
    BY DEF ToSet
  <2> QED
    BY <2>1, <2>2, <2>4, <2>5, <2>6
<1>7. PICK a, b, c, d : a = Moved /\ b = MovesOf(segs, n, Heartbeat) /\ c = MovesOf(segs, n, k) /\ d = RestlessIn(segs, n, k)
  OBVIOUS
<1>8. a \subseteq 2..n /\ b \subseteq 2..n /\ c \subseteq 2..n /\ d \subseteq 2..n
  BY <1>7 DEF MovesOf, RestlessIn
<1>9. a \subseteq b /\ c \subseteq d /\ Cardinality(b) <= Cardinality(c) /\ Cardinality(d) < Cardinality(a)
  BY <1>3, <1>4, <1>5, <1>6, <1>7
<1>10. /\ IsFiniteSet(a) /\ Cardinality(a) \in Nat /\ IsFiniteSet(b) /\ Cardinality(b) \in Nat
       /\ IsFiniteSet(c) /\ Cardinality(c) \in Nat /\ IsFiniteSet(d) /\ Cardinality(d) \in Nat
  BY <1>1, <1>8, MovesFinite
<1>11. Cardinality(a) <= Cardinality(b) /\ Cardinality(c) <= Cardinality(d)
  BY <1>9, <1>10, FS_Subset
<1> QED
  BY <1>9, <1>10, <1>11

\* What prevails at the window of the baseline is what the analysis says, and
\* the heartbeat is what it picks unless another signature is as restless.
THEOREM PrevailingCorrect == Spec => []PrevailingRules
<1>1. IInv /\ DirInv => PrevailingRules
  <2> SUFFICES ASSUME IInv, DirInv, report # NoReport, NEW w \in Windows, Shows(Segs[1], Flat, w)
               PROVE  LET segs == Segs
                          asked(i) == Asked(Steps[i])
                          f(i) == report.findings[i]
                          Told == {i \in 2 .. Len(segs) : Shows(segs[i], asked(i), w)}
                          Moved == {i \in Told : asked(i) # Flat /\ Steps[i].channel \in Range(w)}
                          Restless(k) ==
                            {i \in 2 .. Len(segs) : \E a \in ToSet(segs[1]), b \in ToSet(segs[i]) :
                               a.key = k /\ b.key = k /\ a.block # b.block}
                      IN  /\ (\A k \in KeysOf(segs[1]) \ {Heartbeat} :
                                Cardinality(Restless(k)) < Cardinality(Moved)) => report.key = Heartbeat
                          /\ report.key = Heartbeat => \A i \in Told :
                               IF i \in Moved
                                 THEN /\ f(i).kind = "byte" /\ f(i).index = ByteOf(Steps[i], w)
                                      /\ f(i).new = HeartbeatBlock[asked(i)][w][f(i).index]
                                 ELSE f(i).kind = IF Steps[i].value = 0 THEN "flat" ELSE "unmoved"
    BY DEF PrevailingRules
  <2>1. PICK p, n, segs, k, base : Reports(p, n, segs, k, base, w)
    BY ReportUnfolds
  <2>2. Steps = p /\ segs = Segs /\ n = Len(segs) /\ n \in Nat /\ report.key = k
    BY <2>1 DEF Reports
  <2> DEFINE Told == {i \in 2..n : Shows(segs[i], Asked(p[i]), w)}
             Moved == {i \in Told : Asked(p[i]) # Flat /\ p[i].channel \in Range(w)}
             Restless(q) == {i \in 2..n : \E a \in ToSet(segs[1]), b \in ToSet(segs[i]) :
                               a.key = q /\ b.key = q /\ a.block # b.block}
  <2>3. ASSUME \A q \in KeysOf(segs[1]) \ {Heartbeat} : Cardinality(Restless(q)) < Cardinality(Moved)
        PROVE  report.key = Heartbeat
    <3>1. /\ Moved \subseteq 2..n
          /\ \A i \in Moved : /\ Shows(segs[i], Asked(p[i]), w)
                              /\ Asked(p[i]) # Flat /\ p[i].channel \in Range(w)
      OBVIOUS
    <3>2. \A q \in KeysOf(segs[1]) \ {Heartbeat} : Cardinality(RestlessIn(segs, n, q)) < Cardinality(Moved)
      BY <2>3 DEF RestlessIn
    <3> HIDE DEF Moved, Restless
    <3>3. k = Heartbeat
      BY <2>1, <3>1, <3>2, HeartbeatPicked
    <3> QED
      BY <2>2, <3>3
  <2>4. ASSUME report.key = Heartbeat, NEW i \in Told
        PROVE  IF i \in Moved
                 THEN /\ report.findings[i].kind = "byte"
                      /\ report.findings[i].index = ByteOf(p[i], w)
                      /\ report.findings[i].new
                           = HeartbeatBlock[Asked(p[i])][w][report.findings[i].index]
                 ELSE report.findings[i].kind = IF p[i].value = 0 THEN "flat" ELSE "unmoved"
    <3>1. i \in 2..n /\ Shows(segs[i], Asked(p[i]), w)
      OBVIOUS
    <3>2. i \in Moved <=> Asked(p[i]) # Flat /\ p[i].channel \in Range(w)
      OBVIOUS
    <3> HIDE DEF Told, Moved
    <3>3. k = Heartbeat /\ base = HeartbeatBlock[Flat][w]
      BY <2>1, <2>2, <2>4 DEF Reports
    <3>4. report.findings[i] = FindingOf(p[i], segs[i], k, base)
      BY <2>1, <3>1 DEF Reports
    <3>5. PICK b, D : b = MostCommon(segs[i], Heartbeat) /\ D = _block_diff(HeartbeatBlock[Flat][w], b)
      OBVIOUS
    <3>6. /\ Heartbeat \in KeysOf(segs[i]) /\ b = HeartbeatBlock[Asked(p[i])][w]
          /\ D # {} <=> Asked(p[i]) # Flat /\ p[i].channel \in Range(w)
          /\ D # {} => D = {ByteOf(p[i], w)} /\ Min(D) = ByteOf(p[i], w)
      BY <2>1, <3>1, <3>5, ShownMoves
    <3>7. CASE D # {}
      <4>1. i \in Moved
        BY <3>2, <3>6, <3>7
      <4>2. /\ report.findings[i].kind = "byte"
            /\ report.findings[i].index = Min(D)
            /\ report.findings[i].new = b[Min(D)]
        BY <3>3, <3>4, <3>5, <3>6, <3>7 DEF FindingOf
      <4> QED
        BY <3>6, <3>7, <4>1, <4>2
    <3>8. CASE D = {}
      <4>1. i \notin Moved
        BY <3>2, <3>6, <3>8
      <4>2. report.findings[i] = NoByte(IF p[i].value = 0 THEN "flat" ELSE "unmoved")
        BY <3>3, <3>4, <3>5, <3>6, <3>8 DEF FindingOf
      <4> QED
        BY <4>1, <4>2 DEF NoByte
    <3> QED
      BY <3>7, <3>8
  <2> QED
    BY <2>2, <2>3, <2>4
<1> QED
  BY <1>1, IInvInit, IInvNext, DirInvInit, DirInvNext, PTL DEF Spec

\* A channel's gain law is laid at its value byte and through the bytes of the
\* gains set.
THEOREM LawCorrect == Spec => []LawIsTheConsoles
<1>1. IInv /\ DirInv => LawIsTheConsoles
  <2> DEFINE Of(c) == {i \in 2 .. Len(Segs) : /\ Steps[i].control = "gain"
                                             /\ Steps[i].channel = c
                                             /\ Heartbeat \in KeysOf(Segs[i])}
  <2> SUFFICES ASSUME IInv, DirInv, report # NoReport, report.key = Heartbeat,
                      NEW w \in Windows, Shows(Segs[1], Flat, w),
                      NEW law \in report.laws,
                      \A i \in Of(law.channel) : Shows(Segs[i], Asked(Steps[i]), w)
               PROVE  /\ law.index = Value(Place(law.channel, w))
                      /\ \A p \in law.points : \E i \in Of(law.channel) :
                           p = <<Steps[i].value, HeartbeatBlock[Asked(Steps[i])][w][law.index]>>
    BY DEF LawIsTheConsoles
  <2>1. PICK p, n, segs, k, base : Reports(p, n, segs, k, base, w)
    BY ReportUnfolds
  <2>2. /\ k = Heartbeat /\ base = HeartbeatBlock[Flat][w] /\ Steps = p /\ segs = Segs
        /\ n \in Nat /\ n = Len(segs) /\ report.laws = GainLaws(p, segs, k, base)
    BY <2>1 DEF Reports
  <2> DEFINE diff(i) == _block_diff(base, MostCommon(segs[i], k))
             GS(c) == GainSegments(p, segs, k, base, c)
             Points(c) == UNION {{<<p[i].value, MostCommon(segs[i], k)[j]>> : j \in diff(i)} : i \in GS(c)}
  <2>3. PICK c \in Channels : /\ \E q, r \in Points(c) : q[1] # r[1]
                              /\ law = [channel |-> c, points |-> Points(c), index |-> Min(diff(Min(GS(c))))]
    BY <2>2 DEF GainLaws
  <2>4. PICK v : v = Value(Place(c, w))
    OBVIOUS
  <2>5. ASSUME NEW i \in GS(c)
        PROVE  /\ i \in Of(c)
               /\ diff(i) = {v} /\ Min(diff(i)) = v
               /\ MostCommon(segs[i], k) = HeartbeatBlock[Asked(p[i])][w]
    <3>1. /\ i \in 2..n /\ p[i].control = "gain" /\ p[i].channel = c
          /\ k \in KeysOf(segs[i]) /\ diff(i) # {}
      BY <2>2, <2>5 DEF GainSegments
    <3>2. i \in Of(c)
      BY <2>2, <3>1
    <3>3. Shows(segs[i], Asked(p[i]), w)
      BY <2>2, <2>3, <3>2
    <3>4. PICK b, D : b = MostCommon(segs[i], Heartbeat) /\ D = _block_diff(HeartbeatBlock[Flat][w], b)
      OBVIOUS
    <3>5. b = HeartbeatBlock[Asked(p[i])][w] /\ (D # {} => D = {ByteOf(p[i], w)} /\ Min(D) = ByteOf(p[i], w))
      <4>1. i \in 2..n
        BY <3>1
      <4> HIDE DEF GS, diff, Of, Points
      <4> QED
        BY <2>1, <4>1, <3>3, <3>4, ShownMoves
    <3>6. ByteOf(p[i], w) = v
      BY <2>4, <3>1 DEF ByteOf
    <3> QED
      BY <2>2, <3>1, <3>2, <3>4, <3>5, <3>6
  <2>6. law.index = v
    <3>1. GS(c) # {}
      BY <2>3
    <3>2. GS(c) \subseteq 2..n
      BY <2>2 DEF GainSegments
    <3>3. IsFiniteSet(GS(c)) /\ GS(c) \in SUBSET Int
      <4>1. IsFiniteSet(2..n) /\ 2..n \subseteq Int
        BY <2>2, FS_Interval
      <4> HIDE DEF GS
      <4> QED
        BY <3>2, <4>1, FS_Subset
    <3>4. PICK m \in GS(c) : m = Min(GS(c))
      <4> HIDE DEF GS
      <4> QED
        BY <3>1, <3>3, MaxMinType
    <3>5. Min(diff(m)) = v
      BY <2>5
    <3> QED
      BY <2>3, <3>4, <3>5
  <2>7. ASSUME NEW q \in law.points
        PROVE  \E i \in Of(c) : q = <<p[i].value, HeartbeatBlock[Asked(p[i])][w][v]>>
    <3>1. law.points = Points(c)
      BY <2>3
    <3>2. q \in Points(c)
      BY <2>7, <3>1
    <3>3. PICK i \in GS(c) : q \in {<<p[i].value, MostCommon(segs[i], k)[j]>> : j \in diff(i)}
      BY <3>2
    <3>4. i \in Of(c) /\ diff(i) = {v} /\ MostCommon(segs[i], k) = HeartbeatBlock[Asked(p[i])][w]
      BY <2>5
    <3> HIDE DEF GS, diff, Of
    <3> QED
      BY <3>3, <3>4
  <2>8. law.channel = c
    BY <2>3
  <2>9. ASSUME NEW q \in law.points
        PROVE  \E i \in Of(law.channel) :
                 q = <<Steps[i].value, HeartbeatBlock[Asked(Steps[i])][w][law.index]>>
    <3>1. PICK i \in Of(c) : q = <<p[i].value, HeartbeatBlock[Asked(p[i])][w][v]>>
      BY <2>7
    <3> HIDE DEF Of
    <3> QED
      BY <2>2, <2>6, <2>8, <3>1
  <2> HIDE DEF Of
  <2> QED
    BY <2>4, <2>6, <2>8, <2>9
<1> QED
  BY <1>1, IInvInit, IInvNext, DirInvInit, DirInvNext, PTL DEF Spec
===============================================================================
