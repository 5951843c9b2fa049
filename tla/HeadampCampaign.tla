--------------------------- MODULE HeadampCampaign ---------------------------
(* capture-headamp.py and the analysis it ends in.  The operator sets one    *)
(* control at a time on the console and presses Enter; a few seconds of the  *)
(* link go to a file of their own, named by the step's number and control.   *)
(* After the last step the manifest is written.  A campaign may be aborted   *)
(* at a prompt or killed during a capture, the operator may be late with a   *)
(* control or forget it, tcpdump may fail to start, and a campaign may be run*)
(* again in the same directory.  The console's heartbeat shows its channels a*)
(* window at a time; frames of other signatures carry blocks of their own.   *)
EXTENDS HeadampIsolate

CONSTANTS
  Plans,       \* the step lists: sequences of [control, channel, value]
  Windows,     \* what the entries of a heartbeat may be of, channels or RingWrap
  RingWrap,    \* the pad entry between the last channel and the first
  OtherBlocks, \* the blocks other signatures may carry
  NotCapturing,\* what capture is between two captures
  MaxFrames,   \* bounds: MaxFrames[p][i] control frames in the i-th capture of plan p,
  MaxRuns,     \* MaxRuns campaigns in the directory,
  Alone        \* and no other before or after one of these plans

ASSUME CampaignAssumption ==
  /\ Channels \subseteq 0 .. 255 /\ RingWrap \in 0 .. 255 \ Channels
  /\ WindowSize \in Nat
  /\ Windows \subseteq [1 .. WindowSize -> Channels \cup {RingWrap}]
  /\ \A w \in Windows : \A d, e \in 1 .. WindowSize : w[d] = w[e] => d = e
  /\ OtherBlocks \subseteq [Block -> 0 .. 255]
  /\ Cardinality(Keys) >= 1 /\ NoKey \notin Keys /\ NotCapturing # <<>>
  /\ (\A p \in Plans : MaxFrames[p] \in [DOMAIN p -> Nat]) /\ MaxRuns \in Nat
  /\ \A p \in Plans :
       /\ p \in Seq(ToSet(p)) /\ Len(p) > 0 /\ p[1].control = "none"
       /\ \A i \in DOMAIN p :
            \/ p[i].control = "none" /\ p[i].value = 0
            \/ /\ p[i].control = "gain" /\ p[i].value \in 0 .. 255
               /\ p[i].channel \in Channels
            \/ /\ p[i].control = "48v" /\ p[i].value \in {0, 1}
               /\ p[i].channel \in Channels

VARIABLES
  plan,        \* the steps of the campaign that runs
  step,        \* the step at hand; 0 when none runs
  console,     \* what is set on the console, [gain, phantom] by channel
  capture,     \* the frames taken so far, NotCapturing between captures
  files,       \* the captures in the directory, by name
  segments,    \* the list the campaign will write
  manifest,    \* the manifest in the directory, <<>> for none
  report,      \* what the analysis says of the directory as it stands, or NoReport
  runs
vars == <<plan, step, console, capture, files, segments, manifest, report, runs>>

NoReport == [key |-> NoKey, findings |-> <<>>, notes |-> {}, laws |-> {}]

-----------------------------------------------------------------------------
(* The console and its frames. *)

Flat == [gain |-> [c \in Channels |-> 0], phantom |-> [c \in Channels |-> 0]]

(* What a step's prompt asks for: one control set and everything else flat. *)
Asked(s) ==
  CASE s.control = "gain" -> [Flat EXCEPT !.gain[s.channel] = s.value]
    [] s.control = "48v" -> [Flat EXCEPT !.phantom[s.channel] = s.value]
    [] OTHER -> Flat

StepsOfPlans == UNION {ToSet(p) : p \in Plans}

Heartbeat == CHOOSE k \in Keys : TRUE      \* the signature the state rides on

Consoles == {Asked(st) : st \in StepsOfPlans}

(* The entries of a window, a byte each for the slot, its flags and its gain.*)
HeartbeatBlock ==
  LET flags(con, c) == IF c = RingWrap THEN 0 ELSE 40 + 16 * con.phantom[c]
      gain(con, c) == IF c = RingWrap THEN 0 ELSE con.gain[c]
      byte(j, con, w) == LET e == (j + 2) \div 3
                         IN CASE j = Ident(e) -> w[e]
                              [] j = Flag(e) -> flags(con, w[e])
                              [] j = Value(e) -> gain(con, w[e])
      sum(con, w) == SumFunction([j \in Block \ {Cksum} |-> byte(j, con, w)])
  IN [con \in Consoles |-> [w \in Windows |-> [j \in Block |->
        IF j = Cksum THEN (256 - (sum(con, w) % 256)) % 256 ELSE byte(j, con, w)]]]

(* What may be on the link next: the heartbeat, at any window, or a frame of *)
(* another signature.                                                        *)
Frames ==
  {[key |-> Heartbeat, block |-> HeartbeatBlock[console][w]] : w \in Windows}
    \cup [key : Keys \ {Heartbeat}, block : OtherBlocks]

-----------------------------------------------------------------------------
(* The campaign. *)

PcapName(i, s) == <<i, s.control>>

\* The directory once tcpdump has written what it took under this name.
FileWritten(name) ==
  [n \in DOMAIN files \cup {name} |-> IF n = name THEN capture ELSE files[n]]

Init ==
  /\ plan = <<>> /\ step = 0 /\ runs = 0
  /\ console = Flat
  /\ capture = NotCapturing
  /\ files = [n \in {} |-> <<>>]
  /\ segments = <<>> /\ manifest = <<>> /\ report = NoReport

Start ==
  /\ step = 0 /\ runs < MaxRuns
  /\ plan' \in Plans
  /\ plan' \in Alone => runs = 0
  /\ runs' = IF plan' \in Alone THEN MaxRuns ELSE runs + 1
  /\ step' = 1
  /\ segments' = <<>>
  /\ report' = NoReport
  /\ UNCHANGED <<console, capture, files, manifest>>

SetControl ==
  /\ step > 0
  /\ console # Asked(plan[step])
  /\ console' = Asked(plan[step])
  /\ report' = NoReport
  /\ UNCHANGED <<plan, step, capture, files, segments, manifest, runs>>

\* Mutant: what was captured is still listed.
AbortKeepsList ==
  /\ step > 0 /\ capture = NotCapturing
  /\ step' = 0 /\ plan' = <<>>
  /\ report' = NoReport
  /\ UNCHANGED <<console, capture, files, segments, manifest, runs>>

\* Mutant: the manifest is written on the way out.
AbortWritesManifest ==
  /\ step > 0 /\ capture = NotCapturing
  /\ step' = 0 /\ segments' = <<>> /\ plan' = <<>>
  /\ manifest' = segments
  /\ report' = NoReport
  /\ UNCHANGED <<console, capture, files, runs>>

Abort ==
  /\ step > 0 /\ capture = NotCapturing
  /\ step' = 0 /\ segments' = <<>> /\ plan' = <<>>
  /\ report' = NoReport
  /\ UNCHANGED <<console, capture, files, manifest, runs>>

(* A KeyboardInterrupt during the capture: tcpdump is terminated all the     *)
(* same, and what it took is in its file, if it was there to open one; the   *)
(* exception goes through main.                                              *)
AbortCapture ==
  /\ capture # NotCapturing
  /\ LET name == PcapName(step, plan[step])
     IN files' \in {FileWritten(name)} \cup (IF capture = <<>> THEN {files} ELSE {})
  /\ capture' = NotCapturing
  /\ step' = 0 /\ segments' = <<>> /\ plan' = <<>>
  /\ report' = NoReport
  /\ UNCHANGED <<console, manifest, runs>>

Enter ==
  /\ step > 0 /\ capture = NotCapturing
  /\ capture' = <<>>
  /\ report' = NoReport
  /\ UNCHANGED <<plan, step, console, files, segments, manifest, runs>>

Captured(f) ==
  /\ capture # NotCapturing
  /\ Len(capture) < MaxFrames[plan][step]
  /\ f.key # Heartbeat => capture = <<>> \* bound: another signature comes first
  /\ capture' = Append(capture, f)
  /\ report' = NoReport
  /\ UNCHANGED <<plan, step, console, files, segments, manifest, runs>>

(* The step is listed with the frames its file holds, and the next one is    *)
(* prompted for or the manifest written.                                     *)
Listed(fs) ==
  LET name == PcapName(step, plan[step])
      entry == [step |-> plan[step], pcap |-> name,
                frames |-> IF name \in DOMAIN fs THEN Len(fs[name]) ELSE -1]
      done == step = Len(plan)
  IN /\ files' = fs
     /\ capture' = NotCapturing
     /\ manifest' = IF done THEN Append(segments, entry) ELSE manifest
     /\ segments' = IF done THEN <<>> ELSE Append(segments, entry)
     /\ step' = IF done THEN 0 ELSE step + 1
     /\ plan' = IF done THEN <<>> ELSE plan

Stop ==
  /\ capture # NotCapturing
  /\ Listed(FileWritten(PcapName(step, plan[step])))
  /\ report' = NoReport
  /\ UNCHANGED <<console, runs>>

(* tcpdump did not start: a file of that name from before is still there. *)
CaptureFails ==
  /\ capture = <<>>
  /\ Listed(files)
  /\ report' = NoReport
  /\ UNCHANGED <<console, runs>>

SegmentsOnDisk(m) ==
  [i \in DOMAIN m |-> IF m[i].pcap \in DOMAIN files THEN files[m[i].pcap] ELSE <<>>]
StepsOf(m) == [i \in DOMAIN m |-> m[i].step]

Steps == StepsOf(manifest)
Segs == SegmentsOnDisk(manifest)

(* python3 -m reac.headamp manifest.json, at any time between captures. *)
Analyse ==
  /\ capture = NotCapturing /\ manifest # <<>>
  /\ report' = isolate(Steps, Segs)
  /\ UNCHANGED <<plan, step, console, capture, files, segments, manifest, runs>>

Next ==
  \/ Start \/ SetControl \/ Abort \/ AbortCapture \/ Enter
  \/ \E f \in Frames : Captured(f)
  \/ Stop \/ CaptureFails \/ Analyse

Spec == Init /\ [][Next]_vars

-----------------------------------------------------------------------------
(* Properties. *)

Captures == Seq([key : Keys, block : [Block -> 0 .. 255]])
PcapNames == {<<i, s.control>> : i \in UNION {DOMAIN p : p \in Plans}, s \in StepsOfPlans}
Entries == [step : StepsOfPlans, pcap : PcapNames, frames : {-1} \cup Nat]

(* Every variable keeps its shape: a campaign that runs is at a step of its  *)
(* plan and has listed the steps before it (capture-headamp.py, main).       *)
TypeOK ==
  /\ plan \in Plans \cup {<<>>}
  /\ step \in 0 .. Len(plan) /\ (step = 0 <=> plan = <<>>)
  /\ console.gain \in [Channels -> Nat] /\ console.phantom \in [Channels -> {0, 1}]
  /\ capture # NotCapturing => step > 0 /\ capture \in Captures
  /\ DOMAIN files \subseteq PcapNames /\ \A n \in DOMAIN files : files[n] \in Captures
  /\ \A i \in DOMAIN segments : segments[i] \in Entries
  /\ Len(segments) = (IF step = 0 THEN 0 ELSE step - 1)
  /\ \A i \in DOMAIN manifest : manifest[i] \in Entries
  /\ runs \in 0 .. MaxRuns

(* A manifest lists one whole plan, step by step, each under its own file,   *)
(* whatever campaigns were aborted around it (capture-headamp.py:119-156).   *)
ManifestIsAWholePlan ==
  manifest # <<>> =>
    /\ Steps \in Plans
    /\ \A i, j \in DOMAIN manifest : manifest[i].pcap = manifest[j].pcap => i = j

(* More of a segment's heartbeats hold this block than any other one.        *)
Prevails(seg, block) ==
  /\ Heartbeat \in KeysOf(seg)
  /\ \A f \in ToSet(seg) : f.key = Heartbeat /\ f.block # block =>
       CountOf(seg, Heartbeat, f.block) < CountOf(seg, Heartbeat, block)
Shows(seg, con, w) == Prevails(seg, HeartbeatBlock[con][w])

Place(c, w) == CHOOSE e \in 1 .. WindowSize : w[e] = c
ByteOf(s, w) ==
  IF s.control = "gain" THEN Value(Place(s.channel, w)) ELSE Flag(Place(s.channel, w))

(* As in DEFAULT_PLAN, a control is back at flat before another is set. *)
BackToFlat(steps) ==
  \A i \in 2 .. Len(steps) :
    \/ steps[i - 1].value = 0
    \/ <<steps[i].control, steps[i].channel>> = <<steps[i - 1].control, steps[i - 1].channel>>

(* Of a heartbeat that is picked, where the operator was at most one step    *)
(* behind and the window stood still, a byte the analysis names for a step is*)
(* the byte of that step's control on that step's channel, and the only one  *)
(* that moved (headamp.py, isolate: "one control change" each).              *)
NamesItsControl ==
  report # NoReport /\ report.key = Heartbeat =>
    LET segs == Segs
        found == report.findings
        Near(i, w) == {HeartbeatBlock[Asked(Steps[k])][w] : k \in {i - 1, i}}
        ABehind(i, w) == \A m \in DOMAIN segs[i] :
                           segs[i][m].key = Heartbeat => segs[i][m].block \in Near(i, w)
    IN \A w \in Windows : Shows(segs[1], Flat, w) /\ BackToFlat(Steps) =>
         \A i \in DOMAIN found :
           found[i].kind = "byte" /\ ABehind(i, w) =>
             found[i].index = ByteOf(Steps[i], w) /\ found[i].conf = "high"

(* What prevails in the segments at the window of the baseline is what the   *)
(* analysis says, whatever late frames and frames of other windows say.  The *)
(* heartbeat is picked if no other signature of the baseline is restless in  *)
(* as many segments as it is told to have moved in; and once it is, a control*)
(* in the window is found at its byte and the value it was set to, and one   *)
(* that is flat or out of the window is said not to have moved (headamp.py,  *)
(* _modal_blocks, _pick_signature and isolate).                              *)
PrevailingRules ==
  report # NoReport =>
    LET segs == Segs
        asked(i) == Asked(Steps[i])
        f(i) == report.findings[i]
        Told(w) == {i \in 2 .. Len(segs) : Shows(segs[i], asked(i), w)}
        Moved(w) == {i \in Told(w) : asked(i) # Flat /\ Steps[i].channel \in Range(w)}
        Restless(k) ==
          {i \in 2 .. Len(segs) : \E a \in ToSet(segs[1]), b \in ToSet(segs[i]) :
             a.key = k /\ b.key = k /\ a.block # b.block}
    IN \A w \in Windows : Shows(segs[1], Flat, w) =>
         /\ (\A k \in KeysOf(segs[1]) \ {Heartbeat} :
               Cardinality(Restless(k)) < Cardinality(Moved(w))) => report.key = Heartbeat
         /\ report.key = Heartbeat => \A i \in Told(w) :
              IF i \in Moved(w)
                THEN /\ f(i).kind = "byte" /\ f(i).index = ByteOf(Steps[i], w)
                     /\ f(i).new = HeartbeatBlock[asked(i)][w][f(i).index]
                ELSE f(i).kind = IF Steps[i].value = 0 THEN "flat" ELSE "unmoved"

(* On a heartbeat, a channel's gain law is laid at its value byte and through*)
(* the bytes of the gains set, when in each of its segments its gain         *)
(* prevailed at the window of the baseline (headamp.py, isolate: gain_pts and*)
(* gain_off).                                                                *)
LawIsTheConsoles ==
  report # NoReport /\ report.key = Heartbeat =>
    LET segs == Segs
        Of(c) == {i \in 2 .. Len(segs) : /\ Steps[i].control = "gain"
                                         /\ Steps[i].channel = c
                                         /\ Heartbeat \in KeysOf(segs[i])}
        Steady(c, w) == \A i \in Of(c) : Shows(segs[i], Asked(Steps[i]), w)
    IN \A w \in Windows : Shows(segs[1], Flat, w) =>
         \A law \in report.laws : Steady(law.channel, w) =>
           /\ law.index = Value(Place(law.channel, w))
           /\ \A p \in law.points : \E i \in Of(law.channel) :
                p = <<Steps[i].value, HeartbeatBlock[Asked(Steps[i])][w][law.index]>>
=============================================================================
