---------------------------- MODULE RoleEvidence ----------------------------
(***************************************************************************)
(* How reac/observe.py and reac/ctrl.py decide, frame by frame, which row  *)
(* of the table a frame belongs to and what it says about its sender.      *)
(*                                                                         *)
(* Masters and boxes on the VLANs of one trunk go through the handshake    *)
(* ctrl.py and wireshark/reac.lua describe; the observer, started at any   *)
(* time, sees some of the frames.  The kernel hands a tagged frame over    *)
(* with its tag inline or stripped into the auxiliary data.                *)
(***************************************************************************)
EXTENDS Integers, FiniteSets, Functions, FiniteSetsExt

CONSTANTS
  Ports,         \* device ports on the trunk
  Masters,       \* those that play the master
  Mac,           \* the source address a port sends with
  Vlan,          \* the VLAN it is on, None when untagged
  PeerOf,        \* the master of a box's segment
  Channels,      \* channel width of a port's audio frames
  OuterTags,     \* further tags a switch may push and the NIC strip
  None,          \* Python's None
  MaxSeen        \* bound: frames the observer sees

ASSUME RoleAssumption ==
  /\ IsFiniteSet(Ports) /\ Masters \subseteq Ports
  /\ PeerOf \in [Ports \ Masters -> Masters]
  /\ \A p \in Masters : Channels[p] = 40
  /\ \A p \in Ports \ Masters : Channels[p] \in {2 * n : n \in 1..19}
  /\ \A p, q \in Ports : p # q => <<Vlan[p], Mac[p]>> # <<Vlan[q], Mac[q]>>
  /\ None \notin Nat
  /\ MaxSeen \in Nat

VARIABLES
  stage,         \* per port, where it is in the handshake
  scores,        \* Segments.streams, keyed by (vlan, src)
  seen           \* per port and record, the frames the observer saw of it

roleVars == <<stage, scores, seen>>

-------------------------------------------------------------------------------
(* The records of the wire: type word, class, fragment flags, length.      *)

Rec(type, op0, op1, op_len) == [type |-> type, op0 |-> op0, op1 |-> op1, op_len |-> op_len]

Filler     == Rec("0000", 0, 0, 0)        \* audio, and the presence flood
Announce   == Rec("cfea", 0, 0, 0)
Scene      == Rec("cdea", 1, 0, 26)       \* the probing master's cycle
Enroll     == Rec("cdea", 1, 3, 13)
GrantEcho  == Rec("cdea", 4, 3, 20)
ChannelMap == Rec("cdea", 1, 3, 25)       \* the established master's heartbeat
ColdConnect == Rec("cdea", 4, 3, 19)
Commit     == Rec("cdea", 1, 3, 16)       \* the box's state-4 commit report
LinkAck    == Rec("cdea", 1, 3, 1)        \* the box's heartbeat

\* What a port sends in each stage of the handshake.
MasterSends ==
  [probing  |-> {Scene, Announce, Filler},
   granting |-> {Enroll, GrantEcho, Announce},
   linked   |-> {Filler, ChannelMap, Announce}]
BoxSends ==
  [cold       |-> {ColdConnect},
   committing |-> {Commit},
   linked     |-> {Filler, LinkAck}]
Sends(p) == IF p \in Masters THEN MasterSends[stage[p]] ELSE BoxSends[stage[p]]

BoxRecords == UNION Range(BoxSends)
Records == BoxRecords \cup UNION Range(MasterSends)

-------------------------------------------------------------------------------
(* ctrl.parse and observe.sight.                                           *)

\* Mutant: the catch-all of class 1 is tried before the box heartbeat.
ParseProbeFirst(r) ==
  CASE r.type = "0000" -> "filler"
    [] r.type = "cfea" -> "master_announce"
    [] r.type = "cdea" /\ r.op0 = 4 /\ r.op1 = 3 -> "grant"
    [] r.type = "cdea" /\ r.op0 = 1 -> "probe"
    [] OTHER -> "unknown_ctrl"

IsHeartbeat(r, op_len) == r.op0 = 1 /\ r.op1 = 3 /\ r.op_len = op_len

Parse(r) ==
  CASE r.type = "0000" -> "filler"
    [] r.type = "cfea" -> "master_announce"
    [] r.type = "cdea" /\ r.op0 = 4 /\ r.op1 = 3 -> "grant"
    [] r.type = "cdea" /\ IsHeartbeat(r, 25) -> "master_hb"
    [] r.type = "cdea" /\ IsHeartbeat(r, 1) -> "box_hb"
    [] r.type = "cdea" /\ r.op0 = 1 /\ ~IsHeartbeat(r, 25) /\ ~IsHeartbeat(r, 1) -> "probe"
    [] OTHER -> "unknown_ctrl"

FrameLength(channels, residue) == 52 + channels * 36 + residue

audio_width(eth_len) ==
  LET fits == {n \in 2..40 : n % 2 = 0 /\ \E residue \in {0, 2} : eth_len = FrameLength(n, residue)}
  IN  IF fits = {} THEN None ELSE Min(fits)

\* Mutant: the tag in the auxiliary data is taken over the frame's own.
SightVlanAuxWins(inline, aux) == IF aux # None THEN aux ELSE inline

\* The frame's own tag wins over the one in the auxiliary data.
SightVlan(inline, aux) == IF inline # None THEN inline ELSE aux

\* How a frame of p can be handed over: its tag inline, or stripped.
TagForms(p) ==
  IF Vlan[p] = None
    THEN {<<None, None>>}
    ELSE {<<None, Vlan[p]>>} \cup {<<Vlan[p], aux>> : aux \in OuterTags \cup {None}}

-------------------------------------------------------------------------------
(* Stream.feed and Stream.role.                                            *)

NewScores == [frames |-> 0, master_score |-> 0, box_score |-> 0]

MasterEvidence(bcast, kind) == bcast \/ kind \in {"master_announce", "probe", "master_hb"}

\* Mutant: box evidence is looked for in every frame.
BoxEvidenceToo(bcast, kind, width) ==
  kind \in {"box_hb", "filler"} \/ (width # None /\ width < 40)

BoxEvidence(bcast, kind, width) ==
  /\ ~MasterEvidence(bcast, kind)
  /\ kind \in {"box_hb", "filler"} \/ (width # None /\ width < 40)

Scored(st, bcast, kind, width) ==
  [frames       |-> st.frames + 1,
   master_score |-> st.master_score + (IF MasterEvidence(bcast, kind) THEN 1 ELSE 0),
   box_score    |-> st.box_score + (IF BoxEvidence(bcast, kind, width) THEN 1 ELSE 0)]

role(st) ==
  IF st.master_score > st.box_score THEN "master"
  ELSE IF st.box_score > st.master_score THEN "box" ELSE "?"

SeenOf(p) == SumFunction(seen[p])

RoleInit ==
  /\ stage = [p \in Ports |-> IF p \in Masters THEN "probing" ELSE "cold"]
  /\ scores = [k \in {} |-> NewScores]
  /\ seen = [p \in Ports |-> [r \in Records |-> 0]]

\* The observer sees a frame: sight, then Segments.feed.  A master broadcasts,
\* a box returns unicast; an OHRCA console leaves the residue on.
See(p, r) ==
  /\ SumFunction([q \in Ports |-> SeenOf(q)]) < MaxSeen
  /\ \E tag \in TagForms(p), residue \in {0, 2} :
       LET key   == <<SightVlan(tag[1], tag[2]), Mac[p]>>
           found == IF key \in DOMAIN scores THEN scores[key] ELSE NewScores
           width == audio_width(FrameLength(Channels[p], residue))
       IN  scores' = [k \in DOMAIN scores \cup {key} |->
                        IF k = key THEN Scored(found, p \in Masters, Parse(r), width)
                                   ELSE scores[k]]
  /\ seen' = [seen EXCEPT ![p][r] = @ + 1]
  /\ UNCHANGED stage

\* The handshake, as the frames of the other end arrive; a peer that falls
\* silent sends both back to the start.
ToStage(m, b, mstage, bstage) == stage' = [stage EXCEPT ![m] = mstage, ![b] = bstage]

Handshake(b) ==
  LET m == PeerOf[b]
  IN  /\ \/ stage[m] = "probing" /\ stage[b] = "cold" /\ ToStage(m, b, "granting", "cold")
         \/ stage[m] = "granting" /\ stage[b] = "cold" /\ ToStage(m, b, "granting", "committing")
         \/ stage[b] = "committing" /\ ToStage(m, b, "linked", "linked")
         \/ stage[b] = "linked" /\ ToStage(m, b, "probing", "cold")
      /\ UNCHANGED <<scores, seen>>

RoleNext ==
  \/ \E p \in Ports : \E r \in Sends(p) : See(p, r)
  \/ \E b \in Ports \ Masters : Handshake(b)

RoleSpec == RoleInit /\ [][RoleNext]_roleVars

-------------------------------------------------------------------------------
KeyOf(p) == <<Vlan[p], Mac[p]>>
Row(p) == IF KeyOf(p) \in DOMAIN scores THEN scores[KeyOf(p)] ELSE NewScores

RoleTypeOK ==
  /\ \A p \in Ports : stage[p] \in {"probing", "granting", "linked", "cold", "committing"}
  /\ \A k \in DOMAIN scores :
       /\ scores[k].frames \in 1..MaxSeen
       /\ scores[k].master_score + scores[k].box_score <= scores[k].frames
  /\ seen \in [Ports -> [Records -> 0..MaxSeen]]

\* The rows are the ports seen, one each, and a row counts all the frames of
\* its port and none of another's: not those of the same address on another
\* VLAN, whichever way the kernel hands the tags over (sight, Segments.feed).
OneRowPerPort ==
  /\ DOMAIN scores = {KeyOf(p) : p \in {q \in Ports : SeenOf(q) > 0}}
  /\ \A p \in Ports : Row(p).frames = SeenOf(p)

Grants(p) == seen[p][ColdConnect] + seen[p][GrantEcho]
SeenBeyondGrants(p) == SeenOf(p) - Grants(p)

\* A master's row reads "master" from its first frame on that is no grant, in
\* every stage, and a box's row reads "box" as soon as the commit reports it sent
\* are outnumbered by its other frames, grants left out; how many grants there
\* are changes nothing of this (Stream.feed, Stream.role).
RoleIsTheSpeakers ==
  \A p \in Ports :
    /\ p \in Masters /\ SeenBeyondGrants(p) > 0 => role(Row(p)) = "master"
    /\ p \notin Masters /\ SeenBeyondGrants(p) > 2 * seen[p][Commit] => role(Row(p)) = "box"

\* "GRANT deliberately scores nothing ... so it identifies the exchange, not the
\* speaker" (observe.py:163-165): of a port seen only in frames of the grant
\* layout the table says nothing.
GrantScoresNothing ==
  \A p \in Ports : SeenOf(p) > 0 /\ SeenBeyondGrants(p) = 0 => role(Row(p)) = "?"
===============================================================================
