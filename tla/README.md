# reac-tools in TLA+

`reac-tools` measures REAC, the audio-over-Ethernet of a digital stage box and
its console: it reads captures (tcpdump text, pcap) or watches interfaces live,
and tells per stream what was lost, late or repeated, how fast it runs, who is
master and who is box. Every module here is written from the code under `src/`;
`PROJECT.json` names, definition by definition, the lines each stands for.

## 1. The system

| Part | Code | State | Operations |
|---|---|---|---|
| Sequence counter, transport report | `reac/analyzer.py` `_signed_delta`, `analyze_stream` | running unwrapped counter, previous counter | unwrap, count lost / reordered / duplicated |
| Mirror-twin dedup | `reac/analyzer.py` `dedupe_mirror_twins`, `reac/model.py` `clean_payload_len` | per source, the last body kept | keep, drop, forget |
| Command line | `reac/cli.py`, `reac/model.py` `rate_from_pps`, `reac/analyzer.py` `jitter_stats` | groups by (src, vlan), count of unresolved rates | dedup, report, rate, verdict line, exit status |
| tcpdump text parser | `reac/parser.py` | current header, hex lines collected | header, hex line, flush |
| Live observer | `reac/observe.py` | sockets, next print, deadline, total, per stream frames / mark / scores | select, drain, feed, table, interrupt, final table |
| Control-frame parser | `reac/ctrl.py` | none | classify a record, decode the head-amp entries |
| pcap reader and writer | `reac/pcap.py` | none | records in, records out, VLAN and FCS handling |
| Dual-point diff | `reac/diff.py`, `capture-dualpoint.sh` | two counter sets | match, loss between points |
| Characterizer | `reac/characterize.py` | per-field statistics | feed frames, report |
| Head-amp harness and isolation | `capture-headamp.py`, `reac/headamp.py` | step, segment list, capture files, manifest | prompt, capture, abort, write the manifest; modal blocks, byte diff, gain law |
| Simulator | `reac/simulator.py` | none | clean, lossy, late, repeated streams |
| Capture index | `tools/build_capture_index.py` | index rows | scan, classify, write |
| History tools | `tools/history_drop.py` | the history, the drop list, the ops checkout | ops-confirm, list, check, and the rewrite between them |
| 0500 gate | `verify_tag_0500.py` | none | read, find records, exit status |
| Anatomy and I/O diff | `reac_frame_anatomy.py`, `reac_io_diff.py` | none | take the frames of a stream out of a file, statistics |
| Dissector, scripts, fixtures | `wireshark/reac.lua`, `*.sh`, `tests/` | - | - |

How they interact. The offline tools are pipelines of function calls over a
whole capture: reader, then grouping, dedup, report, rate, verdict. Nothing in
them is concurrent; what is hard is the input, shaped by a path that loses,
delays and repeats frames, by a 16-bit counter that wraps, by a mirror that
copies each frame twice and by a clock that goes back at midnight. The observer
is an event loop: the kernel fills two receive queues per interface while
`main` waits in `select`, drains, feeds the streams and prints, with two timers
(`--interval`, `--seconds`) and an interrupt that may fall anywhere. The
harness scripts start and stop captures on their own, at the two ends of a link
or once per step of a campaign, and read the files while the last writes of
tcpdump may be missing. Four tools bring a pcap loop of their own next to
`reac/pcap.py`, and must agree with it. The history rewrite is three commands an
operator runs by hand, with a drop list and a private checkout that may change
between any two of them.

What makes each part correct:

- *report*: the counts are the truth about the frames, wraps included;
- *dedup*: only mirror copies go; what is left is the capture of one direction;
- *command line*: a rate is the source's or none, "clean" means nothing was
  lost, the exit status tells whether a rate is missing;
- *observer*: each frame read is counted once and in one row, a rate is not
  made of frames of another window, the deadline ends the run, due tables come
  out, and the role column names the speaker;
- *pcap, text parser*: a file or text cut off anywhere yields what stands before
  the damage, each frame under its own header and at its own time;
- *index, anatomy, I/O diff, 0500 gate*: what they say of a capture is what the
  common reader says of it, and an empty scan is no pass;
- *dual-point diff*: a link is called clean only if it lost nothing;
- *head-amp*: the manifest lists one whole campaign, and the byte the analysis
  names is the byte of the control that was set;
- *history*: the rewrite leaves nothing internal and drops nothing that is not
  held elsewhere.

`PROJECT.json` lists the hazards behind these, each at its line.

## 2. The modules

```
Lemmas                  remainders, induction over sets, recursion, sums, what a filtering
                        loop leaves (every *_proofs extends it)
Picking                 what such a loop leaves: used by CliVerdict, PcapFile and Lemmas
SeqCounter              the counter and _signed_delta
  StreamReport          the three counts, and the truth they tell
    StreamAnalyzer      analyze_stream, step by step, over any path
      StreamAnalyzer_proofs
    CliVerdict          main of cli.py over the capture of several streams
      CliVerdict_proofs, MCCliVerdict
  MirrorDedup           dedupe_mirror_twins over a both-directions mirror
    MirrorDedup_proofs, MCMirrorDedup
  TcpdumpText           the text of tcpdump and parse_tcpdump_text
    DualPoint           two captures of one link, and diff.py
      DualPoint_proofs, MCDualPoint
PlainCapture            abstract: a capture of one direction (refined by MirrorDedup)
Observe                 main of observe.py, kernel queues, clock, interrupt
  Observe_proofs, MCObserve
RoleEvidence            ctrl.parse, sight and Stream.feed / role over the handshake
  Observe_proofs (its proofs are there too), MCRoleEvidence
HeadampIsolate          headamp.py: modal blocks, byte diff, findings, gain law
  HeadampCampaign       capture-headamp.py, the operator and the console
    HeadampCampaign_proofs, MCHeadampCampaign
HistoryDrop             history_drop.py, the rewrite, and what others change
  Tools_proofs, MCHistoryDrop, MCTools
PcapFile                pcap files, write_pcap, read_pcap, the scripts' own loops
  CaptureIndex          scan and classify of the index, ctrl.parse
  VerifyTag             the 0500 gate
    CaptureTools        a corpus that comes about, read by all of them
      Tools_proofs (its proofs are there too), MCCaptureTools, MCTools
```

`RoleEvidence` and `CaptureTools` prefix the names every module has (`RoleInit`,
`CorpusNext`, ...), so that one proof module can extend them next to another
component: `Observe_proofs` holds the proofs of all of `observe.py`, `Tools_proofs`
those of the tools around the captures, and `MCTools` checks these in one run. The
history and the corpus share no variable and no constant, so `MCTools` lets either
of them go on only where the other has not begun: the states are those of the two
next to each other, not their product.

**SeqCounter, StreamReport.** `HALF` is the code's `_HALF`; the code fixes it to
32768, the modules only use that the modulus is twice it. `ReportOf` is the last
third of `analyze_stream`. `Truth` is what the counts should say of the *true*
frame numbers, which only the model knows: numbers missing between the lowest and
the highest captured, arrivals below their predecessor, arrivals of a number
already seen.

**StreamAnalyzer.** A source emits frames; the path captures any emitted frame,
late or again, at most `MaxGap` ahead of or `MaxLate` behind the frame before.
`StartUnwrap`, `UnwrapNext`, `MakeReport` are the statements of
`analyze_stream`, one frame per step.

**MirrorDedup, PlainCapture.** `Send` and `MirrorTx` give the RX and TX copy of a
frame; either may be dropped, may carry the two residue bytes and (if the mirror
is `opaque`) may come without payload. `lag` bounds how many frames of a source
still await their TX copy: 1 is a mirror that answers within the frame period, 2
one that does not. `Resend` is a box sending a frame again, byte for byte.
`Close` ends the capture; `KeepOpaque`, `DropTwin` and `KeepNew` are the three
paths through the loop of `dedupe_mirror_twins`. A body is its counter, its content
and its length after `clean_payload_len`, which is modelled on the real lengths.
`PlainCapture` is the promise: every frame at most once, each source's frames in
the order sent. The refinement mapping is the kept list; it holds of the tight
mirror only (a late mirror interleaves the next frame and the copies are then no
longer adjacent), and `NoFrameVanishes` is asked of both.

**CliVerdict.** Time is in ticks and rates are periods: `1/modal <= ...` becomes a
comparison of products of integers, and twice the median is used so that the mean
of two middle inter-arrivals stays whole. Every capture the path can make of
sources sending one frame per period is written with the time of the day as
timestamp (`parser._to_seconds`); `AnalyzeGroup` is one turn of `main`'s loop with
every call it makes (dedup, report, rate, jitter, verdict line), `Exit` its
status. `Read` ends at the sort of the groups: where one source came both tagged
and untagged (`~Sortable`) Python has no order of `None` and a number, and `main`
ends in a `TypeError` with status 1. `forced` is `--rate` or `--fps`, which may be any positive number. `Picked`
(module `Picking`) is what a loop that appends some members of a list to another
leaves: the frames of a group, and what dedup keeps. `Ranked` is the value sorting puts in a place, counted
instead of sorted. `Firsts`, `TrueGaps` and `Nums` are what really happened to a
stream; `Near` is what the 10 % of `RATE_TOLERANCE` let pass.

**TcpdumpText, DualPoint.** A text is lines of words; `CutsOf` are all the texts a
killed tcpdump may have left of the last packet, cut between words or within one.
`ParseLine` is one turn of the loop of `parse_tcpdump_text`, folded over the lines.
The ethertype is found by its bytes, wherever they are first (`PayloadAfter8819`):
`HidingSources` and `HidingVlans` are the addresses and VLAN tags that hold an
`88 19` themselves, and a frame with one of them reads the wrong word for its counter.
In `DualPoint` the two taps `Start` and `Stop` on their own, the link delivers,
reorders, loses and repeats frames, another stream may turn up at the far end, and
`diff_streams` compares sets of counters. A setup says which of these can happen.
`lost` are the frames of which the link lost a copy; one is missing at the box only
if the box captured none.

**Observe.** `pc` is where `main` is: `top` (deadline and timeout), `select`,
`drain`, the three statements of a feed (`count`, `insert`, `feed`: the interrupt
can fall between them), `closing` (the `finally` block), `final`, `exited`. `Tick`
is the monotonic clock, `Arrive` the kernel queueing a frame or dropping it when
the queue is full. `recv_sight` answers `None` both for an empty queue and for a
frame that is not REAC, and the drain of that socket stops either way
(`RecvNothing`). `Table` ticks every stream, as rendering does. `accepted` and
`acceptedAt` are history: what the kernel accepted, and what it had accepted when
the stream's window opened.

**RoleEvidence.** Masters and boxes walk through the handshake as the dissector
and `ctrl.py` describe it; the observer sees any of the frames a port can send in
its stage, tag inline or in the auxiliary data, both with stacked tags. `Parse`
is `ctrl.parse`, `audio_width` is computed on real frame lengths, `Scored` is
`Stream.feed`, `scores` the dictionary of `Segments.streams`.

**HeadampIsolate, HeadampCampaign.** A segment is the control frames of one
capture, each with its signature and its block. A block is cut down to its channel
entries, three bytes each (`Ident`, `Flag`, `Value`) as `ctrl.py` decodes them, and
the checksum byte the sender derives from the others. The heartbeat shows the
channels a window at a time, as `reac.lua:81` says: a frame may be of any of the
`Windows`, the end of the ring included. Frames of other signatures carry any of
`OtherBlocks` and so may move of themselves, which is what `_pick_signature` has to
choose against. The console is what the operator has set, which may be the step
before's: he is late, or forgets, and `SetControl` may fall within a capture. `Stop`
is a capture that ends well, `CaptureFails` a tcpdump that never started, in which
case a file of that name from an earlier campaign is still there. `Abort` is the
prompt interrupted; `AbortCapture` is the interrupt within a capture, which the
handler of the prompt does not see: the file is there, and in no list. `Analyse`
may run between any two captures. `Prevails` says that more heartbeats of a segment
hold one block than any other.

**HistoryDrop.** A commit has its tree and the paths it touches, a merge those that
differ from either parent (`history_paths` reads both). `OpsConfirm`, `ListDrops`
and `CheckOk` are the three commands with every error exit; `FilterRepo` is the
`git filter-repo` the docstring prescribes, external. The order of the commands is
the docstring's: each only once the one before exited 0. `EditOps` is what others
do to the ops checkout meanwhile. `held` is history: the copies the last passing
`ops-confirm` saw.

**PcapFile, CaptureIndex, VerifyTag, CaptureTools.** A file has a byte order, a
precision, a header that is whole, cut past its magic or not there, its complete
records and perhaps the record it was cut off in; reading it in the other byte order
gives a record length beyond any file. A packet has the words at the bytes 12, 16 and
20, where an ethertype or a tag may be: the common reader wants the ethertype behind
nothing or behind a 802.1Q tag (`IsReac`), the anatomy at any of the three whatever
is before it (`reac_off`). A time in a file is exact, a time in memory a double
(`Double`): the double next to it, half-way to the even one. `TICKS` are the doubles
in a second, 2^22 of them at today's epoch, so that microseconds are told apart and
nanoseconds are not; `write_pcap` rounds from there (`Rounded`). `CaptureTools`
makes a corpus, one capture after the other, and the tools are functions of it:
`read_pcap`, `scan`, `AnatomyStream`, `IoDiffFrames` and `GateMain` each follow
their own loop of the source. `Those` are the records, or the arrivals, whose packets
a loop does not skip. `IoDiffFrames` takes any packet of its source and size that is
whole in a little-endian file, REAC or not, as the script does. `AnatomyDies` is the
`struct.error` of a file without a magic, and `GateMain` exits 2 where a capture it
was named is missing. `truth` is history: per file, what came in and is wholly in it.

## 3. The runs

| Run | Instance | What it shows |
|---|---|---|
| `stream_analyzer` | counter of 6, captures of up to 6 out of 9 frames | `ReportIsTruth` |
| `mirror_dedup` | counter of 4; two sources off a tight mirror; one off a late mirror without some payloads | `NoFrameVanishes`, refinement of `PlainCapture` |
| `observe` | two sockets with queues of 2, 3 arrivals, clock to 4, deadline 3 or none | `EveryFrameAccountedFor`, `TotalIsSumOfRows`, `WindowBoundedByArrivals`, `StatusTellsWhatWasSeen`, and under fairness `DeadlineHonoured`, `DueTableIsPrinted`, `QueuesDrain` |
| `observe_sustained` | traffic that never stops | violated: see section 6 |
| `role_evidence` | one console on two VLANs, one box, 6 frames seen | `OneRowPerPort`, `RoleIsTheSpeakers` |
| `grant_scores` | the same, 2 frames seen | violated: see section 6 |
| `cli_verdict` | one stream of rate or half the rate, gaps up to 7 of a counter of 8, delays, a forced rate; two streams, 6 copies, a mirror; one stream of a rate 9 % from another, near one or near none, and forced rates; a source tagged and untagged next to another | `CleanMeansNothingLost`, `RateIsTheSources`, `TwinsAreTheMirrors`, `StatusTellsUnresolved`, `WorstGapIsReported` |
| `cli_verdict_midnight` | a capture that runs past the end of the day | violated: see section 6 |
| `dual_point` | counter of 4, 4 frames and a copy of one, tagged and not; taken together with reordering, taken apart with reordering, cut, cut with a foreign stream whose address holds `88 19`, cut with such a tag | `ParsedAsWritten`, `LossIsReported`, `CleanIsClean` |
| `headamp` | two campaigns of one-frame captures in one directory, or one with captures of 2 and 3; two windows of a ring of two channels and its end; a second signature with two blocks | `ManifestIsAWholePlan`, `NamesItsControl`, `PrevailingRules`, `LawIsTheConsoles` |
| `tools` | a pattern path and a name-rule path, 3 commits on two branches, 2 drop entries, one edit by others after confirmation; captures of either order and precision: two packets of seven kinds, then one of any kind of control block, cut anywhere; caps of none, 1 and 2 | `NothingDroppedUnconfirmed`, `RewriteLeavesNoInternal`, `CheckOkMeansClean`; `ReadIsWhatCameIn`, `IndexAgreesWithReader`, `AnatomySeesTheReaders`, `GateIsRight` |
| `verify_tag_nano` | the corpus of `tools` | violated: see section 6 |

Every passing run checks its module's type invariant too (`TypeOK`, `RoleTypeOK`,
`CorpusTypeOK`).

Why the bounds are enough. The counter's modulus is small so that captures wrap
within a few frames: six frames with gaps of two cross a modulus of six twice, in
every mix of loss, late arrival and repeat. Dedup compares with one earlier frame
per source, so three frames of two sources, four copies, hold every neighbour a
copy can have. The observer's loop meets each of its cases within three arrivals
on two queues of two (a full queue, a foreign frame before and after REAC ones, a
first and a later window of a stream, both timers on either side of each other);
its counters never saturate (`CountCap` > `MaxArrivals`). Six sightings are enough
for two ports of one address, and for a box whose commit reports are outnumbered.
Five frames of one stream give a median over four inter-arrivals (even) and three
(odd); rates of 11 and 12 ticks are within the tolerance of each other, as 44.1 and
48 kHz are, and sources of 13 and 15 ticks are near one of them and near none. `HalfTurnIsLong` is the fact that a half turn of the 16-bit counter lasts
four seconds and more, so that a loss it hides is a gap no "clean" stream can
have; `CleanMeansNothingLost` is asked under it, and the instance satisfies it.
Four frames fill a turn of the dual-point counter exactly, and one copy can arrive
where its original was lost. Three commits hold a
file added and deleted again, a side branch and its merge; a merge of two diverged
tips is the third. Three frames let the prevailing block overrule a late one, a frame of another window or
the first seen, two make a tie; with two steps after the baseline the second signature
moves as often as the heartbeat, less often or not at all (it comes first in a capture or
not at all, which bounds the runs and is the order in which a tie goes against the
heartbeat); and a second campaign of one-frame captures meets the files, complete and
not, the first left.
The reader's decisions are per file and per record, so two packets before and
after each other, and one of every kind, show what a longer capture could; the
units of time are few (2 to a second, 3 to each, and 4 doubles to a second) and the
packets 5 apart, so that times fall on a double, beside one and half-way between two,
and a fraction rounds up to a whole second.

Every run but the two of `RoleEvidence` switches deadlock checking off and says why in its
cfg or here: programs return, captures and corpora reach their bound, the operator
of a campaign or a rewrite stops. The handshake never stops: it starts
over.

## 4. Fairness

`FairSpec` assumes `WF(Main)` and `WF(Tick)`: the process is scheduled and time
passes. Nothing is assumed of the traffic, nor of the operator: arrivals and the
interrupt may never come, and in `observe` arrivals are finitely many, which is a
stand-in for "traffic that pauses long enough for a drain to end". The liveness
properties are checked in the same run as the safety ones, on the same instance.
`SustainedSpec` adds `WF(Arrival)`: frames keep coming, as the "zero REAC frames"
message of `observe.py` says of a live segment ("FILLER floods continuously").
The other modules state no fairness: what they do is asked of what has happened,
never that something must.

## 5. What is proved

Each theorem is for every value of the constants that satisfies the module's named
assumption, and for behaviours of any length. Where it needs more of the constants,
the condition is named in its statement; each is one the instances of the runs
satisfy.

| Module | Theorem | Property it states | Condition |
|---|---|---|---|
| `StreamAnalyzer_proofs` | `TypeCorrect`, `ReportCorrect` | `TypeOK`, `ReportIsTruth` | `PathWithinHalf` |
| `MirrorDedup_proofs` | `TypeCorrect`, `NothingVanishes`, `Refinement` | `TypeOK`, `NoFrameVanishes`, `GivesBackPlainCapture` | `WithinATurn` for the second |
| `Observe_proofs` | `TypeCorrect`, `FramesAccounted`, `TotalIsRows`, `WindowBounded`, `StatusCorrect` | `TypeOK`, `EveryFrameAccountedFor`, `TotalIsSumOfRows`, `WindowBoundedByArrivals`, `StatusTellsWhatWasSeen` | `CountersSuffice` |
| | `RoleTypeCorrect`, `RowsCorrect`, `RolesCorrect` | `RoleTypeOK`, `OneRowPerPort`, `RoleIsTheSpeakers` | |
| `CliVerdict_proofs` | `TypeCorrect`, `StatusCorrect` | `TypeOK`, `StatusTellsUnresolved` | |
| | `TwinsCorrect` | `TwinsAreTheMirrors` | `WithinATurn` |
| | `WorstGapCorrect`, `RateCorrect`, `CleanCorrect` | `WorstGapIsReported`, `RateIsTheSources`, `CleanMeansNothingLost` | `WithinATurn`, `WithinTheDay` |
| `DualPoint_proofs` | `TypeCorrect`, `ParsedCorrect`, `LossCorrect`, `CleanCorrect` | `TypeOK`, `ParsedAsWritten`, `LossIsReported`, `CleanIsClean` | |
| `Tools_proofs` | `TypeCorrect`, `RewriteIsComplete`, `CheckIsRight`, `DropsAreConfirmed` | `TypeOK`, `RewriteLeavesNoInternal`, `CheckOkMeansClean`, `NothingDroppedUnconfirmed` | |
| | `CorpusTypeCorrect`, `ReaderCorrect`, `IndexCorrect`, `AnatomyCorrect`, `GateCorrect` | `CorpusTypeOK`, `ReadIsWhatCameIn`, `IndexAgreesWithReader`, `AnatomySeesTheReaders`, `GateIsRight` | |
| `HeadampCampaign_proofs` | `TypeCorrect`, `ManifestCorrect`, `NamesCorrect`, `PrevailingCorrect`, `LawCorrect` | `TypeOK`, `ManifestIsAWholePlan`, `NamesItsControl`, `PrevailingRules`, `LawIsTheConsoles` | |

**Lemmas.** The models are made of recursive functions, folds, sums over rows and
counts over lists, and what they compute for every input takes an induction. The
library's induction theorems have an operator as a parameter and cannot be cited, so
induction is stated here of *sets*: a set of integers that holds the first of an
interval and, with each, the next, holds the interval (`IntervalInduction`); a family
of subsets of a finite set that holds each subset all whose smaller ones it holds,
holds the set (`SubsetInduction`, by well-foundedness of cardinality). In a proof the
set is `{n \in 1..N : P(n)}`. From these follow that a recursion over an interval
has a function that satisfies it (`RecursionExists`, without which a `CHOOSE` says
nothing), that a fold over a finite set has one (`FoldExists`), that a finite set of
integers has bounds (`FiniteBounds`, `MaxMinType`), how a sum changes with one of
its terms (`SumUnfolds`, `SumChange`) and that no term exceeds it (`SumTerm`). What
a filtering loop leaves has one entry per place it passed on, in their order
(`PickedIsLoop`, `PickedPlaces`): a sub-list is thus a rising list of places, which
is what every comparison of two readers' lists is made of, and it can be counted in
places (`PlacesCount`).

**StreamAnalyzer_proofs.** `SignedDeltaIsTrueDelta`: the signed delta of the counters
of two frames is the true distance of the frames when that lies in
`-HALF .. HALF-1`; both sums differ by a multiple of the modulus and both lie within
one turn. `ShiftedReportIsTruth`: `ReportOf` over numbers displaced by a constant is
`Truth` of the numbers, since displacement keeps extremes, distances and order, and
first arrivals are as many as distinct numbers. Under `PathWithinHalf` (`MaxGap <
HALF`, `MaxLate <= HALF`) every report is the truth. `ReportIsTruth` says nothing
before the report is made; `IInv` adds `StepsWithinPath` (successive captured frames
are within the path's bounds) and `UnwrappedIsShifted` (what is unwrapped so far is
the true numbers less whole turns). The type invariant needs the same, since a
report is of natural numbers only if it is the truth.

**MirrorDedup_proofs.** `WithinATurn`: the longest gap and the mirror's lag are
together at most a turn of the counter. The path part of the invariant says that a
frame still owed is among the last `lag` of its source (`OwedIsRecent`), that a copy
in the capture is of a frame that was sent (`Genuine`), and that a copy is behind
every earlier one of its source by less than `lag` (`NotFarBehind`) and ahead of some
earlier one by at most `MaxGap` (`NotFarAhead`), hence less than a turn from the one
just before. The loop part says that the remembered body is that of the last copy of
the source (`PrevIsLast`) and that what is kept was captured (`KeptIsCaptured`). A
copy that is dropped then equals the one just before it in its counter and is less
than a turn away, so both are of the same frame. The refinement adds that off a tight
mirror the numbers of a source never step back in the capture.

**Observe_proofs.** `CountersSuffice`: the model's counters do not saturate before
the traffic ends. The accounting is an equation between counters and the number of a
stream's frames in a receive queue, so the lemmas say what appending to and taking
from a queue does to that number, by bijections between sets of places. `Routed` (a
stream's frames are only in its own queue) and `HandIsFed` (what is in hand at each
statement of a feed) carry it through the loop; `MarkWithinQueue` is the
strengthening of the window bound: at a mark no more than a queue of frames accepted
is uncounted. `TotalTells` relates the total to the rows as far as the status needs:
zero exactly when no row has a frame. `TotalIsAhead` is the sum itself: the total is
the sum of the rows, one more exactly while a frame is counted and not yet fed;
`AcceptedAddUp` bounds that sum by the arrivals, so that it does not saturate.

The proofs about `RoleEvidence` stand in the same module. `RoleInv` says that each
port is in a stage of its kind (`StagesOfKind`), that no more was seen than the
bound lets through (`SeenWithinBound`), and what every row must be (`RowsAreThePorts`):
a master's scores are its frames and nothing, a box's its commit reports and all its
other frames. That is the strengthening: that a role is right says nothing of the
scores it came from, and the next frame is added to those. It holds because a record
a port can send in its stage is one of its kind's (`BoxRecordsAre`,
`MasterRecordsAre`), and because the VLAN of a sighting is the port's whichever way
the tag came, so that a frame finds the row of its own port and of no other
(`RoleAssumption`: no two ports have the same address on the same VLAN).

**CliVerdict_proofs.** `CliInv` is small: the setup is one the assumption allows, a
group of the capture is its stream's frames in the order they came in, each stamped
at or after it was sent, a first copy within the path's delay, and each at most the
path's gap ahead of the one before and its delay behind it (`GroupsInv`), each verdict
is `VerdictOf` of a group that can no longer grow and `unresolved` counts those
without a rate (`VerdictsInv`), and only a capture with a frame, whose groups can be
sorted, is analyzed (`PhaseLeaves`). Everything else is about `VerdictOf`. `TwinsCorrect`: neighbours with one counter are less than a turn
apart and so are one frame (`SameCounterSameFrame`); what dedup keeps is then the
first copy of each frame (`FirstsAreKept`). `WorstGapCorrect`: within a day the
stamps are the times less a constant (`DeltasAreGaps`). `RateCorrect`: a value that
fills more than half of a list is at its middle, or at both of its middles
(`MajorityIsMiddle`, by counting, as `Ranked` does), a nearest rate exists
(`NearestExists`), and a source at one of REAC's rates has no other as near
(`RateOfARate`). `CleanCorrect`: a stream whose worst gap is below three intervals
has neighbours less than half a turn apart (`StepWithinHalf`), the unwrapped counters
are then the numbers less a constant (`UnwrappedIsShifted`), and a count of zero
leaves no hole (`NothingLostNothingMissing`). `TypeCorrect` needs no condition: the
span of any unwrapped counters is at least their number (`SpanCounts`).
`WithinATurn` says that a path loses less than a turn of the counter between two
frames of a stream and delays none by as much; `WithinTheDay` that the capture ends
before midnight. Both are needed: section 6 has what happens without.

**DualPoint_proofs.** `DualInv` is `Bounds` (how much was sent), `Kept` (what each
point captured are the packets of the link's stream and, if it has one, the other
stream's), `Fetched` (a closed tap's text is one that can be left of its packets),
`OnlySent` (what is on the link, lost or captured was sent) and `TogetherInv` (when the captures are taken together, the console's has every
frame sent, and what was sent is on the link, lost or at the box).
`ParsedCorrect` is the automaton run over any text: from the text of some packets the
parser is left with their frames and no open header after the flush (`TextRead`), by
induction over the packets (`OneTurnMore`, `PacketRead`), where an `88 19` before
the ethertype changes the counter and nothing else; and a cut within the last
packet's three lines costs that frame or gives it another counter (`CutRead`, case by
case). `DiffIsExactWithinATurn`: on captures within one turn of the counter the diff
of the counters is the diff of the frames, so that the link is called clean exactly if
both ends captured the same (`CleanWithinATurn`). `LossCorrect` and `CleanCorrect` put
both together.

**Tools_proofs.** Of `HistoryDrop`: what any commit reachable from a ref carries was
touched by a commit reachable from it (`CarriedIsTouched`, `TipsReached`): this is why
a listing of touched paths, merges diffed against each parent, misses none. `Confirmed`
says that from `ops-confirm` on, each listed path's version at the base of its entry is what `held` has,
and `ListIsCurrent` that the printed list is the history's and lies within the drop
list.

Of `CaptureTools`: `CorpusInv` says that times do not run back in what has come in
during the open capture, and that each file is a capture of its `truth`
(`IsCaptureOf`): record by record the packet and its time to the file's precision,
times rising, no record without a whole header, and at most one record cut off. The
work is in the times, which are rounded up to three times on the way: cut down to the
precision of the file or made a double and rounded to it (`StampIs`, `RoundedIs`), and
made a double again by the reader (`DoubleIs`). Each step is off half its unit at the
most, or a unit where it cuts (`NearestIs`, `DoubleIsNear`), and each keeps the order
(`NearestRises`, `StampsRise`, `RoundedRise`, `DoublesRise`), a fraction that rounds up
to a whole second included. `PcapAssumption` asks only that a double tells microseconds
apart. With the code's numbers the model's rounding is exact: `frac / div` is rounded
before it is added to the seconds, but a fraction of 10^6 or 10^9 parts is never so near
the middle of two multiples of 2^-22 that this decides, and `(ts - sec) * 1_000_000` of
a multiple of 2^-22 has no rounding at all. The rest is about `IsCaptureOf` alone, for
files of any length.
`ReaderCorrect`: a packet is REAC in the record exactly if it is in the arrival, so the
reader's list and the true one pick the same places (`ReadPlaces`). `IndexCorrect`: the
index picks the same places again (`KindOfReac`, `ScanIndexes`), the kinds agree case
by case (`KindsAgree`), and a capped scan's places are the first of them
(`FewerPicked`). `AnatomyCorrect`: what is REAC is shown, and picking twice is picking
once (`KeptTwice`, `ReacIsShown`), once the record that was cut off is set aside
(`AllButLast`). `GateCorrect`: a record the gate finds is one that came in, and in a
file it knows the order of, each that came in is found (`GateReads`, `GateScans`).

**HeadampCampaign_proofs.** `ManifestCorrect`: the segment list is the steps before
the one at hand (`ListIsPrefix`), so that the manifest, written after the last, is
one whole plan (`ManifestIsList`), whatever was aborted before. The other theorems
add `DirInv`: the captures are of frames that can be on the link and no longer than a
step's, the entries listed are of steps of the plan, and a report is the analysis of
what is in the directory now (`ReportIsCurrent`). What prevails in a segment is what
`most_common` returns (`PrevailingIsMostCommon`), and between two consoles a step apart
at one window the only byte that moves is that of the control (`OneByteMoves`: the
checksum moves with it and is left out), if its channel is in the window
(`AskedMoves`). `PrevailingCorrect` puts them together with the choice: the heartbeat
moves in every segment where it is told to have, another signature at most in those
where it is restless, so that it loses if it is restless in fewer (`HeartbeatPicked`).
`NamesCorrect` and `LawCorrect` follow for a heartbeat that is picked. Nothing is
claimed of a campaign in which the prevailing block is of one window in one segment and
of another in the next: `chan_id` bytes then move too. `headamp.py` does not look at
the window; it says so by a confidence of "medium".

Model-checked only: the liveness properties (`DeadlineHonoured`, `DueTableIsPrinted`,
`QueuesDrain`) and the sustained traffic, which are out of the prover's reach as ENABLED
is. Every invariant and every other action property a passing run checks is stated by
a theorem. The four violations are counterexamples of an instance; there is nothing to
prove in them.

## 6. Where code and documentation differ

Shown by a run:

1. `observe.py:310`: the drain loop has no look at the clock. As long as frames
   come in as fast as they are read, neither `--seconds` ("observe this long,
   print the final table, exit") nor the periodic table is reached again.
2. `parser.py:28`: timestamps are the time of the day. The inter-arrival across
   midnight is a day short and negative, so `jitter_stats`, "the worst observed
   inter-arrival", does not report a stall that spans it.
3. `verify_tag_0500.py:45`: every file whose magic is not `d4 c3 b2 a1` is read as
   big-endian, the little-endian nanosecond magic `4d 3c b2 a1` included; nothing of
   such a capture is scanned, and a corpus with a good capture next to it passes
   although the gate "exits non-zero on the first capture holding a counterexample".
   `GateIsRight` is what holds of all other files.
4. `observe.py:166`: "GRANT deliberately scores nothing ... so it identifies the
   exchange, not the speaker" (`observe.py:163`), but the broadcast address and the
   width are looked at before the kind, and a grant scores by them. A port of which
   only grants were seen reads "master" or "box" (`GrantScoresNothing` is violated after
   one cold connect). `RoleIsTheSpeakers` is stated so that it does not depend on which
   of the two is meant: it counts the frames that are no grants.

Met while modelling; the properties state the condition under which they hold:

- `analyzer.py:31`, "It cannot drop a distinct frame", fails when a whole turn of
  the counter is lost between two frames of equal content. `WithinATurn` is the
  condition of `NothingVanishes`.
- `cli.py:115`: a capture that holds one source both tagged and untagged, as one of a
  trunk's two ends may, ends in a `TypeError` at the sort of the groups, before any
  stream is reported. `StatusTellsUnresolved` has it as the second reason for status 1.
- `reac_frame_anatomy.py:27` dies with `struct.error` on a file of fewer than four bytes;
  and it shows a packet whose `88 19` is behind any tag, or two of them, which the common
  reader, that knows the 802.1Q tag alone, skips. `AnatomySeesTheReaders` says both.
- `parser.py:40` looks for `88 19` from the first byte on. Every frame of a source, or of
  a VLAN and priority, that holds these two bytes gets one and the same counter, and the
  diff of two such captures says clean: `ParsedAsWritten` does not claim that counter, and
  `LossIsReported` and `CleanIsClean` leave such a stream out (`StreamAlone`).
- `pcap.py:91`: a time becomes a double, which does not hold the nanoseconds of a
  nanosecond capture; `ReadIsWhatCameIn` asks for the time to half a tick of a double.
- `ctrl.py:136`: a box's commit report is classified as a probe, which scores for a
  master; a box first seen committing is tabled as one until its other frames
  outnumber the reports. `RoleIsTheSpeakers` says when the role is right.
- `capture-dualpoint.sh`: frames captured at one end only because the captures
  start and stop apart count as lost; the converse, that a loss is reported, still
  holds. A text cut short gives its last frame another counter, or none; another
  stream's frame with the counter of a lost one hides the loss. `LossIsReported`
  and `CleanIsClean` leave out what is cut or foreign, `ParsedAsWritten` does not.
- `cli.py:146`: the warning that a forced nominal "disagrees with the stream" comes
  only beyond `RATE_TOLERANCE`. 44.1 and 48 kHz are 8.8 % apart: forcing one on a
  stream of the other goes without it, and every ratio is scaled by the mismatch.
  `RateIsTheSources` says that the warning comes exactly beyond the tolerance, and
  the same of the rate inferred for a source between the two.
- `cli.py` on a stream whose last captured frame is a whole turn after the one before
  drops it as a twin, and calls what is left clean: hence `WithinATurn` in
  `TwinsCorrect` and `CleanCorrect`.
- `observe.py:168`: a box is told by a width below 40. For a box of 40 channels, or of a
  width that is not even, `RoleIsTheSpeakers` would be false: it scores nothing while
  it connects. `observe.py:67` says there is none ("everything even below it is a box
  return"), and `RoleAssumption` says so too.
- `diff.py:38`: a capture longer than a turn of the counter hides losses
  (`UnderATurn`).
- `capture-headamp.py`: files are named after step number and kind of control. A
  campaign run again in the same directory and aborted, at a prompt or within a
  capture, leaves the older manifest over newer captures, and a tcpdump that does not start leaves the older file to
  be counted and analysed as this step's. No property tells the campaigns apart, as
  nothing in the directory does: `NamesItsControl` is asked of segments whose frames
  are at most one step behind, `PrevailingRules` of what prevails in them.
- `build_capture_index.py:189`: the constant for a byte-swapped nanosecond magic
  (`0x4DC3B2A1`) is not the one such files have (`0x4D3CB2A1`); their durations and
  landmarks are then not in their unit. `IndexAgreesWithReader` leaves out the times
  of these files. A capped scan says it is one, and counts one frame past the cap.
- `reac_io_diff.py:23` reads every file as little-endian and looks at no ethertype: a
  packet of the source and size that is not REAC is among the frames, one cut short is
  not. `AnatomySeesTheReaders` compares its REAC frames only.
- `verify_tag_0500.py:54` takes every fraction as microseconds; only the bursts it
  prints depend on it.
- `history_drop.py`: after the list is edited it is `ops-confirm` that protects what
  is dropped. The model's operator runs the commands from there again, in the order of the
  docstring; one who ran only `list` again would print a path nobody confirmed. After the rewrite
  the base commits of the drop list are reachable from the backup tag only.

## 7. What is not modelled

Left out of the modelled parts: the cells of the observer's table (kinds, widths,
destinations, layout), an interrupt within the rendering of a table or in the
`finally` block, socket opening and its errors; checksum and head-amp entries of a
control record; the cross-mix check and the mean inter-arrival of `cli.py`, which
decide nothing else; argument parsing; the least-squares fit of the gain law (real
arithmetic), the channel-selector line, `format_report` and the `--pcap` check of
`headamp.py`; rate inference from gaps, file names, the question map and the
Markdown of the index; histograms, cadences and the matching of audio in the anatomy
and I/O diff scripts; bursts and names the 0500 gate prints.

Not modelled as parts:

- *characterizer*: the reader, dedup and report composed, each modelled, with sample
  arithmetic in between. It measures all sources of a capture as one stream, so
  interleaved counters of two sources read as losses.
- *simulator*: a test helper; `StreamAnalyzer` ranges over all it can make.
- *capture and measurement shell scripts* other than the dual-point one: straight
  sequences of host configuration, I/O only.
- *dissector*: stateless decoding for display; read as the description of the wire
  in `RoleEvidence`.
- *fixture builder*: writes one fixed file.

What could come next: the scores of `RoleEvidence` carried in the rows of `Observe`,
so that one model is the whole of `Stream.feed`; the characterizer as a composition
of `PcapFile`, `MirrorDedup` and `StreamReport`.
