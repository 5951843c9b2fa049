------------------------------ MODULE CliVerdict ------------------------------
(***************************************************************************)
(* The command line of reac/cli.py: a capture of several streams, and the  *)
(* verdict main prints for each and the status it exits with.              *)
(*                                                                         *)
(* Time is in ticks.  Every source sends its frames one period apart; the  *)
(* path loses frames and delays them; a both-directions mirror adds a twin *)
(* of each before the stream's next frame.  The capture is tcpdump text,   *)
(* whose timestamps are the time of the day.                               *)
(***************************************************************************)
EXTENDS StreamReport, SequencesExt, Picking

CONSTANTS
  Streams,         \* the keys of groups, [src, vlan]; vlan is None off an untagged frame
  NONE,            \* Python's None
  DAY,             \* ticks in a day
  StartTime,       \* time of the day the capture starts
  Taps             \* the captures that may be taken: rates, the frame
                   \* intervals of REAC's sample rates; sent, those sources
                   \* may send at, off nominal ones too; forced, what --rate
                   \* or any --fps may be; the streams that pass; delay, the most
                   \* a frame is late; gap, the most numbers it is ahead of
                   \* the one before; mirrored, off both directions of a port;
                   \* and the bounds of the capture: time, its length, and
                   \* frames, the most it holds

ASSUME CliAssumption ==
  /\ NONE \notin Nat
  /\ DAY \in Nat \ {0} /\ StartTime \in 0..DAY - 1
  /\ IsFiniteSet(Streams)
  /\ \A t \in Taps :
       /\ t.rates # {} /\ IsFiniteSet(t.rates)
       /\ t.rates \subseteq Nat \ {0} /\ t.sent \subseteq Nat \ {0}
       /\ t.forced \subseteq (Nat \ {0}) \cup {NONE}
       /\ t.streams \subseteq Streams /\ t.mirrored \in BOOLEAN
       /\ {t.delay, t.gap, t.time, t.frames} \subseteq Nat

VARIABLES
  tap,             \* where the capture is taken
  period,          \* per stream, the interval its source sends at
  forced,          \* the period --rate or --fps gives, or NONE
  now,             \* ticks since the capture started
  log,             \* the capture
  phase,           \* capturing -> analyzing -> exited
  verdicts,        \* per stream analyzed, what main printed
  unresolved,      \* streams whose rate was not established
  status           \* exit status, NONE until then

vars == <<tap, period, forced, now, log, phase, verdicts, unresolved, status>>

-------------------------------------------------------------------------------
(* The pipeline of main, as functions of one stream's frames.              *)

\* groups[(src, vlan)]
Group(s) == Picked(log, {i \in 1..Len(log) : log[i].stream = s})

\* Mutant: the twins are measured with the frames.
KeepTwins(fs) == fs

\* dedupe_mirror_twins, for frames that all have their bytes.
Deduped(fs) == Picked(fs, {i \in 1..Len(fs) : i > 1 => fs[i].seq # fs[i - 1].seq})

Deltas(fs) == [i \in 1..Len(fs) - 1 |-> fs[i + 1].ts - fs[i].ts]

\* Mutant: the rate is taken from the span, not from the median.
TwiceMean(fs) ==
  IF Len(fs) < 2 THEN 0
  ELSE Max({0, (2 * (fs[Len(fs)].ts - fs[1].ts)) \div (Len(fs) - 1)})

\* The k-th smallest of the values of d, which is what sorting puts in place k.
Ranked(d, k) ==
  CHOOSE x \in RangeOf(d) :
    /\ Cardinality({i \in 1..Len(d) : d[i] < x}) < k
    /\ Cardinality({i \in 1..Len(d) : d[i] <= x}) >= k

\* Twice the median inter-arrival, 0 if not measurable: the double of the
\* period modal_pps is the inverse of.
TwiceModal(fs) ==
  LET d == Deltas(fs)
  IN  IF d = <<>> THEN 0
      ELSE Max({0, Ranked(d, (Len(d) + 1) \div 2) + Ranked(d, Len(d) \div 2 + 1)})

Distance(a, b) == IF a < b THEN b - a ELSE a - b

\* |1/modal - 1/p| <= 0.10 / p
WithinTolerance(modal2, p) == 10 * Distance(2 * p, modal2) <= modal2

\* rate_from_pps: the rate nearest in packets per second, if it is near.
RateOf(modal2) ==
  LET nearest == CHOOSE p \in tap.rates : \A q \in tap.rates :
                   Distance(2 * p, modal2) * q <= Distance(2 * q, modal2) * p
  IN  IF modal2 > 0 /\ WithinTolerance(modal2, nearest) THEN nearest ELSE NONE

resolve_nominal(fs) == IF forced # NONE THEN forced ELSE RateOf(TwiceModal(fs))

\* jitter_stats: the worst inter-arrival.
MaxGapOf(fs) == IF Len(fs) < 2 THEN 0 ELSE Max(RangeOf(Deltas(fs)))

\* Mutant: a stream is called clean whatever its gaps are.
LineLossOnly(lost, nominal, fs) ==
  IF nominal = NONE \/ Len(fs) < 2 THEN "none" ELSE IF lost = 0 THEN "clean" ELSE "burst"

\* The verdict line main prints.
Line(lost, nominal, fs) ==
  IF nominal = NONE \/ Len(fs) < 2 THEN "none"
  ELSE IF lost = 0 /\ MaxGapOf(fs) < 3 * nominal THEN "clean"
  ELSE IF MaxGapOf(fs) >= 3 * nominal THEN "burst" ELSE "none"

VerdictOf(raw) ==
  LET fs == Deduped(raw)
      r == AnalyzeStream([i \in 1..Len(fs) |-> fs[i].seq])
      nominal == resolve_nominal(fs)
      modal2 == TwiceModal(fs)
  IN  [twins    |-> Len(raw) - Len(fs),
       report   |-> r,
       nominal  |-> nominal,
       warned   |-> forced # NONE /\ modal2 > 0 /\ ~WithinTolerance(modal2, nominal),
       max_gap  |-> MaxGapOf(fs),
       line     |-> Line(r.lost, nominal, fs)]

-------------------------------------------------------------------------------
Init ==
  /\ tap \in Taps
  /\ period \in [tap.streams -> tap.sent]
  /\ forced \in tap.forced
  /\ now = 0
  /\ log = <<>>
  /\ phase = "capturing"
  /\ verdicts = [s \in {} |-> NONE]
  /\ unresolved = 0
  /\ status = NONE

Wait ==
  /\ phase = "capturing" /\ now < tap.time
  /\ now' = now + 1
  /\ UNCHANGED <<tap, period, forced, log, phase, verdicts, unresolved, status>>

Captured(s, n) ==
  /\ Len(log) < tap.frames
  /\ log' = Append(log, [stream |-> s, num |-> n, seq |-> Seq16(n),
                         at |-> now, ts |-> (StartTime + now) % DAY])
  /\ UNCHANGED <<tap, period, forced, now, phase, verdicts, unresolved, status>>

\* Frame n of s, sent at n periods, comes in; one that never does is lost.
Arrive(s, n) ==
  /\ phase = "capturing"
  /\ now - n * period[s] \in 0..tap.delay
  /\ LET g == Group(s)
     IN  /\ \A i \in 1..Len(g) : g[i].num # n
         /\ g # <<>> => n - Last(g).num <= tap.gap
  /\ Captured(s, n)

\* The mirror's other copy of the stream's last frame comes in.
Twin(s) ==
  /\ phase = "capturing" /\ tap.mirrored
  /\ LET g == Group(s)
     IN  /\ g # <<>> /\ Cardinality({i \in 1..Len(g) : g[i].num = Last(g).num}) = 1
         /\ Captured(s, Last(g).num)

\* Sorting the keys compares the vlans of one source, and Python orders no
\* vlan against None.
Sortable ==
  \A i, j \in 1..Len(log) :
    LET s == log[i].stream
        t == log[j].stream
    IN  s.src = t.src => (s.vlan = NONE <=> t.vlan = NONE)

\* main reads the file and sorts the groups: with no frame there is nothing to
\* say, and with a source both tagged and untagged it ends in a TypeError.
Read ==
  /\ phase = "capturing"
  /\ IF log = <<>> \/ ~Sortable
       THEN phase' = "exited" /\ status' = 1
       ELSE phase' = "analyzing" /\ UNCHANGED status
  /\ UNCHANGED <<tap, period, forced, now, log, verdicts, unresolved>>

\* Mutant: a stream of a single frame is not counted as unresolved.
AnalyzeGroupPairs(s) ==
  /\ phase = "analyzing" /\ s \notin DOMAIN verdicts /\ Group(s) # <<>>
  /\ LET v == VerdictOf(Group(s))
     IN  /\ verdicts' = [t \in DOMAIN verdicts \cup {s} |-> IF t = s THEN v ELSE verdicts[t]]
         /\ unresolved' = unresolved + (IF v.nominal = NONE /\ Len(Group(s)) > 1 THEN 1 ELSE 0)
  /\ UNCHANGED <<tap, period, forced, now, log, phase, status>>

\* One turn of main's loop over the groups, in whatever order.
AnalyzeGroup(s) ==
  /\ phase = "analyzing" /\ s \notin DOMAIN verdicts /\ Group(s) # <<>>
  /\ LET v == VerdictOf(Group(s))
     IN  /\ verdicts' = [t \in DOMAIN verdicts \cup {s} |-> IF t = s THEN v ELSE verdicts[t]]
         /\ unresolved' = unresolved + (IF v.nominal = NONE THEN 1 ELSE 0)
  /\ UNCHANGED <<tap, period, forced, now, log, phase, status>>

Exit ==
  /\ phase = "analyzing" /\ \A s \in tap.streams : Group(s) # <<>> => s \in DOMAIN verdicts
  /\ phase' = "exited"
  /\ status' = IF unresolved > 0 THEN 3 ELSE 0
  /\ UNCHANGED <<tap, period, forced, now, log, verdicts, unresolved>>

Next ==
  \/ Wait
  \/ \E s \in tap.streams, n \in 0..tap.time : Arrive(s, n)
  \/ \E s \in tap.streams : Twin(s) \/ AnalyzeGroup(s)
  \/ Read
  \/ Exit

Spec == Init /\ [][Next]_vars

-------------------------------------------------------------------------------
(* What really happened to stream s.                                       *)

Nums(s) == LET g == Group(s) IN [i \in 1..Len(g) |-> g[i].num]
Firsts(s) ==
  LET g == Group(s)
  IN  Picked(g, {i \in 1..Len(g) : i > 1 => g[i].num # g[i - 1].num})
TrueGaps(s) == LET g == Firsts(s) IN [i \in 1..Len(g) - 1 |-> g[i + 1].at - g[i].at]

TypeOK ==
  /\ tap \in Taps /\ period \in [tap.streams -> tap.sent] /\ forced \in tap.forced
  /\ now \in 0..tap.time /\ Len(log) <= tap.frames
  /\ phase \in {"capturing", "analyzing", "exited"}
  /\ DOMAIN verdicts \subseteq tap.streams
  /\ \A s \in DOMAIN verdicts :
       /\ verdicts[s].report \in [lost : Nat, reordered : Nat, duplicated : Nat]
       /\ verdicts[s].line \in {"clean", "burst", "none"}
  /\ unresolved \in 0..Cardinality(Streams)
  /\ status \in {NONE, 0, 1, 3}

\* Half a turn of the counter takes longer than any gap that passes for clean:
\* 32768 frames take 4 s and more, three frame intervals less than 1 ms.
HalfTurnIsLong ==
  \A p \in tap.sent, q \in tap.rates \cup (tap.forced \ {NONE}) :
    HALF * p - tap.delay >= 3 * q

\* A stream called clean lost nothing between its lowest and highest frame:
\* a loss of half the counter or more, which the counts can miss, shows as a
\* gap of the timestamps instead (main, analyze_stream, jitter_stats).
CleanMeansNothingLost ==
  HalfTurnIsLong => \A s \in DOMAIN verdicts : verdicts[s].line = "clean" => Missing(Nums(s)) = {}

\* The rates within a tenth of a source's own, RATE_TOLERANCE: those a stream of
\* that source may be taken for.
Near(s, q) == 10 * Distance(period[s], q) <= period[s]

\* As long as more than half of a stream's inter-arrivals keep its period, the
\* rate inferred is the source's own if that is one of REAC's, else one near it
\* or none, and a forced rate is warned about exactly if it is not near the
\* source's: no loss, stall or mirror twin turns one rate into another, or a
\* --rate that fits into one that does not (modal_pps, main).
RateIsTheSources ==
  \A s \in DOMAIN verdicts :
    LET gaps == TrueGaps(s)
        steady == {i \in 1..Len(gaps) : gaps[i] = period[s]}
    IN  2 * Cardinality(steady) > Len(gaps) =>
          IF forced # NONE
            THEN verdicts[s].warned <=> ~Near(s, forced)
            ELSE /\ verdicts[s].nominal # NONE => Near(s, verdicts[s].nominal)
                 /\ period[s] \in tap.rates => verdicts[s].nominal = period[s]

\* Only the mirror's copies are dropped before anything is counted (main).
TwinsAreTheMirrors ==
  \A s \in DOMAIN verdicts : verdicts[s].twins = Len(Group(s)) - Len(Firsts(s))

\* The status is 1 exactly when nothing is reported, for want of a frame or
\* because a source came both tagged and untagged; else each stream captured
\* has its verdict, and the status is 3 exactly when some stream got no rate,
\* and no ratio is judged for that one (main: "refuse to report a jitter ratio").
StatusTellsUnresolved ==
  phase = "exited" =>
    /\ status = 1 <=> log = <<>> \/ ~Sortable
    /\ IF status = 1 THEN DOMAIN verdicts = {}
       ELSE \A s \in tap.streams : Group(s) # <<>> => s \in DOMAIN verdicts
    /\ status = 3 <=> \E s \in DOMAIN verdicts : verdicts[s].nominal = NONE
    /\ \A s \in DOMAIN verdicts : verdicts[s].nominal = NONE => verdicts[s].line = "none"

\* The gap reported is the worst inter-arrival of the stream's frames (the
\* docstring of jitter_stats: "the worst observed inter-arrival").
WorstGapIsReported ==
  \A s \in DOMAIN verdicts :
    TrueGaps(s) # <<>> => verdicts[s].max_gap = Max(RangeOf(TrueGaps(s)))
===============================================================================
