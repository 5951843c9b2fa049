------------------------------ MODULE StreamReport ------------------------------
(***************************************************************************)
(* The transport report of one stream: the three counts analyze_stream     *)
(* (reac/analyzer.py) takes over the unwrapped counters, and the truth     *)
(* they are meant to tell about the captured frames.                       *)
(***************************************************************************)
EXTENDS SeqCounter, Sequences, FiniteSets, FiniteSetsExt

RangeOf(s) == {s[i] : i \in 1..Len(s)}
Backsteps(s) == {i \in 2..Len(s) : s[i] < s[i - 1]}

NoReport == [lost |-> 0, reordered |-> 0, duplicated |-> 0]

\* Mutant: the span of the distinct numbers without its last.
ReportOfShortSpan(s) ==
  [lost       |-> Max(RangeOf(s)) - Min(RangeOf(s)) - Cardinality(RangeOf(s)),
   reordered  |-> Cardinality(Backsteps(s)),
   duplicated |-> Len(s) - Cardinality(RangeOf(s))]

\* The three counts analyze_stream takes over the unwrapped list.
ReportOf(s) ==
  LET distinct == RangeOf(s)
  IN  [lost       |-> (Max(distinct) - Min(distinct) + 1) - Cardinality(distinct),
       reordered  |-> Cardinality(Backsteps(s)),
       duplicated |-> Len(s) - Cardinality(distinct)]

\* The counters unwrapped: the running sum of the signed deltas.
Unwrap(seqs) ==
  LET ext[i \in 1..Len(seqs)] ==
        IF i = 1 THEN seqs[1] ELSE ext[i - 1] + SignedDelta(seqs[i], seqs[i - 1])
  IN  ext

\* analyze_stream as a whole, for the callers of reac/cli.py.
AnalyzeStream(seqs) == IF seqs = <<>> THEN NoReport ELSE ReportOf(Unwrap(seqs))

-------------------------------------------------------------------------------
(* What really happened to a captured sequence s of true frame numbers.    *)

\* Numbers between the lowest and the highest captured that never arrived.
Missing(s) == (Min(RangeOf(s)) .. Max(RangeOf(s))) \ RangeOf(s)

\* Arrivals of a number that had already arrived.
Repeats(s) == {i \in 1..Len(s) : \E j \in 1..(i - 1) : s[j] = s[i]}

Truth(s) ==
  IF s = <<>>
    THEN NoReport
    ELSE [lost       |-> Cardinality(Missing(s)),
          reordered  |-> Cardinality(Backsteps(s)),
          duplicated |-> Cardinality(Repeats(s))]
=================================================================================
