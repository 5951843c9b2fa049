\* A capture that runs past midnight.
SPECIFICATION Spec
CONSTANTS
  srcA = srcA
  srcB = srcB
  Streams <- MCStreams
  NONE = NONE
  HALF = 7
  DAY = 6
  StartTime = 3
  Taps <- OvernightOnly
INVARIANTS
  WorstGapIsReported
\* main returns.
CHECK_DEADLOCK FALSE
