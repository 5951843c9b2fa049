\* A lossy stream, two mirrored streams, one of a rate near another,
\* and a source tagged and not; forced rates.
SPECIFICATION Spec
CONSTANTS
  srcA = srcA
  srcB = srcB
  Streams <- MCStreams
  NONE = NONE
  HALF = 4
  DAY = 100
  StartTime = 0
  Taps <- LossyMirrorNear
INVARIANTS
  TypeOK
  CleanMeansNothingLost
  RateIsTheSources
  TwinsAreTheMirrors
  StatusTellsUnresolved
  WorstGapIsReported
\* main returns.
CHECK_DEADLOCK FALSE
