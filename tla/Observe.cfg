\* Frames, noise, time and the interrupt at every point of the loop, with and
\* without --seconds; for the liveness, the observer and the clock keep going.
SPECIFICATION FairSpec
CONSTANTS
  master = master
  box = box
  plain = plain
  tagged = tagged
  Streams <- MCStreams
  Socks <- MCSocks
  SockOf <- MCSockOf
  TaggedSocks = {tagged}
  NOISE = NOISE
  NONE = NONE
  RcvBuf = 2
  Deadlines = {3, NONE}
  Interval = 1
  Sustained = FALSE
  MaxArrivals = 3
  MaxTime = 4
  CountCap = 4
INVARIANTS
  TypeOK
  EveryFrameAccountedFor
  TotalIsSumOfRows
  WindowBoundedByArrivals
  StatusTellsWhatWasSeen
PROPERTIES
  DeadlineHonoured
  DueTableIsPrinted
  QueuesDrain
\* main returns.
CHECK_DEADLOCK FALSE
