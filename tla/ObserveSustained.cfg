\* Sustained traffic: frames come in as fast as they are drained.
SPECIFICATION SustainedSpec
CONSTANTS
  master = master
  box = box
  plain = plain
  tagged = tagged
  Streams <- MCStreams
  Socks <- MCSocks
  SockOf <- MCSockOf
  TaggedSocks = {tagged}
  NOISE = NOISE
  NONE = NONE
  RcvBuf = 1
  Deadlines = {1}
  Interval = 1
  Sustained = TRUE
  MaxArrivals = 0
  MaxTime = 1
  CountCap = 1
PROPERTIES
  DeadlineHonoured
\* main returns.
CHECK_DEADLOCK FALSE
