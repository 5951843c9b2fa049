SPECIFICATION CorpusSpec
CONSTANTS
  USEC = 2
  FINE = 3
  TICKS = 4
  NONE = NONE
  Boxes = {"box"}
  Packets <- MCPackets
  Waits = {5}
  MaxPackets <- MCMaxPackets
  MaxRecords = {NONE, 1}
INVARIANT
  NoCounterexamplePasses
CHECK_DEADLOCK FALSE
