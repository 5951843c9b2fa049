\* Three commits on two branches, two entries on the drop list; a capture of
\* two packets, then one of a single packet.
SPECIFICATION ToolsSpec
CONSTANTS
  note = note
  agents = agents
  Paths <- MCPaths
  PatternPaths = {note}
  NamePaths = {agents}
  Versions = {"first"}
  MaxCommits = 3
  MaxEntries = 2
  MaxOpsEdits = 1
  USEC = 2
  FINE = 3
  TICKS = 4
  NONE = NONE
  Boxes = {"box"}
  Packets <- MCPackets
  Waits = {5}
  MaxPackets <- MCMaxPackets
  MaxRecords = {NONE, 1, 2}
INVARIANTS
  TypeOK
  RewriteLeavesNoInternal
  CheckOkMeansClean
  CorpusTypeOK
  ReadIsWhatCameIn
  IndexAgreesWithReader
  AnatomySeesTheReaders
  GateIsRight
PROPERTIES
  NothingDroppedUnconfirmed
\* The operator stops, and so do the captures.
CHECK_DEADLOCK FALSE
