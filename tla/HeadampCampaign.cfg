SPECIFICATION Spec
CONSTANTS
  Channels = {1, 2}
  Keys = {heartbeat, announce}
  NoKey = NoKey
  NotCapturing = NotCapturing
  WindowSize = 2
  RingWrap = 254
  Windows <- MCWindows
  OtherBlocks <- MCOtherBlocks
  Plans <- MCPlans
  MaxFrames <- MCMaxFrames
  MaxRuns = 2
  Alone <- MCAlone
INVARIANTS
  TypeOK
  ManifestIsAWholePlan
  NamesItsControl
  PrevailingRules
  LawIsTheConsoles
CHECK_DEADLOCK FALSE
