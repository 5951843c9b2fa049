\* Mirrors that lag by less and by more than a frame period.
SPECIFICATION Spec
CONSTANTS
  master = master
  box = box
  silence = silence
  Sources <- MCSources
  Width <- MCWidth
  Audio = {silence}
  HALF = 2
  FirstFrame = 2
  MaxGap = 2
  Mirrors <- MCMirrors
  MaxSent = 3
  MaxCopies = 4
INVARIANTS
  TypeOK
  NoFrameVanishes
PROPERTIES
  GivesBackPlainCapture
\* The function returns.
CHECK_DEADLOCK FALSE
