\* Path within half the counter: every report is the truth.
SPECIFICATION Spec
CONSTANTS
  HALF = 3
  FirstFrame = 4
  MaxGap = 2
  MaxLate = 3
  MaxEmitted = 9
  MaxCaptured = 6
INVARIANTS
  TypeOK
  ReportIsTruth
\* The function returns.
CHECK_DEADLOCK FALSE
