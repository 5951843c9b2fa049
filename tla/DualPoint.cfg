\* Captures taken together and apart, whole and cut, late, repeated and foreign
\* frames; an address and a tag that hold an 88 19.
SPECIFICATION Spec
CONSTANTS
  HALF = 2
  FirstFrame = 2
  Setups <- MCSetups
  MaxSent = 4
  MaxForeign = 1
  MaxRepeated = 1
  HidingSources = {"other"}
  HidingVlans = {12}
INVARIANTS
  TypeOK
  ParsedAsWritten
  LossIsReported
  CleanIsClean
\* The captures end.
CHECK_DEADLOCK FALSE
