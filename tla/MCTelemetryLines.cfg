SPECIFICATION Spec
CONSTANTS
  SIZE = 9
  Word = 1024
  LineLen <- MCLineLen
  Strikes = 2
  MaxPushes = 3
INVARIANT
  PrintsWholeLines
CHECK_DEADLOCK FALSE
