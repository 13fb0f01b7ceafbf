SPECIFICATION Spec
CONSTANTS
  Apbs = {b1, b2, b3}
  None = None
  LogLen = 4
  Modulus = 8
  MaxEnqueues = 10
  MaxFaults = 2
SYMMETRY ApbSymmetry
INVARIANTS
  TypeOK
  CleanRun
  EntriesAccurate
  LossExact
  DupIsOvertaken
CHECK_DEADLOCK FALSE
