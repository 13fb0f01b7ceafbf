SPECIFICATION FairSpec
CONSTANTS
  RingSize = 32
  Levels <- MCLevels
  Waits <- MCWaits
  Target = 16
  Deadband = 2
  Clamp = 4
  IDiv = 8
  IOut = 2
  PDiv = 2
  FDiv = 4
  DtMax = 12
  MaxLate = 2
INVARIANTS
  TypeOK
  RailMeansError
PROPERTIES
  HoldsOnRail
  FilterNoOvershoot
  Corrects
