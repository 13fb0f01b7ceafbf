SPECIFICATION FairSpec
CONSTANTS
  SIZE = 9
  Word = 1024
  LineLen <- MCLineLen
  Strikes = 2
  MaxPushes = 3
INVARIANTS
  TypeOK
  BootSound
  PunctualShown
  NoWakeUpLost
PROPERTIES
  HeartbeatJudged
  MonitorCatchesUp
CHECK_DEADLOCK FALSE
