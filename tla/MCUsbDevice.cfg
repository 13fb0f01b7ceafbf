SPECIFICATION DeviceFairSpec
CONSTANTS
  Values = {24}
  Nominal = 24
  MaxChanges = 3
  Levels <- MCLevels
  LogSize = 3
  MaxSetups = 3
INVARIANTS
  TypeOK
  DeviceTypeOK
  OutQueuedOnce
  BusyMeansQueued
  PatientHostServed
  PatientHostFeedback
  TraceTellsConfig
PROPERTIES
  GainFollowsHost
  BroughtUp
