SPECIFICATION FairSpec
CONSTANTS
  Apbs = {b1, b2}
  None = None
  PacketFrames <- MCOneSize
  RingFrames = 7
  ApbFrames = 2
  QuietGap = 1
  QuietLong = 2
  ReserveMin = 1
  GateMin = 2
  ReviveMin = 1
  MaxTries = 2
  MqCap = 8
  MaxFaults = 1
PROPERTY
  StartRetried
