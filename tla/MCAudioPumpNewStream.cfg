SPECIFICATION Spec
CONSTANTS
  Apbs = {b1, b2, b3}
  None = None
  PacketFrames <- MCPacketFrames
  RingFrames = 8
  ApbFrames = 2
  QuietGap = 1
  QuietLong = 2
  ReserveMin = 2
  GateMin = 2
  ReviveMin = 1
  MaxTries = 2
  MqCap = 8
  MaxFaults = 1
SYMMETRY ApbSymmetry
PROPERTY
  NewStreamKept
