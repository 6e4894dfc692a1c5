CONSTANTS
  a = a
  b = b
  Talkers <- TwoTalkers
  IdMod = 8
  StartId = 0
  FrameSizes = {2}
  MaxStream = 1
  OutLen = 2
  MaxBufferPackets = 2
  MaxBufferSize = 2
  MaxBufferTime = 4
  MaxPacketLosses = 3
  LastBufferSizeCount = 2
  TickMod = 8
  SpeedChangeSteps = 2
  Duplicates = FALSE
  NetCap = 2

SPECIFICATION Spec
PROPERTY TalkersEventuallyRemoved
