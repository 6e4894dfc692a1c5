CONSTANTS
  a = a
  b = b
  Talkers <- OneTalker
  IdMod = 8
  StartId = 6
  FrameSizes = {2}
  MaxStream = 4
  OutLen = 2
  MaxBufferPackets = 3
  MaxBufferSize = 1
  MaxBufferTime = 4
  MaxPacketLosses = 3
  LastBufferSizeCount = 2
  TickMod = 4
  SpeedChangeSteps = 2
  Duplicates = FALSE
  NetCap = 3

SPECIFICATION Spec
CHECK_DEADLOCK FALSE
INVARIANT QueueOrdered
