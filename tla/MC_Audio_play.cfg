CONSTANTS
  a = a
  b = b
  Talkers <- OneTalker
  IdMod = 8
  StartId = 0
  FrameSizes = {2}
  MaxStream = 4
  OutLen = 2
  MaxBufferPackets = 3
  MaxBufferSize = 1
  MaxBufferTime = 4
  MaxPacketLosses = 3
  LastBufferSizeCount = 2
  TickMod = 16
  SpeedChangeSteps = 2
  Duplicates = FALSE
  NetCap = 3

SPECIFICATION Spec
INVARIANT TypeOK
INVARIANT QueueOrdered
INVARIANT BufferSamplesConsistent
INVARIANT NoPanic
