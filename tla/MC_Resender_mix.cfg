CONSTANTS
  Types <- MixTypes
  MaxPackets <- MixMaxPackets
  SeqMod = 8
  MaxOutstanding = 1
  Unit = 2
  InitSrtt = 1
  InitSrttDev = 0
  ConnectingTimeout = 1
  NormalTimeout = 1
  DisconnectTimeout = 1
  InitWMax = 3
  AckWithinCycle = TRUE
  NetCap = 1
  FirstId = 0

SPECIFICATION Spec
INVARIANT TypeOK
INVARIANT SendQueueWithinWindow
INVARIANT CursorsSplitQueue
