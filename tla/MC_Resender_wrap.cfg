CONSTANTS
  Types <- WrapTypes
  MaxPackets <- WrapMaxPackets
  SeqMod = 8
  MaxOutstanding = 2
  Unit = 2
  InitSrtt = 1
  InitSrttDev = 0
  ConnectingTimeout = 1
  NormalTimeout = 1
  DisconnectTimeout = 1
  InitWMax = 2
  AckWithinCycle = TRUE
  NetCap = 2
  FirstId = 6

SPECIFICATION Spec
PROPERTY RemovedOnlyIfReceived
PROPERTY AckEventSound
