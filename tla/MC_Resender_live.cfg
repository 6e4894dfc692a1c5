CONSTANTS
  Types <- WrapTypes
  MaxPackets <- LiveMaxPackets
  SeqMod = 4
  MaxOutstanding = 1
  Unit = 2
  InitSrtt = 1
  InitSrttDev = 0
  ConnectingTimeout = 1
  NormalTimeout = 2
  DisconnectTimeout = 1
  InitWMax = 1
  AckWithinCycle = TRUE
  NetCap = 1
  FirstId = 0

SPECIFICATION Spec
 
PROPERTY DisconnectEnds

