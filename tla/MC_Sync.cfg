\* Two clients make two calls each, of every kind, with two handles, over a channel of
\* capacity 1; the connection reconnects once and may fail at any point.
CONSTANTS
  c1 = c1
  c2 = c2
  h1 = h1
  h2 = h2
  h3 = h3
  Clients <- TwoClients
  Handles <- TwoHandles
  Kinds = {"RunFn", "SendCommand", "WaitConnected", "Disconnect", "DownloadFile", "UploadFile"}
  ChanCap = 1
  MaxCalls = 2
  MaxReconnects = 1

SPECIFICATION Spec
\* The loop parks (Poll::Pending) when no message and no item is ready.
CHECK_DEADLOCK FALSE
INVARIANT TypeOK
INVARIANT DisconnectAnsweredOk
PROPERTY EveryRequestAnswered
