\* Three resolved addresses; every step of an attempt may fail, the server
\* sends up to three commands and the connection may die after the handshake.
CONSTANTS
  NAddrs = 3
  MaxCmds = 3
  ServerLosses = TRUE

SPECIFICATION Spec
\* Connection::new ends when its future resolves (or waits forever).
CHECK_DEADLOCK FALSE
INVARIANT TypeOK
INVARIANT ConnectResultSound
