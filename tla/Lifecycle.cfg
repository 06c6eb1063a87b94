\* Either backend with one deviating setting; two plain requests and a WebSocket.
SPECIFICATION FairSpec
CONSTANTS
  Unset = Unset
  Garbage = Garbage
  Settings <- MCSettings
  Work = {w1, w2, w3}
  Sockets = {w3}
INVARIANTS
  ReadyToServe
  NothingLeftOpen
  Graceful
PROPERTY ProcessEnds
CHECK_DEADLOCK FALSE
