SPECIFICATION Spec
CONSTANTS
  c1 = c1
  c2 = c2
  Client = {c1, c2}
  Null = Null
  Fd = {4, 5}
  Room = 1
  To <- MCTo
  NewAddr <- MCNewAddr
  NewStatus <- MCNewStatus
  McastList <- MCMcastList
  Overlap = TRUE
  ShutdownEnabled = TRUE
  MaxSend <- MCMaxSend
INVARIANT KeptConnection
CHECK_DEADLOCK FALSE
