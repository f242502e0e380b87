CONSTANTS
  BUFFER_SIZE = 4096
  c1 = c1
  c2 = c2
  d1 = d1
  NoConn = NoConn
  Host <- MCHost
  SaFlags <- MCSaFlags
  Thread = {1, 2}
  Conn = {c1, c2}
  Dgram = {d1}
  Msg <- MCMsg
  MaxSignals = 1
SPECIFICATION FairSpec
PROPERTY QuitStops
CHECK_DEADLOCK FALSE
