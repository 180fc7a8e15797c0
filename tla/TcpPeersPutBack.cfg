\* Two WebSocket clients behind one IP, one key for both.
CONSTANTS
  tcp1 = tcp1  ws1 = ws1  ws2 = ws2
  tcpAddr = tcpAddr  wsAddr = wsAddr
  Conn = {ws1, ws2}
  Addr = {wsAddr}
  AddrOf <- Shared
  NoConn = NoConn
  Loop = Loop
SPECIFICATION Spec
INVARIANTS PutBackUnlessForgotten
CHECK_DEADLOCK FALSE
