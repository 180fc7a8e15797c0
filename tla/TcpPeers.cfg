\* A TCP client with a key of its own, two WebSocket clients that share one.
CONSTANTS
  tcp1 = tcp1  ws1 = ws1  ws2 = ws2
  tcpAddr = tcpAddr  wsAddr = wsAddr
  Conn = {tcp1, ws1, ws2}
  Addr = {tcpAddr, wsAddr}
  AddrOf <- Mixed
  NoConn = NoConn
  Loop = Loop
SPECIFICATION Spec
SYMMETRY Symmetry
INVARIANTS NothingOutlivesConnections PlaceholderHasHolder SinkNotLost
PROPERTIES KeepsRegistered
CHECK_DEADLOCK FALSE
