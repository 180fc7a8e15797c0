CONSTANTS
  c1 = c1  c2 = c2  here = here  far = far  near = near  home = home  abroad = abroad
  alice = alice  bob = bob  p1 = p1  p2 = p2
  Conn = {c1, c2}
  None = None
  Addr = {here, near, far}
  AddrOf <- OneAddr
  IpOf <- MCIpOf
  TokenOf <- TwoAccounts
  Peer = {p1, p2}
  PeerAddr <- MCPeerAddr
  Masks <- AnyMask
  Relay = {relayHere, relayThere}
  OnHost = {relayHere}
  LocalIp = LocalIp
  Default = Default
  Ttl = 1
  MaxTime = 1
  MaxAsks = 2
SPECIFICATION Spec
SYMMETRY Symmetry
INVARIANTS TypeOK TicketOfAsker SameRelay RelayReachable AnswerIsUnderWay
CHECK_DEADLOCK FALSE
