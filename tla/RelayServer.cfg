\* Two tickets for one uuid and three connections: the two ends of a relay and
\* a retry or a stranger, under fairness.
CONSTANTS
  Ticket = {t1, t2}
  RelayId = {uuid1}
  Conn = {c1, c2, c3}
  NoConn = NoConn
SPECIFICATION FairSpec
INVARIANTS OneStreamPerTicket AskedAtMostOnce PairedOnBothTickets
PROPERTIES PlaceLostOnlyByRaceOrReuse WaitingEnds
CHECK_DEADLOCK FALSE
