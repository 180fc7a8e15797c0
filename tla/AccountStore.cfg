\* A login, a ticket request and a command on one name; one ticket, two relay ids.
CONSTANTS
  Name = {alice}
  Password = {old, new}
  Token = {s1, s2}
  Ticket = {t1}
  RelayId = {relay1, relay2}
  Login = {l1}
  Issuer = {i1}
  Admin = {adm1}
  SessionTTL = 2
  TicketTTL = 1
  MaxTime = 2
SPECIFICATION Spec
SYMMETRY Symmetry
INVARIANTS OnlyRacesOutliveRevocation
PROPERTIES ImplementsRelayTickets
CHECK_DEADLOCK FALSE
