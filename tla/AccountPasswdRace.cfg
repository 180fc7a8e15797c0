\* A login in flight across a passwd command.
CONSTANTS
  Name = {alice}
  Password = {old, new}
  Token = {s1}
  Ticket = {t1}
  RelayId = {relay1}
  Login = {l1}
  Issuer = {i1}
  Admin = {adm1}
  SessionTTL = 1
  TicketTTL = 1
  MaxTime = 0
SPECIFICATION Spec
INVARIANT PasswdRevokesSessions
CHECK_DEADLOCK FALSE
