\* One account, deleted and created again, two concurrent wake-on-LAN requests.
CONSTANTS
  alice = alice
  password = password
  s1 = s1
  helper = helper
  sleeper = sleeper
  Name = {alice}
  Password = {password}
  Token = {s1, s2}
  Ticket = {}
  RelayId = {}
  Login = {l1}
  Issuer = {}
  Admin = {adm1}
  SessionTTL = 4
  TicketTTL = 1
  MaxTime = 2
  Device = {helper, sleeper}
  Report <- Reports
  Request = {r1, r2}
  NoDevice = NoDevice
  FreshTime = 0
  JobTime = 1
  MaxJobs = 2
SPECIFICATION SleeperSpec
CONSTRAINT OneRecreation
SYMMETRY Symmetry
INVARIANTS WolTypeOK LeasedOnce RowsOutliveAccountOnlyByRace JobHasHelper WakesStayInAccount
CHECK_DEADLOCK FALSE
