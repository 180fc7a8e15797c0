\* One address registers four ids, or one id in two tasks that look up its record,
\* or three addresses attempt with room for two, or a log of four punch hole requests.
CONSTANTS
  ip1 = ip1  ip2 = ip2  ip3 = ip3  i1 = i1  t1 = t1
  Ip = {ip1, ip2, ip3}
  Id = {i1, i2, i3, i4}
  Task = {t1, t2}
  NoId = NoId  NoEntry = NoEntry  NoRecord = NoRecord
  BlockDur = 1  MaxPerBurst = 1
  DayDur = 2  MaxIds = 0
  IdDur = 1  MaxPerId = 1
  Window = 2  Limit = 2  Cap = 2
  PunchTail = 2  DedupeDur = 2
  Start = 3  MaxTime = 6
SPECIFICATION Spec
CONSTRAINT OneLimiter
SYMMETRY Symmetry
INVARIANTS TypeOK BurstBounded IdsBounded PerIdBounded AttemptsBounded RefusedForCause PunchLogDedupes
CHECK_DEADLOCK FALSE
