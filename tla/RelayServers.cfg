\* Two checks at a time, two commands, three servers of which one is not down for ever.
CONSTANTS
  r1 = r1  r2 = r2  r3 = r3
  Server = {r1, r2, r3}
  Config <- Lists
  Up = {r2}
  Check = {k1, k2}
  MaxQueue = 2
  MaxCommands = 2
SPECIFICATION FairSpec
INVARIANTS CheckNeverEmpties StaleOnlyByLateReport
PROPERTIES StaleListEnds UpServerReturns
CHECK_DEADLOCK FALSE
