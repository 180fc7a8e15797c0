\* Two pairs of one host, by either address; an idle time of two periods of the timer.
CONSTANTS
  Stream = {s1, s2}
  Ip = {ip1}
  Off = Off
  IdleMax = 4
  Period = 2
  MaxLate = 3
SPECIFICATION Spec
CONSTRAINT OneGrowsOld
SYMMETRY Symmetry
INVARIANTS TimeoutOnlyIfQuiet ListsTakeEffect UsageOfStreams
PROPERTIES IdleEnds
CHECK_DEADLOCK FALSE
