\* One stream, whose address may be the IPv4-mapped form of the listed one.
CONSTANTS
  Stream = {s1}
  Ip = {ip1}
  Off = Off
  IdleMax = 4
  Period = 2
  MaxLate = 3
SPECIFICATION Spec
PROPERTIES ListedHostsAreLimited
CHECK_DEADLOCK FALSE
