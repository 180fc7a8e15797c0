\* Two connections register or look up one id; two of everything they send.
CONSTANTS
  Task = {task1, task2}
  Uuid = {uuid1, uuid2}
  Pk = {pk1, pk2}
  Ip = {ip1, lo}
  Loopback = lo
  Ref = {ref1, ref2}
  NoRef = NoRef
  NoVal = NoVal
  MaxFaults = 1
SPECIFICATION Spec
SYMMETRY Symmetry
CONSTRAINT OneTrouble
INVARIANTS GuidHasRow MemoryIsStored AckedUuidOwnsId AddrIsRegisteredIp
CHECK_DEADLOCK FALSE
