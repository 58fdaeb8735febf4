SPECIFICATION Spec
CONSTANTS
  Addrs = {lo, a1, a2}
  Permanent = {lo}
  MaxBind = 2
  QueueCap = 1
  PoolSize = 1
  Patient = FALSE
  MaxStarts = 2
  MaxUpdates = 1
  MaxFlaps = 1
  MaxClients = 2
CHECK_DEADLOCK FALSE
INVARIANTS StoppedIsQuiet
