SPECIFICATION FairSpec
CONSTANTS
  Addrs = {lo, a1, a2}
  Permanent = {lo}
  MaxBind = 2
  QueueCap = 1
  PoolSize = 1
  Patient = TRUE
  MaxStarts = 2
  MaxUpdates = 1
  MaxFlaps = 1
  MaxClients = 2
INVARIANTS StoppedIsQuiet  NoRebind
PROPERTIES Heals StopCompletes
CHECK_DEADLOCK FALSE
