SPECIFICATION Spec
CONSTANTS
  Hosts = {a}
  Ports = {p, q}
  Sessions = {s1}
  Workers = {w1}
  Resolvers = {r1}
  JobCount = 1
  PendSlots = 2
  QueueMax = 1
  MaxFrames = 2
  MaxRuns = 0
  NoWorker = NoWorker
  NoFrame = NoFrame
  NoReq = NoReq
CHECK_DEADLOCK FALSE
INVARIANTS RightPort
