SPECIFICATION FairSpec
CONSTANTS
  Hosts = {a, b, c}
  Ports = {p}
  Sessions = {s1}
  Workers = {w1}
  Resolvers = {r1, r2}
  JobCount = 2
  PendSlots = 2
  QueueMax = 1
  MaxFrames = 3
  MaxRuns = 1
  NoWorker = NoWorker
  NoFrame = NoFrame
  NoReq = NoReq
INVARIANTS InflightTracked DoneIsSignalled PendHasJob
PROPERTIES HeldIsReleased
CHECK_DEADLOCK FALSE
