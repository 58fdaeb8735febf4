SPECIFICATION FairSpec
CONSTANTS
  r1 = r1
  r2 = r2
  a1 = a1
  a2 = a2
  Requests = {r1, r2}
  Addrs = {a1, a2}
  Answers <- SmallAnswers
  Udp = {r2}
  MaxFd = 7
  RingSize = 2
  Threshold = 2
  Failing = {r2}
  NoSocket = NoSocket
  NoRequest = NoRequest
INVARIANTS OwnSocket StaysArmed NoOrphan
PROPERTIES Drains
CHECK_DEADLOCK FALSE
