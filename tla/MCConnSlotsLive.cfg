SPECIFICATION FairSpec
CONSTANTS
  Slots = {s1}
  Handoffs = {h1, h2}
  Workers = {w1}
  MaxConns = 2
  MaxEvents = 2
  MaxJobs = 2
  JavaLeaks = FALSE
  NoSlot = NoSlot
  NoThread = NoThread
PROPERTIES ClosedIsReleased QuitReturns
CHECK_DEADLOCK FALSE
