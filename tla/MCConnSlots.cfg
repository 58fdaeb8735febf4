SPECIFICATION Spec
CONSTANTS
  Slots = {s1, s2}
  Handoffs = {h1, h2}
  Workers = {w1}
  MaxConns = 2
  MaxEvents = 1
  MaxJobs = 3
  JavaLeaks = TRUE
  NoSlot = NoSlot
  NoThread = NoThread
SYMMETRY Symmetry
INVARIANTS SingleOwner RefAccounting  CountExact StopProtocol EndsOnce
PROPERTIES FreshTenant
CHECK_DEADLOCK FALSE
