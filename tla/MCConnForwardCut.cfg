SPECIFICATION Spec
CONSTANTS
  Client = client
  Target = target
  BufferSize = 2
  Window = 2
  Loads <- SmallLoads
INVARIANTS CutOnlyIfStalled
CHECK_DEADLOCK FALSE
