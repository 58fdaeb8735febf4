SPECIFICATION FairSpec
CONSTANTS
  Client = client
  Target = target
  BufferSize = 2
  Window = 2
  Loads <- SmallLoads
INVARIANTS Accounted NoSpin
PROPERTIES Relays Reaped Relayed
CHECK_DEADLOCK FALSE
