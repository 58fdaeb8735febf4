SPECIFICATION FairSpec
CONSTANTS
  Nets = {n1}
  NoNet = NoNet
  MaxCo = 3
  MaxTaps = 1
  MaxFaults = 2
  Retries = 1
INVARIANTS  FlagsReleased RunningIsWatched
PROPERTIES StopCompletes
CHECK_DEADLOCK FALSE
