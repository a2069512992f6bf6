SPECIFICATION FairSpec
CONSTANTS
  w1 = w1
  w2 = w2
  N = 3
  Big <- First
  Chunks = 2
  Blocked <- Second
  Workers <- TwoWorkers
  Buffer = 1
  Late = TRUE
  MaxFaults = 1
CHECK_DEADLOCK FALSE
INVARIANT UploadsAreWhole
INVARIANT UInv
PROPERTY NothingIsOverwritten
PROPERTY JobRests
