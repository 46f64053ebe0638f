CONSTANTS
  Threads = {main, t1}
  Initial = {main}
  Main = main
  MaxEpoch = 3
SPECIFICATION FairSpec
INVARIANTS
  EpochLag
  StaleHasFlusher
  FlushOnce
PROPERTIES
  EpochsClose
CHECK_DEADLOCK FALSE
