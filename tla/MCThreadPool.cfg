CONSTANTS
  Main = main
  Workers = {w1, w2, w3}
  Bytecode = {f1, f2, f3}
  Native = {n1}
  GroupLoads = {0, 1}
  MAX_CONCURRENT_THREADS = 3
  MIN_THREADS_FOR_FILLED_EVENT_QUEUE = 2
  MIN_EVENT_QUEUE_SIZE_BEFORE_THREAD_LAUNCH = 1
  MAX_THREADS_FOR_QUEUED_FUNCTIONS = 4
  NoFunction = null
SPECIFICATION FairSpec
INVARIANTS
  NothingLost
PROPERTIES
  AsyncSpec
  LaunchedRuns
  MainEnds
CHECK_DEADLOCK FALSE
