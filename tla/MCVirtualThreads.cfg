SPECIFICATION FairSpec
CONSTANTS
    Main = Main
    g1 = g1
    g2 = g2
    f1 = f1
    f2 = f2
    f3 = f3
    f4 = f4
    Groups = {g1, g2}
    NoGroup = NoGroup
    Functions = {f1, f2, f3, f4}
    Kind <- KindOf
    OtherThreads <- OtherThreadCounts
    NoFunction = NoFunction
    MIN_THREADS = 3
    MAX_CONCURRENT_THREADS = 5
    MIN_VTHREADS = 1
    MAX_VTHREADS = 2
    PURE_GROUPS = 1
    PURE_VTHREADS = 1
INVARIANTS
  GroupsSound
  LostOnlyLate
PROPERTIES
  TurnsGoRound
CHECK_DEADLOCK FALSE
