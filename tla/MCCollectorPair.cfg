SPECIFICATION CollectorSpec
CONSTANTS
  Objects = {o1, o2}
  Null = Null
  NumFields = 2
  MaxRefs = 2
  MaxLog = 3
  MaxLeaves = 4
SYMMETRY Symmetry
INVARIANTS
  CountsExact
  NoLiveFreed
  CandidatesKept
CHECK_DEADLOCK FALSE
