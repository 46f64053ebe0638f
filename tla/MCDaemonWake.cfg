CONSTANTS
  Main = main
  Mutators = {m1, m2}
  MaxRequests = 2
SPECIFICATION FairSpec
INVARIANTS
  CollectsOnRequest
PROPERTIES
  WokenCollects
  LastCollectionEnds
CHECK_DEADLOCK FALSE
