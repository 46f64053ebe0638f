SPECIFICATION Spec
CONSTANTS
  Objects = {o1, o2}
  Null = Null
  Garbage = Garbage
  StackSize = 4
  LocalCount = 1
  Arguments <- ArgumentLists
  Results <- ResultSlots
  MaxCells = 1
  MaxCount = 2
  MaxStranded = 1
SYMMETRY Symmetry
INVARIANTS
  FrameSound
  GoneAccounted
CHECK_DEADLOCK FALSE
