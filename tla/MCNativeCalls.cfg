SPECIFICATION Spec
CONSTANTS
  Objects = {o1}
  Modules = {m1}
  Null = Null
  StackSize = 1
  MaxFrames = 3
  MaxNatives = 2
  MaxSlots = 2
  MaxPushed = 1
  MaxLost = 1
SYMMETRY Symmetry
INVARIANTS
  NativeOnTop
  HandlesSound
CHECK_DEADLOCK FALSE
