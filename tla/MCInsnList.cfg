SPECIFICATION CodeSpec
CONSTANTS
  Byte = 7
  NOP = 0
  WIDE = 1
  LOAD = 2
  INC = 3
  JMP = 4
  CALL = 5
  LPUSH = 6
  Labels = {l}
  Locals <- SomeLocals
  Increments <- SomeIncrements
  LocalSlots = 8
  StackDepth = 1
  InitialSize = 9
  MaxInsns = 4
INVARIANTS
  DecodesAsEmitted
  ExecutionSound
CHECK_DEADLOCK FALSE
