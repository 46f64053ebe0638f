SPECIFICATION BoundarySpec
CONSTANTS
  Chars <- Letters
  MaxLength = 6
  After <- Following
  Half <- Halves
  Passed <- PassedValues
  MaxCount = 2
  Names <- NativeNames
  Threads = {t1, t2}
  Objects = {o1, o2}
  Null = Null
  Size = 3
  MaxLocals = 1
  MaxCopying = 1
  MaxWrites = 1
  Base = 4
  Declarations <- FieldLists
  Numbers <- Numbered
  Lengths <- AskedLengths
  MaxAllocation = 1000
  Texts <- Strings
  MaxStores = 2
SYMMETRY Symmetry
INVARIANTS
  NamesExact
  ValuesArrive
  SharedDataKept
  ReadsWhatWasStored
CHECK_DEADLOCK FALSE
