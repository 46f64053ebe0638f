SPECIFICATION FairSpec
CONSTANTS
    t1 = t1
    t2 = t2
    A = A
    B = B
    arrayA = arrayA
    arrayArrayA = arrayArrayA
    Threads = {t1, t2}
    NoThread = NoThread
    Object = Object
    Classes = {A, B}
    Arrays = {arrayA, arrayArrayA}
    BaseOf <- ArrayBases
    NoClass = NoClass
    Freed = Freed
    Supers <- DeclaredSupers
    FieldLists <- FieldChoices
    MethodNames = {"equals", "hash"}
    MethodLists <- MethodChoices
    MaxLoads = 1
INVARIANTS
  LayoutExact
  DispatchMostDerived
  SleepsForAnother
  ResultsStand
PROPERTIES
  LoadsEnd
CHECK_DEADLOCK FALSE
