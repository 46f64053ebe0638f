SPECIFICATION Spec
CONSTANTS
  Magic = 77
  Version = 1
  InBlock = 8
  Names = {m, n}
  Descriptors = {d}
  Modules = {k}
  Targets = {o}
  Payload = p
  Modifiers <- SomeModifiers
  NoInfo = NoInfo
  NoString = NoString
  U16Max = 10
  Capacities = 8
  OutBlock = 7
  StaleSizes <- SomeStale
  Junk = junk
  MaxClasses = 1
  MaxCalls = 2
  MaxFuel = 35
INVARIANTS
  RoundTrip
  RefusalsClean
CHECK_DEADLOCK FALSE
