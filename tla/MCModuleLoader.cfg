SPECIFICATION LinkerSpec
CONSTANTS
  Threads = {t1, t2, t3}
  Names = {a, b}
  Records = {r1, r2}
  NoModule = null
  MaxDepth = 2
  Main = Main
  Other = Other
  NoThread = NoThread
  p1 = p1
  p2 = p2
  p3 = p3
  Plugins = {p1, p2, p3}
  NoPlugin = NoPlugin
  Directories <- OneDirectory
  Files <- SomeFiles
  Loadable = {p1}
  Exports <- SomeExports
  MaxUses = 2
INVARIANTS
  RecordsKept
  OneLoader
  PluginsHold
PROPERTIES
  TableSpec
  WaitEnds
  StartUpEnds
CHECK_DEADLOCK FALSE
