SPECIFICATION FairSpec
CONSTANTS
  Procs = {p1, p2}
  NoProc = NoProc
  NoVal = NoVal
  NoNode = NoNode
  Keys = {1, 2}
  Vals = {v1, v2}
  Searches = {{1}, {2}}
  UnitsPerGrowth = 1
  MaxSize = 2
  MaxCalls = 4
INVARIANTS TypeOK KeysUnique
PROPERTIES ImplementsAtomicMap CallsReturn
CHECK_DEADLOCK FALSE
