SPECIFICATION Spec
CONSTANTS
  Commands = {c1, c2, c3}
  Projects = {p1, p2}
  Entries = {x1, x2, x3}
  NoCommand = NoCommand
  NoEntry = NoEntry
  NoProject = NoProject
INVARIANTS
  TypeOK
  TableMatchesUsers
  MutualExclusion
  WaitsForWorker
PROPERTIES
  EveryWaiterRuns
  IsProjectLock
