SPECIFICATION Safe
CONSTANTS
  Handlers = {h1, h2}
  NoHandler = NoHandler
  Requests <- FewRequests
  Bodies <- AllBodies
  Normal <- SortLists
  Commands <- FewCommands
  NoProject = NoProject
  NoRecord = NoRecord
  NoCommand = NoCommand
  MaxFailures = 1
INVARIANTS
  ConflictMeansChanged
