SPECIFICATION Spec
CONSTANTS
  Handlers = {h1, h2}
  NoHandler = NoHandler
  Requests <- AllRequests
  Bodies <- AllBodies
  Normal <- SortLists
  Commands <- AllCommands
  NoProject = NoProject
  NoRecord = NoRecord
  NoCommand = NoCommand
  MaxFailures = 2
INVARIANTS
  TypeOK
  AppliedOnce
  AcceptedIsStored
  EventsFollowProject
  PackageBehindFrozen
PROPERTIES
  IsLedger
  EveryCommandEnds
