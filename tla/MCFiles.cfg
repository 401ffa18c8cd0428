SPECIFICATION Spec
CHECK_DEADLOCK FALSE
SYMMETRY Alike
CONSTANTS
  Projects = {hall, ward}
  NoFile = NoFile
  Torn = Torn
  NoPackage = NoPackage
  NoWork = NoWork
  Digests = {d1, d2, d3}
  MaxCalls = 4
  MaxErrors = 1
  MaxKills = 1
  MaxPowerFailures = 1
INVARIANTS
  TypeOK
  EventsFollowEnvelopes
  ChainReadable
  AnsweredHasEvent
  FrozenHasPackage
  ListShowsProjects
PROPERTIES
  IsAtomicStore
