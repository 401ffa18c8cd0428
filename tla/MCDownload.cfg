SPECIFICATION DeepSpec
CHECK_DEADLOCK FALSE
CONSTANTS
  Projects = {hall}
  NoFile = NoFile
  Torn = Torn
  NoPackage = NoPackage
  NoWork = NoWork
  Digests = {1, 2}
  MaxCalls = 4
  MaxErrors = 1
  MaxKills = 0
  MaxPowerFailures = 0
INVARIANTS
  DownloadIsFrozenPackage
