SPECIFICATION DeepSpec
CHECK_DEADLOCK FALSE
SYMMETRY Alike
CONSTANTS
  Projects = {hall, ward}
  NoFile = NoFile
  Torn = Torn
  NoPackage = NoPackage
  NoWork = NoWork
  Digests = {1, 2}
  MaxCalls = 4
  MaxErrors = 1
  MaxKills = 1
  MaxPowerFailures = 0
INVARIANTS
  ValidIsConsistent
  AnsweredFreezeIsValid
