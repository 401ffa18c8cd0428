SPECIFICATION Spec
CONSTANTS
  Hall = Hall
  Ward = Ward
  Short = Short
  Full = Full
  Windows = {w1}
  Projects <- TwoProjects
  Plans <- TwoPlans
  Sample = Full
  NoPlan = NoPlan
  Faulty <- FaultyPairs
  None = None
  FirstRevision = 5
  MaxCommands = 2
  MaxInFlight = 2
INVARIANTS
  TypeOK
  PreviewBeforeSave
PROPERTIES
  ActsOnWhatIsShown
  FreezesWhatWasShown
