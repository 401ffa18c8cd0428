SPECIFICATION Spec
CHECK_DEADLOCK FALSE
CONSTANTS
  NodeIDs <- BranchNodes
  Texts = {"lifts", "wards"}
  Blank = Blank
  Actors = {ann, bob}
  NoActor = NoActor
  Surveys <- BranchSurveys
  NoSurvey = NoSurvey
  Plans <- BranchPlans
  Repairs <- BranchRepairs
  NoPackage = NoPackage
  Moments = {t1}
  NoMoment = NoMoment
  MaxSignsRevision = 3
  MaxEvidence = 2
  MaxRounds = 2
SYMMETRY ActorSymmetry
INVARIANTS
  ReadyImpliesClean
  ResolvedHasCurrentEvidence
  ResolvedNodeRuleQuiet
PROPERTIES
  EvidenceIsATrail
