SPECIFICATION Spec
CHECK_DEADLOCK FALSE
CONSTANTS
  NodeIDs <- PorchNodes
  Texts = {"desk", "here"}
  Blank = Blank
  Actors = {ann, bob}
  NoActor = NoActor
  Surveys <- PorchSurveys
  NoSurvey = NoSurvey
  Plans <- PorchPlans
  Repairs <- PorchRepairs
  NoPackage = NoPackage
  Moments = {t1}
  NoMoment = NoMoment
  MaxSignsRevision = 2
  MaxEvidence = 1
  MaxRounds = 1
SYMMETRY ActorSymmetry
PROPERTIES
  AnsweredIssuesClose
