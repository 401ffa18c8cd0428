SPECIFICATION Spec
CHECK_DEADLOCK FALSE
CONSTANTS
  NodeIDs <- PathNodes
  Texts = {"desk", "here"}
  Blank = Blank
  Actors = {ann, bob}
  NoActor = NoActor
  Surveys <- PathSurveys
  NoSurvey = NoSurvey
  Plans <- PathPlans
  Repairs <- PathRepairs
  NoPackage = NoPackage
  Moments = {t1}
  NoMoment = NoMoment
  MaxSignsRevision = 2
  MaxEvidence = 1
  MaxRounds = 1
SYMMETRY ActorSymmetry
INVARIANTS
  TargetedOnlyAfterRemediation
