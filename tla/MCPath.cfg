SPECIFICATION Spec
CHECK_DEADLOCK FALSE
CONSTANTS
  NodeIDs <- PathNodes
  Texts = {"desk", "here"}
  Blank = Blank
  Actors = {ann, bob}
  NoActor = NoActor
  Surveys <- PathOrOtherSurveys
  NoSurvey = NoSurvey
  Plans <- PathPlans
  Repairs <- PathRepairs
  NoPackage = NoPackage
  Moments = {t1, t2}
  NoMoment = NoMoment
  MaxSignsRevision = 4
  MaxEvidence = 2
  MaxRounds = 4
SYMMETRY ActorSymmetry
INVARIANTS
  TypeOK
  StatusMatchesProgress
  RoundsAnswerFailures
  EveryNodePassedAtApproval
  FreezeThenVerify
  BaselineRulesQuiet
  ImpactIsReachability
  PathsAreShortest
PROPERTIES
  ApprovalKeepsContent
  IsReleasePromise
