CONSTANTS
  Recommendations <- AdvisorIds
  Checks <- CheckKeys
  Cards <- AdvisedCards
  MaxReceipts = 2
  c1 = c1
  c2 = c2
  r1 = r1
  r2 = r2
  f1 = f1
  f2 = f2
  Callers = {c1, c2}
  Plans = {r1, r2}
  ResourceOf <- OwnResource
  Resources = {r1, r2}
  WatchTargets <- NoneOrOne
  Scopes = {commit}
  Findings = {f1, f2}
  NothingToReview = NothingToReview
  AckLife = 1
  PlanLeaseLife = 2
  WatchLeaseLife = 2
  CollabHorizon = 2
  CollabBudget = 3
  Alphabets <- Mixes
  narrow = narrow
  wide = wide
  code = code
  TrustUsers = {c1, c2}
  Profiles = {narrow, wide}
  Ceiling <- Widens
  Paths = {code}
  NoFile = NoFile
  MaxGrant = 2
  MaxSamples = 1
  TrustBudget = 4
  NotGiven = NotGiven
  Texts <- PlanTexts
  TaskText <- MadeUp
  StepForms <- SomeSteps
  MaxSteps = 2
SPECIFICATION OneGateSpec
CHECK_DEADLOCK FALSE
SYMMETRY CollabSymmetry
VIEW WithoutLost
INVARIANTS
  TypeOK
  RefusalCanBeCleared
  GatesTypeOK
  StartedPlansAreSound
  OnlyAcknowledgedFindingsPass
  WatchKeepsCovered
PROPERTIES
  AuthorityIsExplicit
  FailedEvidenceStops
  ActionsAreProved
  ReleaseEndsClaims
  DelegationIsReviewed
