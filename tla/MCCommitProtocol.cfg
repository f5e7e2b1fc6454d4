SPECIFICATION FairSpec
CONSTANTS
  Path <- Workspace
  None = None
  Jobs <- AllJobs
  MaxOperations = 4
  Troubles <- AllTroubles
  RaceWindow = FALSE
INVARIANTS
  RecoveryCopes
  OutcomeExact
  ConflictHasCause
  UserWorkSurvives
PROPERTIES
  Implements
  Converges
CHECK_DEADLOCK FALSE
