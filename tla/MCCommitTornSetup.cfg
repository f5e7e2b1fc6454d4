SPECIFICATION Spec
CONSTANTS
  Path <- Workspace
  None = None
  Jobs <- OneFile
  MaxOperations = 4
  Troubles <- TornSetup
  RaceWindow = FALSE
INVARIANT
  RecoveryReads
CHECK_DEADLOCK FALSE
