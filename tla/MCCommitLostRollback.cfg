SPECIFICATION Spec
CONSTANTS
  Path <- Workspace
  None = None
  Jobs <- OneFile
  MaxOperations = 4
  Troubles <- LostRollback
  RaceWindow = FALSE
INVARIANT
  NoConflict
CHECK_DEADLOCK FALSE
