SPECIFICATION Spec
CONSTANTS
  Path <- Paths
  Chunk = {"c"}
  None = None
  Bases <- Trees
  MostRecords = 30
  Limits = {6}
  Editable <- OneFile
  ListLimits = {0, 4}
  MaxOps = 3
INVARIANTS
  DiffExact
  EvidenceIsBase
  Accounted
PROPERTY
  ImplementsPlain
CHECK_DEADLOCK FALSE
