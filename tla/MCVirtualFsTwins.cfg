SPECIFICATION Spec
CONSTANTS
  Path <- Paths
  Chunk = {"c"}
  None = None
  Bases <- Trees
  MostRecords = 40
  MaxOps = 2
INVARIANT EvidenceSuffices
CHECK_DEADLOCK FALSE
