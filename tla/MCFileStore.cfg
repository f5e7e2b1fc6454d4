SPECIFICATION Spec
CONSTANTS
  Txn = {t1, t2}
  Principal = {alice}
  Time = {0, 1}
  NoGrant = NoGrant
  Free = Free
  NoFrame = NoFrame
  Handle = {p, q}
  MaxLogBytes = 3
  MaxRecords = 2
  MaxGeneration = 2
  MaxFailures = 2
  FaultSets = {{"write", "sync", "crash", "power"}}
SYMMETRY Symmetry
CONSTRAINT Scope
INVARIANTS
  TypeOK
  NeverCorrupt
  AckedSurvives
  CacheIsPrefix
  ConsumedOnce
  TransitionsFit
PROPERTY
  Implements
CHECK_DEADLOCK FALSE
