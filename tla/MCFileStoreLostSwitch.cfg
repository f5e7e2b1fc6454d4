SPECIFICATION Spec
CONSTANTS
  Txn = {t1, t2}
  Principal = {alice}
  Time = {0}
  NoGrant = NoGrant
  Free = Free
  NoFrame = NoFrame
  Handle = {p}
  MaxLogBytes = 3
  MaxRecords = 2
  MaxGeneration = 1
  MaxFailures = 2
  FaultSets = {{"crash", "power", "lost_switch"}}
INVARIANT
  ConsumedOnce
CHECK_DEADLOCK FALSE
