SPECIFICATION FairSpec
CONSTANTS
  Request = {1, 2}
  Worker = {1, 2, 3, 4}
  Room = 1
  MaxIdle = 1
  MaxActive = 1
  MaxReuse = 2
  MaxEvents = 1
  Troubles = 1
  NoWorker = 0
  Frontends <- Fronts
INVARIANTS
  ParkedIsFresh
  NobodyOffended
PROPERTY
  Settles
CHECK_DEADLOCK FALSE
