SPECIFICATION Spec
CONSTANTS
  Path <- Paths
  Chunk = {"y"}
  None = None
  Bases <- Trees
  Policies <- Rulings
  Named <- Places
  NameOrder <- Order
  Limit <- Budget
  CallLimit = 2
  PathLimit = 3
  Thresholds <- Ceilings
  Profile = "Balanced"
INVARIANTS
  ProtectedIntact
  AcceptedIsAllowed
  PatternsMeant
  WorkCharged
  MoreIsNotLess
PROPERTY
  WholeOrNothing
CHECK_DEADLOCK FALSE
