SPECIFICATION ReplaySpec
CONSTANTS
  Path <- Chain
  None = None
INVARIANTS
  OrderIsSound
  ReachesBothEnds
