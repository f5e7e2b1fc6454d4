SPECIFICATION Spec
CONSTANTS
  Txn = {t1, t2}
  Principal = {alice, bob}
  Time = {0, 1, 2}
  NoGrant = NoGrant
SYMMETRY Symmetry
INVARIANTS
  TypeOK
  SingleUse
  ReviewedNeedsLiveGrant
PROPERTY
  Forward
CHECK_DEADLOCK FALSE
