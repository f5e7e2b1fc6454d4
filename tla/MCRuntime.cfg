SPECIFICATION Spec
CONSTANTS
  t1 = t1
  t2 = t2
  Txn = {t1, t2}
  Principal = {hook}
  HookPrincipal = hook
  Time = {0, 1}
  NoGrant = NoGrant
  None = None
  p1 = p1
  p2 = p2
  Process = {p1, p2}
  Scope <- Mixed
  Call = {c1, c2}
  Ttl = 1
  MaxEphemeral = 1
  Ops = {"commit", "hooked", "approve"}
  MaxDeaths = 1
SYMMETRY Symmetry
CONSTRAINT SecondIsPreview
INVARIANTS
  TypeOK
  HookHolds
  CancelledStaysOut
  CancelledRunWithdrawn
  DurableIsResumable
  ReservedIsReleased
PROPERTY
  KeepsStore
CHECK_DEADLOCK FALSE
