SPECIFICATION Spec
CONSTANTS
  Op = {o1}
  Reconciler = {r1, r2}
  None = None
  LeaseTicks = 1
  DeadlineTicks = 2
  TtlTicks = 4
  MaxRetries = 1
  FinalTicks = 5
  CapTicks = 6
  Outage = TRUE
SYMMETRY Reconcilers
INVARIANTS
  TypeOK
  ReportsAgree
PROPERTY
  RemovedWithEvidence
CHECK_DEADLOCK FALSE
