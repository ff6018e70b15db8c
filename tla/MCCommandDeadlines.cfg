SPECIFICATION Spec
CONSTANTS
  Op = {o1, o2}
  Reconciler = {r1}
  None = None
  LeaseTicks = 1
  DeadlineTicks = 2
  TtlTicks = 4
  MaxRetries = 0
  FinalTicks = 5
  CapTicks = 7
  Outage = FALSE
SYMMETRY Commands
INVARIANTS
  ResolvedByCap
PROPERTY
  NoStartAfterReport
CHECK_DEADLOCK FALSE
