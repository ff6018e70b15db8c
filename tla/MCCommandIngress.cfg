SPECIFICATION Spec
CONSTANTS
  MaxOps = 2
  LeaseTicks = 1
  DeadlineTicks = 2
  TtlTicks = 5
  MaxRetries = 1
  MaxCopies = 2
  ArrivalTicks = 1
  Outcome = {"succeeded"}
  Unreliable = {}
  MaxFaults = 1
INVARIANTS
  CustodyKept
  FailureNotSwallowed
  OneVerdictTold
PROPERTIES
  CallsInOrder
CHECK_DEADLOCK FALSE
