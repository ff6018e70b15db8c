SPECIFICATION Spec
CONSTANTS
  MaxOps = 2
  LeaseTicks = 2
  DeadlineTicks = 3
  TtlTicks = 7
  MaxRetries = 1
  MaxCopies = 2
  ArrivalTicks = 1
  Outcome = {"succeeded", "failed"}
  Unreliable = {}
  MaxFaults = 2
INVARIANTS
  ExpiredNeverCalled
CHECK_DEADLOCK FALSE
