SPECIFICATION FairSpec
CONSTANTS
  MaxOps = 2
  LeaseTicks = 1
  DeadlineTicks = 1
  TtlTicks = 5
  MaxRetries = 1
  MaxCopies = 2
  ArrivalTicks = 1
  Outcome = {"succeeded", "failed"}
  Unreliable = {1, 2}
  MaxFaults = 0
PROPERTIES
  CarriedOut
CHECK_DEADLOCK FALSE
