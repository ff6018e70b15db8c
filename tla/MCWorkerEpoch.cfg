SPECIFICATION FairSpec
CONSTANTS
  r1 = r1
  r2 = r2
  r3 = r3
  None = None
  Runtime <- MCRuntime
  Gen <- MCGen
  MaxAttempts = 2
  MaxRevision = 4
INVARIANTS
  TransitionHolds
  GuardIsCurrent
PROPERTIES
  RecordMovesForward
  ReplacedIsRevoked
CHECK_DEADLOCK FALSE
