SPECIFICATION Spec
CONSTANTS
  Op = {o1, o2, o3}
  None = None
  LeaseTicks = 1
  DeadlineTicks = 2
  TtlTicks = 6
  MaxRetries = 1
SYMMETRY Symmetry
INVARIANTS
  TypeOK
  EntityOrder
  NoStrandedSuccessor
  OutcomeHasExecution
PROPERTIES
  TerminalIsFinal
  ReaperSparesStarted
  CleanupKeepsOpenWork
  ServesInOrder
CHECK_DEADLOCK FALSE
