SPECIFICATION FairSpec
CONSTANTS
  ka = ka
  kb = kb
  kc = kc
  Key <- MCKey
  Task <- MCTask
  KeyOf <- MCKeyOf
  Hung <- MCHung
  MaxActiveLanes = 2
  MaxQueuedTasks = 4
INVARIANTS
  NoLostWakeup
  CounterIsExact
PROPERTIES
  DrainedIsQuiet
  StartsInOrder
  NoKeyPassesTwice
  HungChatHoldsOnlyItsLane
CHECK_DEADLOCK FALSE
