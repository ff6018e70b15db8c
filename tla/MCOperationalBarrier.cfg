SPECIFICATION FairSpec
CONSTANTS
  Job = {j1, j2}
  Operator = {o1, o2}
  LeaseTicks = 2
  MaxGeneration = 5
  Lossy = {"acquire", "renew", "release", "pause"}
INVARIANTS
  DrainSparesOnlyLapsed
  PauseHolds
PROPERTIES
  PauseDrains
