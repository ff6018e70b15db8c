SPECIFICATION Spec
CONSTANTS
  a1 = a1
  a2 = a2
  a3 = a3
  h1 = h1
  h2 = h2
  None = None
  Attempt <- TheAttempts
  Host <- TheHosts
  HostOf <- Placement
  Lossy <- Everything
  ReserveTicks = 1
  InvokeTicks = 1
  CommandTicks = 2
  RecordTicks = 2
  MaxConnection = 0
PROPERTIES
  CallIsRecorded
CHECK_DEADLOCK FALSE
