SPECIFICATION FairSpec
CONSTANTS
  CountLimit = 16
  MaxShutdowns = 2
INVARIANTS
  TypeOK
  OrderlyExit
  ReadinessIsRight
PROPERTIES
  ShutdownExits
CHECK_DEADLOCK FALSE
