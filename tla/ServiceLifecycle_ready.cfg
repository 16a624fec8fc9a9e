SPECIFICATION FairSpec
CONSTANTS
  CountLimit = 16
  MaxShutdowns = 1
PROPERTIES
  ReadinessIsPrinted
CHECK_DEADLOCK FALSE
