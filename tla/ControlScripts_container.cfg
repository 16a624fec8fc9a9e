SPECIFICATION FairSpec
CONSTANTS
  Pids = {p1, p2, p3}
  Absent = Absent
  MaxRetries = 2
  MaxUpsets = 2
INVARIANTS
  TypeOK
  OneServerNamed
  AdminIfConfigured
PROPERTIES
  ContainerStopsInOrder
  StopEnds
  StartConfigures
CHECK_DEADLOCK FALSE
