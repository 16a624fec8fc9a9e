SPECIFICATION Spec
CONSTANTS
  root = root
  alice = alice
  bob = bob
  i1 = i1
  i2 = i2
  i3 = i3
  small = small
  big = big
  NoFile = NoFile
  Torn = Torn
  Unknown = Unknown
  NoTask = NoTask
  Users = {alice, bob}
  RootUser = root
  RootGroup = rootgroup
  UserGroup = usergroup
  Groups = {usergroup}
  GroupsOf <- MCGroupsOf
  Ids = {i1, i2}
  Paths = {p1}
  Contents = {small, big}
  SizeOf <- MCSizeOf
  Modes <- OneShared
  Labels = {v1}
  NewLabel = v1
  Quota <- MCQuota
  MaxFileSize = 2
  MaxStoreSize = 3
  MaxFaults = 1
SYMMETRY IdSymmetry
INVARIANTS
  AnsweredHolds
PROPERTIES
  OwnStepsKeepQuota
  OnlyUpdatesOutgrowStore
  OnlyWritersChange
