SPECIFICATION Spec
CONSTANTS
  root = root
  alice = alice
  bob = bob
  i1 = i1
  i2 = i2
  i3 = i3
  small = small
  big = big
  NoFile = NoFile
  Torn = Torn
  Unknown = Unknown
  NoTask = NoTask
  Users = {root}
  RootUser = root
  RootGroup = rootgroup
  UserGroup = usergroup
  Groups = {usergroup}
  GroupsOf <- MCGroupsOf
  Ids = {i1, i2, i3}
  Paths = {p1}
  Contents = {small, big}
  SizeOf <- MCSizeOf
  Modes <- OneMode
  Labels = {v1}
  NewLabel = v1
  Quota <- NoQuota
  MaxFileSize = 0
  MaxStoreSize = 0
  MaxFaults = 1
SYMMETRY IdSymmetry
INVARIANTS
  TypeOK
  AnsweredHolds
  AnsweredPersists
  TotalNeverUndercounts
  ReplaceLeavesOneCopy
