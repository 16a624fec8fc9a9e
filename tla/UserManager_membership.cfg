SPECIFICATION Spec
CONSTANTS
  root = root
  guest = guest
  alice = alice
  bob = bob
  rootgroup = rootgroup
  guestgroup = guestgroup
  usergroup = usergroup
  staff = staff
  RootUser = root
  GuestUser = guest
  RootGroup = rootgroup
  GuestGroup = guestgroup
  UserGroup = usergroup
  Absent = Absent
  Torn = Torn
  Names = {alice}
  Groups = {staff}
  Tokens = {t1}
  Memberships <- MCMemberships
  MaxUsers = 3
  MaxFailures = 0
  MaxCrashes = 1
INVARIANTS
  UserGroupsExistWhenIdle
