SPECIFICATION Spec
CONSTANTS
  store = store
  body = body
  v0 = v0
  v1 = v1
  root = root
  alice = alice
  rootgroup = rootgroup
  usergroup = usergroup
  csr = csr
  updateAction = updateAction
  updateProcess = updateProcess
  test = test
  Keys = {store, body}
  Values = {v0, v1}
  DefaultSettings <- MCDefaultSettings
  Unset = {body}
  CommandLines <- MCCommandLines
  Actions <- MCActions
  Processes = {csr}
  Releases <- MCReleases
  RootActions <- MCUpdates
  OpenActions = {test}
  ActionUpdateAccessOwner = updateAction
  ActionUpdateAccessMode = updateAction
  ProcessUpdateAccessOwner = updateProcess
  ProcessUpdateAccessMode = updateProcess
  Users = {root, alice}
  GroupsOf <- MCGroupsOf
  RootUser = root
  RootGroup = rootgroup
  UserGroup = usergroup
  Owners <- MCOwners
  Modes <- MCModes
  NoRights = NoRights
  NotGiven = NotGiven
  Absent = Absent
  Torn = Torn
  Unknown = Unknown
  MaxUpdates = 2
  MaxFaults = 1
INVARIANTS
  TypeOK
  RightsHold
  NobodyLetInOrLockedOut
  SettingsAsGiven
