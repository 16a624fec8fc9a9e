SPECIFICATION DeliverySpec
CONSTANTS
  root = root
  guest = guest
  alice = alice
  rootgroup = rootgroup
  guestgroup = guestgroup
  usergroup = usergroup
  RootUser = root
  GuestUser = guest
  RootGroup = rootgroup
  GuestGroup = guestgroup
  UserGroup = usergroup
  Absent = Absent
  Torn = Torn
  NoMail = NoMail
  Names = {alice}
  Groups = {}
  Tokens = {t1, t2}
  Memberships = {}
  MaxUsers = 4
  MaxFailures = 1
  MaxCrashes = 2
  MaxFaults = 2
INVARIANTS
  DeliveryTypeOK
  MailedTokenWorks
  TokenlessOnlyByFault
  OneMailAfterStop
PROPERTIES
  MailsAreTried
