\* Two sessions, the janitor, a process that restarts and an account that changes, over one share.
SPECIFICATION Spec
CONSTANTS
  ann = ann
  bob = bob
  cem = cem
  w1 = w1
  w2 = w2
  k1 = k1
  k2 = k2
  People = {ann, bob}
  Volatile = {bob}
  Shares = {1}
  Sessions = {w1, w2}
  Roles = {staff, trainee}
  StaffRoles = {staff, trainee}
  SendRoles = {staff}
  ReceiveRoles = {staff}
  staff = staff
  trainee = trainee
  Keys = {k1, k2}
  Lifetimes = {1}
  Day = 2
  Retention = 0
  PendingPerSender = 2
  PendingPerRecipient = 2
  CreatesPerDay = 2
  Batch = 1
  Unborn = Unborn
  Deleted = Deleted
  NoPerson = NoPerson
  NoRequest = NoRequest
  NoEnvelope = NoEnvelope
  NoShare = 0
  MaxTime = 1
  MaxVersion = 1
  MaxFaults = 1
INVARIANT Guarded
PROPERTIES SecretIsReadOnce PeopleStillMay EndsAndDeletionsDue
SYMMETRY Turns
