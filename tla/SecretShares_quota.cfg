\* Two sessions at the limits of senders and recipients.
SPECIFICATION Spec
CONSTANTS
  ann = ann
  bob = bob
  cem = cem
  w1 = w1
  w2 = w2
  k1 = k1
  k2 = k2
  People = {ann, bob, cem}
  Volatile = {}
  Shares = {1, 2}
  Sessions = {w1, w2}
  Roles = {staff}
  StaffRoles = {staff}
  SendRoles = {staff}
  ReceiveRoles = {staff}
  staff = staff
  trainee = trainee
  Keys = {k1}
  Lifetimes = {1}
  Day = 2
  Retention = 9
  PendingPerSender = 1
  PendingPerRecipient = 1
  CreatesPerDay = 2
  Batch = 1
  Unborn = Unborn
  Deleted = Deleted
  NoPerson = NoPerson
  NoRequest = NoRequest
  NoEnvelope = NoEnvelope
  NoShare = 0
  MaxTime = 1
  MaxVersion = 0
  MaxFaults = 0
INVARIANTS QuotaHeld
SYMMETRY Alike
