\* Sessions, codes and links of one account.
SPECIFICATION Spec
CONSTANTS
  r1 = r1
  r2 = r2
  k1 = k1
  Requests = {r1, r2}
  Recovery = {k1}
  EnrolTTL = 1
  LinkTTL = 1
  MaxVersion = 2
  MaxSecrets = 1
  MaxLinks = 2
  MaxTime = 1
  Bounds <- MCBounds
  NoPassword = NoPassword
  NoLink = NoLink
  NoCode = NoCode
  NoRequest = NoRequest
  Nobody = Nobody
INVARIANTS AccountKept SessionsProven CodesOnce LinksDie
PROPERTIES OwnChangesProven
SYMMETRY Alike
