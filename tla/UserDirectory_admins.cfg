\* Two administrators against each other, the panel and the identity provider.
SPECIFICATION Spec
CONSTANTS
  ann = ann
  bob = bob
  r1 = r1
  r2 = r2
  admin = admin
  member = member
  People = {ann, bob}
  Bound = {bob}
  Requests = {r1, r2}
  Roles = {admin, member}
  Admin = admin
  Updates <- MCUpdates
  Owners <- MCOwners
  NoRole = NoRole
  NoRequest = NoRequest
  Nobody = Nobody
INVARIANTS DirectoryKept RoleChoiceStands
PROPERTIES AdminRemains TombstoneStays
SYMMETRY Alike
