\* A department author and the panel, a team that moves, deletes, and an account that changes.
SPECIFICATION Spec
CONSTANTS
  hr = hr
  t1 = t1
  b1 = b1
  b2 = b2
  mod = mod
  head = head
  panel = panel
  Docs = {1}
  Writers = {head, panel}
  CallerOf <- MCCallerOf
  Departments = {hr}
  Teams = {t1}
  Bodies = {b1}
  Moderator = Moderator
  Panel = Panel
  Nobody = Nobody
  NewClasses = {Nobody}
  NoDept = NoDept
  NoTeam = NoTeam
  NoRow = NoRow
  NoToken = NoToken
  NoDoc = NoDoc
  NoWriter = NoWriter
  Deletable = {hr}
  PredictedTokens = {1}
  MaxChanges = 3
INVARIANTS Maintained TrailInOrder
PROPERTIES NoLostUpdate WriteMatchesGate NothingAfterLosingScope
  AuthorsNeverDelete 
