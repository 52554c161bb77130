\* Every admitted write is answered and every delete of a team ends.
SPECIFICATION FairSpec
CONSTANTS
  hr = hr
  t1 = t1
  b1 = b1
  b2 = b2
  mod = mod
  head = head
  panel = panel
  Docs = {1}
  Writers = {mod, panel}
  CallerOf <- MCCallerOf
  Departments = {}
  Teams = {t1}
  Bodies = {b1}
  Moderator = Moderator
  Panel = Panel
  Nobody = Nobody
  NewClasses = {}
  NoDept = NoDept
  NoTeam = NoTeam
  NoRow = NoRow
  NoToken = NoToken
  NoDoc = NoDoc
  NoWriter = NoWriter
  Deletable = {t1}
  PredictedTokens = {}
  MaxChanges = 2
PROPERTIES RequestAnswered DeletesEnd
