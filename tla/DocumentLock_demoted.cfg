\* Does a demoted author ride on the decision of the gate?
SPECIFICATION Spec
CONSTANTS
  hr = hr
  t1 = t1
  b1 = b1
  b2 = b2
  mod = mod
  head = head
  panel = panel
  Docs = {1}
  Writers = {head}
  CallerOf <- MCCallerOf
  Departments = {hr}
  Teams = {}
  Bodies = {b1}
  Moderator = Moderator
  Panel = Panel
  Nobody = Nobody
  NewClasses = {Nobody}
  NoDept = NoDept
  NoTeam = NoTeam
  NoRow = NoRow
  NoToken = NoToken
  NoDoc = NoDoc
  NoWriter = NoWriter
  Deletable = {hr}
  PredictedTokens = {1}
  MaxChanges = 1
PROPERTY NothingAfterDemotion
