\* Two documents of every kind: plans, runs, authors, failures and a restart.
SPECIFICATION Spec
CONSTANTS
  Docs = {1, 2}
  Parents <- AllKinds
  PublishTimes <- Later
  UnpublishTimes <- AtLast
  InitialErrors = {"none", "rejected"}
  Wait = 1
  Batch = 2
  Quota = 1
  Scan = 1
  MaxAttempts = 2
  Backoff <- OneThenTwo
  MaxTime = 2
  MaxEdits = 2
  MaxFaults = 1
INVARIANTS
  Scheduled
  RetriesTakeTurns
PROPERTIES
  PlanFollowed
  NoSilentDrop
  NewerPlanStands
  TimetableIsKept
