\* A course is published while the refusal of its lesson is weighed.
SPECIFICATION Spec
CONSTANTS
  Docs = {1, 2}
  Parents <- LessonsOnly
  PublishTimes <- AnyTime
  UnpublishTimes <- Open
  InitialErrors = {"none"}
  Wait = 2
  Batch = 2
  Quota = 1
  Scan = 1
  MaxAttempts = 2
  Backoff <- OneThenTwo
  MaxTime = 3
  MaxEdits = 1
  MaxFaults = 0
PROPERTIES
  RefusalsHold
