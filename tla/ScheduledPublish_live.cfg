\* Documents whose changes fail, and pages that are each other's parent: does every plan end?
SPECIFICATION FairSpec
CONSTANTS
  Docs = {1, 2}
  Parents <- LiveKinds
  PublishTimes <- Soon
  UnpublishTimes <- Soon
  InitialErrors = {"none"}
  Wait = 1
  Batch = 2
  Quota = 1
  Scan = 2
  MaxAttempts = 2
  Backoff <- OneThenTwo
  MaxTime = 2
  MaxEdits = 1
  MaxFaults = 1
PROPERTIES
  WithdrawalsHappen
  PublishesSettle
