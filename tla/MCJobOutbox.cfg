SPECIFICATION FairSpec
CONSTANTS
  j1 = j1
  j2 = j2
  w1 = w1
  w2 = w2
  Jobs = {j1, j2}
  PublishJobs = {j1}
  Workers = {w1, w2}
  NoJob = NoJob
  MaxAttempts = 2
  MaxDisturbances = 3
CONSTRAINT OneRequested
INVARIANTS TypeOK OneClaim Recoverable RetryBudget
PROPERTIES SucceededIsFinal JobsSettle
