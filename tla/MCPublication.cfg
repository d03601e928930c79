SPECIFICATION FairSpec
CONSTANTS
  p1 = p1
  w1 = w1
  w2 = w2
  Ops = {p1}
  Workers = {w1, w2}
  NoOp = NoOp
  MaxWrites = 1
  MaxCommits = 3
  MaxFaults = 2
INVARIANTS TypeOK OneMerge RegisteredIsPublished AbandonedIsRequeued
PROPERTIES ReceiptIsFinal NoStaleMerge PublicationsSettle
CHECK_DEADLOCK FALSE
