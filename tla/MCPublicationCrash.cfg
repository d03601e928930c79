SPECIFICATION Spec
CONSTANTS
  p1 = p1
  w1 = w1
  Ops = {p1}
  Workers = {w1}
  NoOp = NoOp
  MaxWrites = 0
  MaxCommits = 3
  MaxFaults = 1
INVARIANT AbandonsOnlyMovedBase
CHECK_DEADLOCK FALSE
