SPECIFICATION FairSpec
CONSTANTS
  c1 = c1
  c2 = c2
  p1 = p1
  p2 = p2
  Accounts = {c1}
  Readers = {p1}
  Existing <- MCExisting
  Claimable = {}
  MaxCommits = 2
  MaxReads = 0
  MaxFailures = 0
PROPERTY RegistrationSettles
CHECK_DEADLOCK FALSE
