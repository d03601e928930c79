SPECIFICATION Spec
CONSTANTS
  c1 = c1
  c2 = c2
  p1 = p1
  p2 = p2
  Accounts = {c1, c2}
  Readers = {p1, p2}
  Existing <- MCExisting
  Claimable <- MCClaimable
  MaxCommits = 2
  MaxReads = 3
  MaxFailures = 1
INVARIANTS TypeOK RegisteredIsShown
PROPERTIES IdentityIsKept
SYMMETRY Symmetry
CONSTRAINT OneHalf
CHECK_DEADLOCK FALSE
