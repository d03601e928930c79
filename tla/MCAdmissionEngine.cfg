SPECIFICATION Spec
CONSTANTS
  b1 = b1
  b2 = b2
  o1 = o1
  o2 = o2
  a1 = a1
  s1 = s1
  s2 = s2
  g1 = g1
  g2 = g2
  NoId = NoId
  Objects = {o1}
  Authors = {a1}
  SourceIds = {s1, s2}
  Relations = {}
  Governing = {g1, g2}
  Branches = {b1, b2}
  Seed <- MCSeed
  Works <- MCWorks
  Proposals <- MCProposals
  Edits <- MCEdits
  Reserved = {1, 2}
  MaxSteps = 3
INVARIANTS TypeOK OneRunPerReceipt RegisteredIsAccepted
PROPERTIES StatesAreKept ReleasedIsKept
CONSTRAINTS Apart OneProcess
SYMMETRY Symmetry
CHECK_DEADLOCK FALSE
