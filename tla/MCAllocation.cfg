SPECIFICATION Spec
CONSTANTS
  k1 = k1
  k2 = k2
  k3 = k3
  s1 = s1
  s2 = s2
  c1 = c1
  c2 = c2
  Keys = {k1, k2, k3}
  Submissions = {s1, s2}
  SubmissionOf <- TwoAndOne
  Contributors = {c1, c2}
  Nobody = Nobody
  Limit = 4
  Margin = 2
  Top = 5
INVARIANTS TypeOK DistinctValues CommittedIsOnLedger
PROPERTIES MarginOverrun IssuesOnce
SYMMETRY Symmetry
CHECK_DEADLOCK FALSE
