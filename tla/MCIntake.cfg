SPECIFICATION Spec
CONSTANTS
  o1 = o1
  o2 = o2
  a1 = a1
  a2 = a2
  s1 = s1
  s2 = s2
  r1 = r1
  r2 = r2
  g1 = g1
  g2 = g2
  NoId = NoId
  Objects = {o1, o2}
  Authors = {a1, a2}
  SourceIds = {s1, s2}
  Relations = {r1, r2}
  Governing = {g1, g2}
  NewSource = s2
  NewObject = o1
  Drafts <- MCDrafts
  Libraries <- MCLibraries
  Files <- MCFiles
  Outcomes <- MCOutcomes
  Edits <- MCEdits
  Newcomers = {r2}
  MaxUploads = 2
  MaxRevisions = 2
INVARIANTS TypeOK AcceptedIsClean StaysAccepted RepairSuffices  AnswerIsFollowed 
CHECK_DEADLOCK FALSE
