\* The two halves of MCSubmissionWorkflow: states, review cases and evaluations
\* with two reviewers, two conditions, two slots, two attempts and one fault; and
\* drafts and versions with two tabs, two edits and an upload.  Both conditions
\* come and go (Standing), which covers those that stay.
SPECIFICATION Spec
CONSTANTS
    Tabs = {t1, t2}
    Reviewers = {v1, v2}
    Uploads = {u1}
    References = {r}
    Conditions = {c1, c2}
    Standing = {c1, c2}
    Decisions = {"ACCEPTED", "RETURNED_FOR_REPAIR"}
    Slots = 2
    MaxEdits = 2
    MaxRevisions = 2
    MaxAttempts = 2
    MaxFaults = 1
INVARIANTS TypeOK StateIsBacked Attended FreezesWhatWasShown
PROPERTIES DecidedIsReviewed TabsDoNotOverwrite
CONSTRAINT OneHalf
SYMMETRY Symmetry
CHECK_DEADLOCK FALSE
