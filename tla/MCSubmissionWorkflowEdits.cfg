\* An acknowledged edit and a preparation that read the draft before it.
SPECIFICATION Spec
CONSTANTS
    Tabs = {t1}
    Reviewers = {}
    Uploads = {u1}
    References = {}
    Conditions = {}
    Standing = {}
    Decisions = {"RETURNED_FOR_REPAIR"}
    Slots = 1
    MaxEdits = 1
    MaxRevisions = 0
    MaxAttempts = 0
    MaxFaults = 0
INVARIANT EditsSurvive
CHECK_DEADLOCK FALSE
