------------------------- MODULE SubmissionWorkflow -------------------------
(***************************************************************************)
(* One submission of the portal: its draft and version token, preparation,  *)
(* frozen revisions, review cases, evaluations and the state a researcher   *)
(* sees (submissions/state.py, submissions/services.py, and                 *)
(* evaluate_revision of registry_bridge/evaluation.py).                     *)
(*                                                                         *)
(* Browser tabs, reviewers, preparation jobs and evaluation jobs act on one *)
(* row.  A step is what happens between two waits: network calls, parsing,  *)
(* the engine, a row lock.  Where code reads a value before such a wait and *)
(* uses it after, the value is kept with the actor (seen, page, candidate). *)
(* Two gaps between plain statements are steps as well, because what the    *)
(* code relies on lives in them: refresh and write at the end of prepare,   *)
(* and the count of open cases before a reviewer's commit.                  *)
(*                                                                         *)
(* A draft is the set of things it contains: edits researchers saved (by    *)
(* number) and what preparation found in each source.                       *)
(***************************************************************************)
EXTENDS Naturals, Sequences, FiniteSets

CONSTANTS
    Tabs,         \* browser tabs of the owner and collaborators
    Reviewers,    \* requests of reviewers
    Uploads,      \* files somebody may upload
    References,   \* the source reference given instead of files, if any
    Conditions,   \* conditions that call for a review
    Standing,     \* those that hang on accounts and claims as they stand
    Decisions,    \* decisions the engine can give here
    Slots,        \* PORTAL_WORKER_CONCURRENCY
    MaxEdits,     \* bound: edits saved
    MaxRevisions, \* bound: revisions confirmed
    MaxAttempts,  \* bound: evaluation attempts
    MaxFaults     \* bound: handlers that fail or die

Sources == Uploads \cup References

ASSUME ReferencesAssumption ==
    References \cap Uploads = {} /\ Cardinality(References) <= 1
ASSUME ConditionsAssumption == Standing \subseteq Conditions
ASSUME ContentAssumption == Sources \cap Nat = {}
ASSUME DecisionsAssumption ==
    Decisions \subseteq {"ACCEPTED", "RETURNED_FOR_REPAIR", "REJECTED"}
ASSUME LimitsAssumption ==
    /\ Slots \in Nat \ {0} /\ MaxEdits \in Nat /\ MaxRevisions \in Nat
    /\ MaxAttempts \in Nat /\ MaxFaults \in Nat

VARIABLES
    row,         \* the Submission row: state, draft_version, draft
    page,        \* page[t]: the draft a tab shows and the version it posts
    request,     \* request[t]: the request a tab is waiting for
    prep,        \* prep[s]: the preparation job of a source
    revision,    \* the frozen revisions, each with its review cases
    evaluation,  \* the evaluation attempts, in the order they were queued
    review,      \* review[v]: the resolution a reviewer is recording
    edits,       \* edits acknowledged so far
    opened,      \* their number when the draft was last opened by a repair
    reused,      \* a draft version has come to stand for two drafts
    twice,       \* two requests have stored the same file
    faults       \* faults so far

people == <<page, request, review>>
history == <<edits, opened, reused, twice>>
vars == <<row, page, request, prep, revision, evaluation, review, edits,
          opened, reused, twice, faults>>

-----------------------------------------------------------------------------
Transitions ==
    [draft |-> {"uploading", "preparing", "needs_review", "submitted"},
     uploading |-> {"preparing", "draft", "processing_unavailable"},
     preparing |-> {"needs_review", "draft", "processing_unavailable"},
     needs_review |-> {"draft", "submitted", "preparing"},
     submitted |-> {"evaluating", "review_needed", "processing_unavailable"},
     evaluating |-> {"review_needed", "needs_repair", "not_admitted",
                     "accepted_pending", "needs_review", "processing_unavailable"},
     review_needed |-> {"evaluating", "draft", "processing_unavailable"},
     needs_repair |-> {"draft", "evaluating"},
     not_admitted |-> {"draft", "evaluating"},
     accepted_pending |-> {"registered", "processing_unavailable", "evaluating"},
     processing_unavailable |-> {"draft", "preparing", "submitted", "evaluating",
                                 "accepted_pending", "needs_review"},
     registered |-> {"draft"}]

States == DOMAIN Transitions

Editable == {"draft", "needs_review"}

(* transition: staying is always allowed; anything else must be listed for  *)
(* the state the caller's object has, which need not be the row's.          *)
Permitted(from, to) == to = from \/ to \in Transitions[from]

(* The states in which a job that was queued earlier still prepares.        *)
Preparable == {"preparing", "uploading", "processing_unavailable"} \cup Editable

(* The states evaluate_revision turns into EVALUATING.                      *)
Evaluable == {"submitted", "review_needed", "processing_unavailable",
              "accepted_pending", "needs_repair", "not_admitted"}

Repairable == {"needs_repair", "not_admitted", "registered"}

DecisionToState(d) ==
    CASE d = "ACCEPTED" -> "accepted_pending"
      [] d = "RETURNED_FOR_REPAIR" -> "needs_repair"
      [] d = "REJECTED" -> "not_admitted"

-----------------------------------------------------------------------------
Content == Sources \cup 1..MaxEdits

SubmissionRow == [state: States, version: Nat, draft: SUBSET Content]

Page == [version: Nat, draft: SUBSET Content, checked: BOOLEAN]

NoPage == [version |-> 0, draft |-> {}, checked |-> FALSE]

(* begins: the state an upload has read is one it turns into PREPARING;     *)
(* latest: the revision a repair starts from.                               *)
Request == [at: {"idle", "saved", "repair", "upload"},
            begins: BOOLEAN, source: Uploads \cup {"none"}, latest: Nat]

Idle == [at |-> "idle", begins |-> FALSE, source |-> "none", latest |-> 0]

(* "started": start_preparation_from_reference has moved the state and not  *)
(* yet enqueued, two statements with nothing around them.                   *)
Prep == [step: {"none", "started", "queued", "reading", "writing", "done", "exhausted"},
         seen: States, version: Nat, candidate: SUBSET Content]

PrepAt(step) == [step |-> step, seen |-> "draft", version |-> 0, candidate |-> {}]

CaseStates == {"none", "open", "resolved", "returned"}

Revision == [version: Nat, record: SUBSET Content, shown: SUBSET Content,
             triggers: SUBSET Conditions, cases: [Conditions -> CaseStates]]

Evaluation == [revision: Nat, review: BOOLEAN,
               step: {"queued", "fetching", "engine", "recorded", "stopped", "exhausted"},
               seen: States, decision: Decisions \cup {"none"},
               publication: {"none", "pending", "verified", "abandoned"}]

QueuedEvaluation(r, withReview) ==
    [revision |-> r, review |-> withReview, step |-> "queued", seen |-> "draft",
     decision |-> "none", publication |-> "none"]

Review == [at: {"idle", "decide", "resolve"}, revision: Nat,
           condition: Conditions \cup {"none"}, seen: States, last: BOOLEAN]

NoReview == [at |-> "idle", revision |-> 0, condition |-> "none", seen |-> "draft",
             last |-> FALSE]

TypeOK ==
    /\ row \in SubmissionRow
    /\ page \in [Tabs -> Page]
    /\ request \in [Tabs -> Request]
    /\ prep \in [Sources -> Prep]
    /\ revision \in Seq(Revision)
    /\ evaluation \in Seq(Evaluation)
    /\ \A k \in DOMAIN evaluation : evaluation[k].revision \in DOMAIN revision
    /\ review \in [Reviewers -> Review]
    /\ edits \in 0..MaxEdits
    /\ opened \in 0..edits
    /\ reused \in BOOLEAN
    /\ twice \in BOOLEAN
    /\ faults \in 0..MaxFaults

-----------------------------------------------------------------------------
(* create_submission. *)
Init ==
    /\ row = [state |-> "draft", version |-> 1, draft |-> {}]
    /\ page = [t \in Tabs |-> NoPage]
    /\ request = [t \in Tabs |-> Idle]
    /\ prep = [s \in Sources |-> PrepAt("none")]
    /\ revision = <<>>
    /\ evaluation = <<>>
    /\ review = [v \in Reviewers |-> NoReview]
    /\ edits = 0
    /\ opened = 0
    /\ reused = FALSE
    /\ twice = FALSE
    /\ faults = 0

Move(state) == row' = [row EXCEPT !.state = state]

(* A worker slot is free. *)
SlotFree ==
    Cardinality({s \in Sources : prep[s].step \in {"reading", "writing"}})
      + Cardinality({k \in DOMAIN evaluation : evaluation[k].step \in {"fetching", "engine"}})
      < Slots

Fault == faults < MaxFaults /\ faults' = faults + 1

-----------------------------------------------------------------------------
(* Uploads and references.                                                  *)

(* new_submission without files. *)
StartFromReference(s) ==
    /\ row = [state |-> "draft", version |-> 1, draft |-> {}]
    /\ \A q \in Sources : prep[q].step = "none"
    /\ Move("preparing")
    /\ prep' = [prep EXCEPT ![s].step = "started"]
    /\ UNCHANGED <<people, revision, evaluation, history, faults>>

EnqueueFromReference(s) ==
    /\ prep[s].step = "started"
    /\ prep' = [prep EXCEPT ![s].step = "queued"]
    /\ UNCHANGED <<row, people, revision, evaluation, history, faults>>

(* register_upload: the checks of state and of a completed duplicate; then  *)
(* the bytes go to storage.                                                 *)
AskUpload(t, u) ==
    /\ request[t].at = "idle"
    /\ prep[u].step = "none"
    /\ row.state \in Editable \cup {"preparing", "uploading"}
    /\ request' = [request EXCEPT ![t] = [Idle EXCEPT !.at = "upload", !.source = u,
                                            !.begins = row.state # "preparing"]]
    /\ UNCHANGED <<row, page, prep, revision, evaluation, review, history, faults>>

(* enqueue, by a key made of the file's hash: a job that has succeeded or   *)
(* runs stays as it is, a dead one is revived.                              *)
Enqueued(p) == IF p.step \in {"none", "exhausted"} THEN PrepAt("queued") ELSE p

(* The end of its transaction. *)
Upload(t) ==
    LET u == request[t].source
    IN  /\ request[t].at = "upload"
        /\ request' = [request EXCEPT ![t] = Idle]
        /\ prep' = [prep EXCEPT ![u] = Enqueued(@)]
        /\ twice' = (twice \/ prep[u].step # "none")
        /\ IF request[t].begins THEN Move("preparing") ELSE UNCHANGED row
        /\ UNCHANGED <<page, revision, evaluation, review, edits, opened, reused, faults>>

-----------------------------------------------------------------------------
(* Preparation.                                                             *)

(* The uploads stored so far, and what a reference job adds.                *)
Stored(s) == {u \in Uploads : prep[u].step # "none"} \cup ({s} \cap References)

(* prepare reads the row, or returns at once when the revision is frozen.   *)
StartPreparing(s) ==
    /\ prep[s].step = "queued"
    /\ SlotFree
    /\ prep' = [prep EXCEPT ![s] =
                  IF row.state \in Preparable
                  THEN [step |-> "reading", seen |-> row.state, version |-> 0,
                        candidate |-> row.draft \cup Stored(s)]
                  ELSE PrepAt("done")]
    /\ UNCHANGED <<row, people, revision, evaluation, history, faults>>

(* An exception while it extracts: the state it read decides whether the    *)
(* row is moved or the failure is an IllegalTransition; both are retried.   *)
PreparationFails(s) ==
    /\ prep[s].step = "reading"
    /\ Fault
    /\ \E end \in {"queued", "exhausted"} : prep' = [prep EXCEPT ![s] = PrepAt(end)]
    /\ IF Permitted(prep[s].seen, "processing_unavailable")
          /\ prep[s].seen # "processing_unavailable"
       THEN Move("processing_unavailable")
       ELSE UNCHANGED row
    /\ UNCHANGED <<people, revision, evaluation, history>>

(* A worker dies, or an exception comes after the extraction. *)
PreparationDies(s) ==
    /\ prep[s].step \in {"reading", "writing"}
    /\ Fault
    /\ \E end \in {"queued", "exhausted"} : prep' = [prep EXCEPT ![s] = PrepAt(end)]
    /\ UNCHANGED <<row, people, revision, evaluation, history>>

(* submission.refresh_from_db(), without a lock. *)
Refresh(s) ==
    /\ prep[s].step = "reading"
    /\ prep' = [prep EXCEPT ![s].step = "writing", ![s].seen = row.state,
                            ![s].version = row.version]
    /\ UNCHANGED <<row, people, revision, evaluation, history, faults>>

Prepared_DraftsOnly(p) ==
    [state |-> IF p.seen \in {"draft", "uploading"} THEN "needs_review" ELSE row.state,
     version |-> p.version + 1,
     draft |-> p.candidate]

(* The row after the rest of the transaction. *)
Prepared(p) ==
    [state |-> IF p.seen \in Preparable \ {"needs_review"} THEN "needs_review" ELSE row.state,
     version |-> p.version + 1,
     draft |-> p.candidate]

(* The commit; a worker that dies after it leaves the job to run again.     *)
WritePrepared(s) ==
    /\ prep[s].step = "writing"
    /\ row' = Prepared(prep[s])
    /\ reused' = (reused \/ row.version # prep[s].version)
    /\ \/ prep' = [prep EXCEPT ![s] = PrepAt("done")] /\ UNCHANGED faults
       \/ prep' = [prep EXCEPT ![s] = PrepAt("queued")] /\ Fault
    /\ UNCHANGED <<people, revision, evaluation, edits, opened, twice>>

-----------------------------------------------------------------------------
(* Tabs.  save_draft and confirm_and_submit check that the state is         *)
(* editable on the object the request has read and lock the row later; a    *)
(* form can be posted the moment it is shown, so the check may pass then    *)
(* (Load), or later (Post) for a form whose version has been renewed.       *)

Load(t) ==
    LET shown == [version |-> row.version, draft |-> row.draft, checked |-> TRUE]
    IN  /\ request[t].at = "idle"
        /\ row.state \in Editable
        /\ page[t] # shown
        /\ page' = [page EXCEPT ![t] = shown]
        /\ UNCHANGED <<row, request, prep, revision, evaluation, review, history, faults>>

Post(t) ==
    /\ request[t].at = "idle"
    /\ page[t] # NoPage /\ ~page[t].checked
    /\ row.state \in Editable
    /\ page' = [page EXCEPT ![t].checked = TRUE]
    /\ UNCHANGED <<row, request, prep, revision, evaluation, review, history, faults>>

AskRepair(t) ==
    /\ request[t].at = "idle"
    /\ row.state \in Repairable
    /\ request' = [request EXCEPT ![t].at = "repair", ![t].latest = Len(revision)]
    /\ UNCHANGED <<row, page, prep, revision, evaluation, review, history, faults>>

Posted(t) == request[t].at = "idle" /\ page[t].checked

Current_Ignored(t) == page[t].version <= row.version

Current(t) == page[t].version = row.version

(* save_draft: the form holds what the tab shows and one more edit.         *)
Save(t) ==
    /\ Posted(t)
    /\ edits < MaxEdits
    /\ IF Current(t)
       THEN LET draft == page[t].draft \cup {edits + 1}
            IN  /\ row' = [row EXCEPT !.draft = draft, !.version = @ + 1]
                /\ page' = [page EXCEPT ![t].draft = draft, ![t].checked = FALSE]
                /\ request' = [request EXCEPT ![t].at = "saved"]
                /\ edits' = edits + 1
       ELSE /\ page' = [page EXCEPT ![t] = NoPage]       \* StaleDraft
            /\ UNCHANGED <<row, request, edits>>
    /\ UNCHANGED <<prep, revision, evaluation, review, opened, reused, twice, faults>>

(* autosave, and confirm after it has saved the answers to its questions:   *)
(* refresh_from_db, and the version of the row goes on with the tab.        *)
TakeVersion(t) ==
    /\ request[t].at = "saved"
    /\ request' = [request EXCEPT ![t] = Idle]
    /\ page' = [page EXCEPT ![t].version = row.version]
    /\ reused' = (reused \/ row.draft # page[t].draft)
    /\ UNCHANGED <<row, prep, revision, evaluation, review, edits, opened, twice, faults>>

Frozen(t, triggers) ==
    [version |-> row.version, record |-> row.draft, shown |-> page[t].draft,
     triggers |-> triggers, cases |-> [c \in Conditions |-> "none"]]

Confirmed_KeepsVersion == [row EXCEPT !.state = "submitted"]

Confirmed == [row EXCEPT !.state = "submitted", !.version = @ + 1]

FirstEvaluation_NextRevision == QueuedEvaluation(Len(revision) + 2, FALSE)

FirstEvaluation == QueuedEvaluation(Len(revision) + 1, FALSE)

(* confirm_and_submit.  A transition that is not permitted rolls everything *)
(* back.                                                                    *)
Confirm(t) ==
    /\ Posted(t)
    /\ IF Current(t) /\ Permitted(row.state, "submitted")
       THEN /\ Len(revision) < MaxRevisions
            /\ Len(evaluation) < MaxAttempts
            /\ \E triggers \in SUBSET (Conditions \ Standing) :
                  revision' = Append(revision, Frozen(t, triggers))
            /\ row' = Confirmed
            /\ evaluation' = Append(evaluation, FirstEvaluation)
       ELSE UNCHANGED <<row, revision, evaluation>>
    /\ page' = [page EXCEPT ![t] = NoPage]
    /\ UNCHANGED <<request, prep, review, history, faults>>

(* start_repair: a new draft from the revision that was the latest then.    *)
Repair(t) ==
    /\ request[t].at = "repair"
    /\ request' = [request EXCEPT ![t] = Idle]
    /\ IF Permitted(row.state, "draft")
       THEN /\ row' = [state |-> "draft", version |-> row.version + 1,
                       draft |-> revision[request[t].latest].record]
            /\ opened' = edits
       ELSE UNCHANGED <<row, opened>>
    /\ UNCHANGED <<page, prep, revision, evaluation, review, edits, reused, twice, faults>>

-----------------------------------------------------------------------------
(* Evaluation.                                                              *)

OpenCases(r) == {c \in Conditions : revision[r].cases[c] = "open"}

(* What review_triggers may find: a record without stated evidence or with  *)
(* an ambiguous version stays so, an open claim or a binding may come and   *)
(* go.  It is not asked once a case of the revision has been resolved.      *)
TriggerSets(r) ==
    IF \E c \in Conditions : revision[r].cases[c] = "resolved"
    THEN {{}}
    ELSE {revision[r].triggers \cup found : found \in SUBSET Standing}

SetStep(k, step) == evaluation' = [evaluation EXCEPT ![k].step = step, ![k].seen = "draft"]

(* RetryableError or any exception: the outbox tries again or gives up.     *)
Retried(k) == \E end \in {"queued", "exhausted"} : SetStep(k, end)

(* evaluate_revision up to its first network call. *)
StartEvaluation(k) ==
    LET e == evaluation[k]
        r == e.revision
    IN  /\ e.step = "queued"
        /\ SlotFree
        /\ \/ /\ ~e.review /\ OpenCases(r) # {}
              /\ SetStep(k, "stopped")
              /\ UNCHANGED <<row, revision>>
           \/ /\ ~e.review /\ OpenCases(r) = {}
              /\ \E triggers \in TriggerSets(r) \ {{}} :
                 IF Permitted(row.state, "review_needed")
                 THEN /\ revision' = [revision EXCEPT ![r].cases =
                            [c \in Conditions |-> IF c \in triggers /\ @[c] = "none"
                                                  THEN "open" ELSE @[c]]]
                      /\ Move("review_needed")
                      /\ SetStep(k, "stopped")
                 ELSE UNCHANGED <<row, revision>> /\ Retried(k)
           \/ /\ e.review \/ (OpenCases(r) = {} /\ {} \in TriggerSets(r))
              /\ evaluation' = [evaluation EXCEPT ![k].step = "fetching", ![k].seen = row.state]
              /\ UNCHANGED <<row, revision>>
        /\ UNCHANGED <<people, prep, history, faults>>

(* The default branch is fetched: the state that was read becomes           *)
(* EVALUATING, if it is one of those that may.                              *)
Evaluate(k) ==
    /\ evaluation[k].step = "fetching"
    /\ LET begins == evaluation[k].seen \in Evaluable
       IN  /\ IF begins THEN Move("evaluating") ELSE UNCHANGED row
           /\ evaluation' = [evaluation EXCEPT ![k].step = "engine",
                                ![k].seen = IF begins THEN "evaluating" ELSE @]
    /\ UNCHANGED <<people, prep, revision, history, faults>>

(* A worker dies, or a fetch or a reservation raises. *)
EvaluationDies(k) ==
    /\ evaluation[k].step \in {"fetching", "engine"}
    /\ Fault
    /\ Retried(k)
    /\ UNCHANGED <<row, people, prep, revision, history>>

(* _unavailable: the worker timed out or gave no result (retried), or the   *)
(* base itself is invalid (stopped).                                        *)
EvaluationUnavailable(k) ==
    LET seen == evaluation[k].seen
        permitted == Permitted(seen, "processing_unavailable")
    IN  /\ evaluation[k].step = "engine"
        /\ Fault
        /\ IF permitted /\ seen # "processing_unavailable"
           THEN Move("processing_unavailable")
           ELSE UNCHANGED row
        /\ Retried(k) \/ (permitted /\ SetStep(k, "stopped"))
        /\ UNCHANGED <<people, prep, revision, history>>

(* The proposed records do not validate: back to the researcher.            *)
EvaluationReturned(k) ==
    /\ evaluation[k].step = "engine"
    /\ IF Permitted(evaluation[k].seen, "needs_review")
       THEN /\ IF evaluation[k].seen = "needs_review" THEN UNCHANGED row ELSE Move("needs_review")
            /\ SetStep(k, "stopped")
       ELSE UNCHANGED row /\ Retried(k)
    /\ UNCHANGED <<people, prep, revision, history, faults>>

(* The recording transaction: attempt, publication and state together.      *)
RecordDecision(k, d) ==
    /\ evaluation[k].step = "engine"
    /\ IF Permitted(evaluation[k].seen, DecisionToState(d))
       THEN /\ Move(DecisionToState(d))
            /\ evaluation' = [evaluation EXCEPT ![k] =
                  [@ EXCEPT !.step = "recorded", !.seen = "draft", !.decision = d,
                            !.publication = "pending"]]
       ELSE UNCHANGED row /\ Retried(k)
    /\ UNCHANGED <<people, prep, revision, history, faults>>

-----------------------------------------------------------------------------
(* The publication of an attempt, as module Publication has it end.         *)

Registers_AnyDecision(k) == evaluation[k].decision # "none" /\ row.state = "accepted_pending"

Registers(k) == evaluation[k].decision = "ACCEPTED" /\ row.state = "accepted_pending"

(* _after_verified *)
Verify(k) ==
    /\ evaluation[k].publication = "pending"
    /\ evaluation' = [evaluation EXCEPT ![k].publication = "verified"]
    /\ IF Registers(k) THEN Move("registered") ELSE UNCHANGED row
    /\ UNCHANGED <<people, prep, revision, history, faults>>

(* _base_moved, with requeue_evaluation *)
Abandon(k) ==
    /\ evaluation[k].publication = "pending"
    /\ Len(evaluation) < MaxAttempts
    /\ evaluation' = Append([evaluation EXCEPT ![k].publication = "abandoned"],
                            QueuedEvaluation(evaluation[k].revision, FALSE))
    /\ UNCHANGED <<row, people, prep, revision, history, faults>>

-----------------------------------------------------------------------------
(* Reviewers.  The route fetches a case whatever its state; nothing in      *)
(* resolve_review_case asks whether it is still open.                       *)

AskReview(v, r, c) ==
    /\ review[v].at = "idle"
    /\ revision[r].cases[c] # "none"
    /\ review' = [review EXCEPT ![v] = [at |-> "decide", revision |-> r, condition |-> c,
                                        seen |-> row.state, last |-> FALSE]]
    /\ UNCHANGED <<row, page, request, prep, revision, evaluation, history, faults>>

SetCase(v, state) ==
    revision' = [revision EXCEPT ![review[v].revision].cases[review[v].condition] = state]

ReturnToResearcher(v) ==
    /\ review[v].at = "decide"
    /\ review' = [review EXCEPT ![v] = NoReview]
    /\ IF Permitted(review[v].seen, "draft")
       THEN /\ SetCase(v, "returned")
            /\ IF review[v].seen = "draft" THEN UNCHANGED row ELSE Move("draft")
       ELSE UNCHANGED <<row, revision>>
    /\ UNCHANGED <<page, request, prep, evaluation, history, faults>>

NoOtherOpen_Unasked(v) == review[v].condition \in OpenCases(review[v].revision)

(* Is any other case of the revision open?                                  *)
NoOtherOpen(v) == OpenCases(review[v].revision) \subseteq {review[v].condition}

(* Counted inside the transaction: another reviewer's resolution counts     *)
(* only once it has been committed.                                         *)
CountOpen(v) ==
    /\ review[v].at = "decide"
    /\ review' = [review EXCEPT ![v].at = "resolve",
                     ![v].last = NoOtherOpen(v)]
    /\ UNCHANGED <<row, page, request, prep, revision, evaluation, history, faults>>

Resolve(v) ==
    /\ review[v].at = "resolve"
    /\ review' = [review EXCEPT ![v] = NoReview]
    /\ SetCase(v, "resolved")
    /\ IF review[v].last
       THEN /\ Len(evaluation) < MaxAttempts
            /\ evaluation' = Append(evaluation, QueuedEvaluation(review[v].revision, TRUE))
       ELSE UNCHANGED evaluation
    /\ UNCHANGED <<row, page, request, prep, history, faults>>

-----------------------------------------------------------------------------
Next ==
    \/ \E s \in References : StartFromReference(s) \/ EnqueueFromReference(s)
    \/ \E t \in Tabs :
          \/ \E u \in Uploads : AskUpload(t, u)
          \/ Upload(t) \/ Load(t) \/ Post(t)
          \/ Save(t) \/ TakeVersion(t) \/ Confirm(t)
          \/ AskRepair(t) \/ Repair(t)
    \/ \E s \in Sources :
          StartPreparing(s) \/ PreparationFails(s) \/ PreparationDies(s)
            \/ Refresh(s) \/ WritePrepared(s)
    \/ \E k \in DOMAIN evaluation :
          \/ StartEvaluation(k) \/ Evaluate(k) \/ EvaluationDies(k)
          \/ EvaluationUnavailable(k) \/ EvaluationReturned(k)
          \/ \E d \in Decisions : RecordDecision(k, d)
          \/ Verify(k) \/ Abandon(k)
    \/ \E v \in Reviewers :
          \/ \E r \in DOMAIN revision, c \in Conditions : AskReview(v, r, c)
          \/ ReturnToResearcher(v) \/ CountOpen(v) \/ Resolve(v)

Spec == Init /\ [][Next]_vars

-----------------------------------------------------------------------------
(* Properties.                                                              *)

(* An edit leaves the draft only because a preparation that had not read it *)
(* is written, or because a repair starts over from the frozen record: as   *)
(* long as no version has been reused, two tabs never overwrite each other  *)
(* (save_draft, confirm_and_submit).                                        *)
TabsDoNotOverwrite ==
    [][\A e \in 1..MaxEdits :
          e \in row.draft /\ e \notin row'.draft /\ ~reused =>
             \/ \E s \in Sources : prep[s].step = "writing" /\ e \notin prep[s].candidate
             \/ \E t \in Tabs : request[t].at = "repair" /\ request'[t].at = "idle"]_vars

(* As long as no version has been reused, a revision freezes exactly what   *)
(* the confirming tab showed, and no draft is frozen twice: a second click, *)
(* or a second tab whose check passed early, finds the version advanced.    *)
FreezesWhatWasShown ==
    ~reused =>
       /\ \A r \in DOMAIN revision : revision[r].record = revision[r].shown
       /\ \A r, q \in DOMAIN revision : r # q => revision[r].version # revision[q].version

(* What the researcher reads is backed by a record: a decision state by a   *)
(* recorded decision, REGISTERED by an accepted attempt verified on the     *)
(* default branch, REVIEW_NEEDED by a case, whatever wrote the state over.  *)
StateIsBacked ==
    /\ \A d \in Decisions :
          row.state = DecisionToState(d) =>
             \E k \in DOMAIN evaluation : evaluation[k].decision = d
    /\ row.state = "registered" =>
          \E k \in DOMAIN evaluation :
             evaluation[k].decision = "ACCEPTED" /\ evaluation[k].publication = "verified"
    /\ row.state = "review_needed" =>
          \E r \in DOMAIN revision : \E c \in Conditions : revision[r].cases[c] # "none"

(* Two resolutions have each queued an evaluation of revision r, and a base  *)
(* that moved has queued one more.  Nothing in the code keeps these attempts *)
(* apart: one may open review cases while another is at work.               *)
Crowded(r) ==
    /\ \E k, j \in DOMAIN evaluation :
          k # j /\ \A i \in {k, j} : evaluation[i].review /\ evaluation[i].revision = r
    /\ \E k \in DOMAIN evaluation :
          evaluation[k].revision = r /\ evaluation[k].publication = "abandoned"

(* A submission never sits in PREPARING, SUBMITTED or EVALUATING with       *)
(* nothing under way that can move it: apart from exhausted jobs (an        *)
(* administrator sees them), from a request cut between its two statements  *)
(* ("started"), from a file that two requests stored at once, and, in       *)
(* EVALUATING, from an attempt that was started again and found a case      *)
(* which another attempt of a crowded revision had opened.                  *)
Attended ==
    /\ row.state = "preparing" /\ ~twice =>
          \E s \in Sources : prep[s].step \notin {"none", "done"}
    /\ row.state \in {"submitted", "evaluating"} =>
          \/ \E k \in DOMAIN evaluation :
                /\ evaluation[k].step \in {"queued", "fetching", "engine", "exhausted"}
                /\ row.state = "submitted" => evaluation[k].revision = Len(revision)
          \/ row.state = "evaluating" /\ \E r \in DOMAIN revision : Crowded(r)

(* A decision is recorded only when every review case its revision has had  *)
(* is resolved or returned, whether reviewers work side by side, one case   *)
(* is decided twice, or a moved base queues the attempt; only on a revision *)
(* where all of this comes together may it pass an open one                 *)
(* (resolve_review_case, evaluate_revision).                                *)
DecidedIsReviewed ==
    [][\A k \in DOMAIN evaluation :
          evaluation'[k].decision # evaluation[k].decision =>
             \/ OpenCases(evaluation[k].revision) = {}
             \/ Crowded(evaluation[k].revision)]_vars

(* docs/PORTAL_CONTRIBUTING.md:27: "Autosave protects against lost edits".  *)
(* Every edit acknowledged since the draft was last opened is in it.        *)
EditsSurvive == (opened + 1)..edits \subseteq row.draft

=============================================================================
