---------------------- MODULE SubmissionWorkflowProofs ----------------------
(***************************************************************************)
(* Theorems about SubmissionWorkflow, for every set of tabs, reviewers,      *)
(* uploads and conditions and every bound.                                  *)
(***************************************************************************)
EXTENDS SubmissionWorkflow, TLAPS

-----------------------------------------------------------------------------
(* The inductive invariant, in the order in which its parts rest on each     *)
(* other.                                                                   *)

(* The states of a submission that has been confirmed.                      *)
Confirmed_States == {"submitted", "evaluating", "review_needed", "needs_repair",
                     "not_admitted", "accepted_pending", "registered"}

(* What a confirmed submission, a repair and a review refer to exists.       *)
RevisionStands == row.state \in Confirmed_States => Len(revision) > 0

RepairStands ==
    \A t \in Tabs : request[t].at = "repair" => request[t].latest \in 1..Len(revision)

ReviewStands ==
    \A v \in Reviewers : review[v].at # "idle" =>
        /\ review[v].revision \in 1..Len(revision)
        /\ review[v].condition \in Conditions
        /\ revision[review[v].revision].cases[review[v].condition] # "none"

(* As long as no version has been reused, a version stands for one draft: a  *)
(* tab with the row's version shows the row's draft, no tab is ahead of the  *)
(* row, and every revision is behind it.                                    *)
VersionsRise ==
    /\ row.version > 0
    /\ ~reused =>
          /\ \A t \in Tabs :
                /\ page[t].version <= row.version
                /\ page[t].version = row.version => page[t].draft = row.draft
          /\ \A r \in DOMAIN revision :
                revision[r].version < row.version /\ revision[r].record = revision[r].shown
          /\ \A r, q \in DOMAIN revision : r # q => revision[r].version # revision[q].version

(* A decision and its publication belong to a recorded attempt.              *)
DecisionsAreRecorded ==
    \A k \in DOMAIN evaluation :
        evaluation[k].decision # "none" \/ evaluation[k].publication # "none" =>
           evaluation[k].step = "recorded"

(* An attempt that may still move the submission or queue another attempt.   *)
Alive(e) == e.step \in {"queued", "fetching", "engine"} \/ e.publication = "pending"

MovedBase(r) ==
    \E k \in DOMAIN evaluation :
        evaluation[k].revision = r /\ evaluation[k].publication = "abandoned"

Reviewed(r) == \E k \in DOMAIN evaluation : evaluation[k].revision = r /\ evaluation[k].review

TwiceReviewed(r) ==
    \E k, j \in DOMAIN evaluation :
        k # j /\ \A i \in {k, j} : evaluation[i].review /\ evaluation[i].revision = r

HadCase(r) == \E c \in Conditions : revision[r].cases[c] # "none"

(* Only a moved base gives a revision a second attempt without a review.     *)
SecondIsRequeued ==
    \A k, j \in DOMAIN evaluation :
        k # j /\ evaluation[k].revision = evaluation[j].revision
          /\ ~evaluation[k].review /\ ~evaluation[j].review => MovedBase(evaluation[k].revision)

(* Cases are opened by an attempt that stops there, and resolved before an   *)
(* attempt with a review is queued.                                         *)
CasesWereOpened ==
    /\ \A r \in DOMAIN revision : HadCase(r) =>
          \E k \in DOMAIN evaluation :
             /\ evaluation[k].revision = r /\ ~evaluation[k].review
             /\ evaluation[k].step = "stopped"
    /\ \A k \in DOMAIN evaluation : evaluation[k].review => HadCase(evaluation[k].revision)

(* Two attempts of a revision are alive together only after two resolutions; *)
(* one that is alive when the revision has had a case comes after one.       *)
AliveTogether ==
    \A k \in DOMAIN evaluation : Alive(evaluation[k]) =>
        /\ \A j \in DOMAIN evaluation :
              k # j /\ Alive(evaluation[j]) /\ evaluation[j].revision = evaluation[k].revision =>
                 TwiceReviewed(evaluation[k].revision)
        /\ HadCase(evaluation[k].revision) => Reviewed(evaluation[k].revision)

(* An attempt is alive beside an open case only on a crowded revision; and   *)
(* what a reviewer has counted is overtaken only where that can follow.      *)
OpenIsCrowded ==
    /\ \A k \in DOMAIN evaluation :
          Alive(evaluation[k]) /\ OpenCases(evaluation[k].revision) # {} =>
             Crowded(evaluation[k].revision)
    /\ \A v \in Reviewers :
          review[v].at = "resolve" /\ review[v].last /\ ~NoOtherOpen(v) =>
             Reviewed(review[v].revision) /\ MovedBase(review[v].revision)

(* The file a tab is storing is one there is.                                *)
UploadStands ==
    \A t \in Tabs : request[t].at = "upload" => request[t].source \in Uploads

(* What will move the submission out of PREPARING, SUBMITTED and EVALUATING: *)
(* by the state the job has read, not only by its being there.               *)
WillPrepare(p) ==
    \/ p.step \in {"started", "queued", "reading", "exhausted"}
    \/ p.step = "writing" /\ p.seen \in Preparable \ {"needs_review"}

PreparingIsAttended ==
    row.state = "preparing" /\ ~twice => \E s \in Sources : WillPrepare(prep[s])

WillEvaluate(e) ==
    \/ e.step \in {"queued", "exhausted"}
    \/ e.step = "fetching" /\ e.seen \in Evaluable \cup {"evaluating"}
    \/ e.step = "engine" /\ e.seen = "evaluating"

EvaluatingIsAttended ==
    row.state = "evaluating" =>
        \/ \E k \in DOMAIN evaluation : WillEvaluate(evaluation[k])
        \/ \E r \in DOMAIN revision : Crowded(r)

WillBegin(e) ==
    /\ e.revision = Len(revision) /\ ~e.review
    /\ e.step \in {"queued", "exhausted"} \/ (e.step = "fetching" /\ e.seen = "submitted")

SubmittedIsAttended ==
    row.state = "submitted" =>
        /\ \A c \in Conditions : revision[Len(revision)].cases[c] = "none"
        /\ \E k \in DOMAIN evaluation : WillBegin(evaluation[k])

Typed == TypeOK /\ RevisionStands /\ RepairStands /\ ReviewStands

Attempts == SecondIsRequeued /\ CasesWereOpened /\ AliveTogether /\ OpenIsCrowded

AttendedInv ==
    UploadStands /\ PreparingIsAttended /\ EvaluatingIsAttended /\ SubmittedIsAttended

-----------------------------------------------------------------------------
(* Sequences, and the sets the types are made of.                            *)

Steps == {"queued", "fetching", "engine", "recorded", "stopped", "exhausted"}

PrepSteps == {"none", "started", "queued", "reading", "writing", "done", "exhausted"}

LEMMA StatesAre ==
    States = {"draft", "uploading", "preparing", "needs_review", "submitted", "evaluating",
              "review_needed", "needs_repair", "not_admitted", "accepted_pending",
              "processing_unavailable", "registered"}
BY DEF States, Transitions

LEMMA SequenceUpdated ==
    ASSUME NEW S, NEW s \in Seq(S), NEW i \in DOMAIN s, NEW x \in S, NEW s2,
           s2 = [s EXCEPT ![i] = x]
    PROVE  /\ s2 \in Seq(S) /\ Len(s2) = Len(s) /\ DOMAIN s2 = DOMAIN s
           /\ \A j \in DOMAIN s : s2[j] = IF j = i THEN x ELSE s[j]
OBVIOUS

LEMMA SequenceAppended ==
    ASSUME NEW S, NEW s \in Seq(S), NEW x \in S, NEW s2, s2 = Append(s, x)
    PROVE  /\ s2 \in Seq(S) /\ Len(s2) = Len(s) + 1 /\ DOMAIN s2 = 1..(Len(s) + 1)
           /\ s2[Len(s) + 1] = x
           /\ \A j \in DOMAIN s : j \in DOMAIN s2 /\ j # Len(s) + 1 /\ s2[j] = s[j]
OBVIOUS

LEMMA DecisionStates ==
    ASSUME NEW d \in Decisions
    PROVE  /\ DecisionToState(d) \in {"accepted_pending", "needs_repair", "not_admitted"}
           /\ \A d2 \in Decisions : DecisionToState(d) = DecisionToState(d2) => d = d2
           /\ d \in {"ACCEPTED", "RETURNED_FOR_REPAIR", "REJECTED"}
BY DecisionsAssumption DEF DecisionToState

-----------------------------------------------------------------------------
(* What the actions do to one attempt.                                       *)

(* The attempt k with another step and another state read.                  *)
Stepped(k, step, seen) == [evaluation[k] EXCEPT !.step = step, !.seen = seen]

(* A handler has turned attempt k into e.                                    *)
Rebuilt(k, e) ==
    /\ e \in Evaluation
    /\ e.revision = evaluation[k].revision /\ e.review = evaluation[k].review
    /\ evaluation' = [evaluation EXCEPT ![k] = e]

LEMMA RebuiltChanges ==
    ASSUME TypeOK, NEW k \in DOMAIN evaluation, NEW e, Rebuilt(k, e)
    PROVE  /\ evaluation' \in Seq(Evaluation) /\ Len(evaluation') = Len(evaluation)
           /\ DOMAIN evaluation' = DOMAIN evaluation
           /\ evaluation'[k] = e
           /\ \A j \in DOMAIN evaluation : j # k => evaluation'[j] = evaluation[j]
           /\ \A j \in DOMAIN evaluation :
                 /\ evaluation'[j].revision = evaluation[j].revision
                 /\ evaluation'[j].review = evaluation[j].review
BY SequenceUpdated DEF TypeOK, Rebuilt

LEMMA SteppedIs ==
    ASSUME TypeOK, NEW k \in DOMAIN evaluation, NEW step \in Steps, NEW seen \in States
    PROVE  LET e == Stepped(k, step, seen)
           IN  /\ e \in Evaluation
               /\ e.revision = evaluation[k].revision /\ e.review = evaluation[k].review
               /\ e.step = step /\ e.seen = seen
               /\ e.decision = evaluation[k].decision
               /\ e.publication = evaluation[k].publication
<1>1. evaluation[k] \in Evaluation
  BY DEF TypeOK
<1> QED
  BY <1>1 DEF Stepped, Evaluation, Steps

LEMMA SetStepIs ==
    ASSUME TypeOK, NEW k \in DOMAIN evaluation, NEW step \in Steps, SetStep(k, step)
    PROVE  Rebuilt(k, Stepped(k, step, "draft"))
<1>1. "draft" \in States
  BY StatesAre
<1>2. evaluation[k] \in Evaluation /\ evaluation \in Seq(Evaluation)
  BY DEF TypeOK
<1>3. evaluation' = [evaluation EXCEPT ![k] = Stepped(k, step, "draft")]
  BY <1>2 DEF SetStep, Stepped, Evaluation
<1> QED
  BY <1>1, <1>3, SteppedIs DEF Rebuilt

(* evaluate_revision up to its first network call: it stops at an open case,  *)
(* opens cases, is refused by the transition, or goes on.                   *)
Stops(k) ==
    /\ ~evaluation[k].review /\ OpenCases(evaluation[k].revision) # {}
    /\ Rebuilt(k, Stepped(k, "stopped", "draft"))
    /\ UNCHANGED <<row, revision>>

Opened(r, triggers) ==
    [c \in Conditions |-> IF c \in triggers /\ revision[r].cases[c] = "none"
                          THEN "open" ELSE revision[r].cases[c]]

Opens(k, triggers) ==
    LET r == evaluation[k].revision
    IN  /\ ~evaluation[k].review /\ OpenCases(r) = {} /\ triggers # {}
        /\ revision' = [revision EXCEPT ![r] = [@ EXCEPT !.cases = Opened(r, triggers)]]
        /\ row' = [row EXCEPT !.state = "review_needed"]
        /\ Rebuilt(k, Stepped(k, "stopped", "draft"))

TriedAgain(k) == \E end \in {"queued", "exhausted"} : Rebuilt(k, Stepped(k, end, "draft"))

Begins(k) ==
    /\ evaluation[k].review \/ OpenCases(evaluation[k].revision) = {}
    /\ Rebuilt(k, Stepped(k, "fetching", row.state))
    /\ UNCHANGED <<row, revision>>

LEMMA RetriedIs ==
    ASSUME TypeOK, NEW k \in DOMAIN evaluation, Retried(k)
    PROVE  TriedAgain(k)
<1>1. PICK end \in {"queued", "exhausted"} : SetStep(k, end)
  BY DEF Retried
<1>2. Rebuilt(k, Stepped(k, end, "draft"))
  BY <1>1, SetStepIs DEF Steps
<1> QED
  BY <1>2 DEF TriedAgain

LEMMA RevisionTypes ==
    ASSUME TypeOK, NEW r \in DOMAIN revision
    PROVE  /\ revision[r] \in Revision
           /\ revision[r].triggers \subseteq Conditions
           /\ revision[r].cases \in [Conditions -> CaseStates]
<1>1. revision[r] \in Revision
  BY DEF TypeOK
<1> QED
  BY <1>1 DEF Revision

LEMMA StartEvaluationIs ==
    ASSUME TypeOK, NEW k \in DOMAIN evaluation, StartEvaluation(k)
    PROVE  /\ evaluation[k].step = "queued"
           /\ UNCHANGED <<page, request, prep, review, edits, opened, reused, twice, faults>>
           /\ \/ Stops(k)
              \/ \E triggers \in SUBSET Conditions : Opens(k, triggers)
              \/ TriedAgain(k) /\ UNCHANGED <<row, revision>>
              \/ Begins(k)
<1> DEFINE r == evaluation[k].revision
<1>1. r \in DOMAIN revision
  BY DEF TypeOK
<1>2. "stopped" \in Steps /\ "fetching" \in Steps
  BY DEF Steps
<1>3. /\ evaluation[k].step = "queued"
      /\ UNCHANGED <<page, request, prep, review, edits, opened, reused, twice, faults>>
  BY DEF StartEvaluation, people, history
<1>4. CASE ~evaluation[k].review /\ OpenCases(r) # {} /\ SetStep(k, "stopped") /\ UNCHANGED <<row, revision>>
  <2>1. Rebuilt(k, Stepped(k, "stopped", "draft"))
    BY <1>2, <1>4, SetStepIs
  <2> QED
    BY <1>3, <1>4, <2>1 DEF Stops
<1>5. ASSUME ~evaluation[k].review, OpenCases(r) = {}, NEW triggers \in TriggerSets(r) \ {{}},
             IF Permitted(row.state, "review_needed")
             THEN /\ revision' = [revision EXCEPT ![r].cases =
                        [c \in Conditions |-> IF c \in triggers /\ @[c] = "none"
                                              THEN "open" ELSE @[c]]]
                  /\ Move("review_needed")
                  /\ SetStep(k, "stopped")
             ELSE UNCHANGED <<row, revision>> /\ Retried(k)
      PROVE  \/ \E tr \in SUBSET Conditions : Opens(k, tr)
             \/ TriedAgain(k) /\ UNCHANGED <<row, revision>>
  <2>1. triggers \subseteq Conditions /\ triggers # {}
    BY <1>1, <1>5, RevisionTypes, ConditionsAssumption DEF TriggerSets
  <2>2. CASE Permitted(row.state, "review_needed")
    <3>1. Rebuilt(k, Stepped(k, "stopped", "draft"))
      BY <1>2, <1>5, <2>2, SetStepIs
    <3>2. revision' = [revision EXCEPT ![r] = [@ EXCEPT !.cases = Opened(r, triggers)]]
      BY <1>1, <1>5, <2>2 DEF Opened
    <3>3. row' = [row EXCEPT !.state = "review_needed"]
      BY <1>5, <2>2 DEF Move
    <3>4. Opens(k, triggers)
      BY <1>5, <2>1, <3>1, <3>2, <3>3 DEF Opens
    <3> QED
      BY <2>1, <3>4
  <2>3. CASE ~Permitted(row.state, "review_needed")
    BY <1>5, <2>3, RetriedIs
  <2> QED
    BY <2>2, <2>3
<1>6. CASE /\ evaluation[k].review \/ (OpenCases(r) = {} /\ {} \in TriggerSets(r))
           /\ evaluation' = [evaluation EXCEPT ![k].step = "fetching", ![k].seen = row.state]
           /\ UNCHANGED <<row, revision>>
  <2>1. row.state \in States /\ evaluation[k] \in Evaluation /\ evaluation \in Seq(Evaluation)
    BY DEF TypeOK, SubmissionRow
  <2>2. evaluation' = [evaluation EXCEPT ![k] = Stepped(k, "fetching", row.state)]
    BY <1>6, <2>1 DEF Stepped, Evaluation
  <2>3. Rebuilt(k, Stepped(k, "fetching", row.state))
    BY <1>2, <2>1, <2>2, SteppedIs DEF Rebuilt
  <2> QED
    BY <1>3, <1>6, <2>3 DEF Begins
<1> QED
  BY <1>3, <1>4, <1>5, <1>6 DEF StartEvaluation

LEMMA EvaluateIs ==
    ASSUME TypeOK, NEW k \in DOMAIN evaluation, Evaluate(k)
    PROVE  /\ evaluation[k].step = "fetching"
           /\ UNCHANGED <<page, request, review, prep, revision, edits, opened, reused, twice, faults>>
           /\ \/ /\ evaluation[k].seen \in Evaluable
                 /\ Rebuilt(k, Stepped(k, "engine", "evaluating"))
                 /\ row' = [row EXCEPT !.state = "evaluating"]
              \/ /\ evaluation[k].seen \notin Evaluable
                 /\ Rebuilt(k, Stepped(k, "engine", evaluation[k].seen))
                 /\ UNCHANGED row
<1>1. evaluation[k] \in Evaluation /\ evaluation \in Seq(Evaluation)
  BY DEF TypeOK
<1>2. "evaluating" \in States /\ evaluation[k].seen \in States /\ "engine" \in Steps
  BY <1>1, StatesAre DEF Evaluation, Steps
<1>3. CASE evaluation[k].seen \in Evaluable
  <2>1. evaluation' = [evaluation EXCEPT ![k] = Stepped(k, "engine", "evaluating")]
    BY <1>1, <1>3 DEF Evaluate, Stepped, Evaluation
  <2>2. Rebuilt(k, Stepped(k, "engine", "evaluating"))
    BY <1>2, <2>1, SteppedIs DEF Rebuilt
  <2> QED
    BY <1>3, <2>2 DEF Evaluate, Move, people, history
<1>4. CASE evaluation[k].seen \notin Evaluable
  <2>1. evaluation' = [evaluation EXCEPT ![k] = Stepped(k, "engine", evaluation[k].seen)]
    BY <1>1, <1>4 DEF Evaluate, Stepped, Evaluation
  <2>2. Rebuilt(k, Stepped(k, "engine", evaluation[k].seen))
    BY <1>2, <2>1, SteppedIs DEF Rebuilt
  <2> QED
    BY <1>4, <2>2 DEF Evaluate, people, history
<1> QED
  BY <1>3, <1>4

(* A worker that dies, an engine that gives no result, proposed records that *)
(* do not validate: the job is tried again, or stops after the row has      *)
(* moved, unless it had read the very state it moves to.                    *)
EvaluationFails(k, to) ==
    /\ evaluation[k].step \in {"fetching", "engine"}
    /\ UNCHANGED <<page, request, review, prep, revision, edits, opened, reused, twice>>
    /\ row' \in {row, [row EXCEPT !.state = to]}
    /\ \/ TriedAgain(k)
       \/ /\ Rebuilt(k, Stepped(k, "stopped", "draft"))
          /\ evaluation[k].step = "engine"
          /\ evaluation[k].seen # to => row' = [row EXCEPT !.state = to]

LEMMA EvaluationFailsIs ==
    ASSUME TypeOK, NEW k \in DOMAIN evaluation
    PROVE  /\ EvaluationDies(k) => EvaluationFails(k, "processing_unavailable") /\ faults' = faults + 1
                                     /\ faults < MaxFaults
           /\ EvaluationUnavailable(k) => EvaluationFails(k, "processing_unavailable")
                                     /\ faults' = faults + 1 /\ faults < MaxFaults
           /\ EvaluationReturned(k) => EvaluationFails(k, "needs_review") /\ UNCHANGED faults
<1>1. ASSUME SetStep(k, "stopped") PROVE Rebuilt(k, Stepped(k, "stopped", "draft"))
  BY <1>1, SetStepIs DEF Steps
<1>2. Retried(k) => TriedAgain(k)
  BY RetriedIs
<1>3. EvaluationDies(k) => EvaluationFails(k, "processing_unavailable") /\ faults' = faults + 1
                              /\ faults < MaxFaults
  BY <1>2 DEF EvaluationDies, EvaluationFails, Fault, people, history
<1>4. EvaluationUnavailable(k) => EvaluationFails(k, "processing_unavailable") /\ faults' = faults + 1
                                    /\ faults < MaxFaults
  BY <1>1, <1>2 DEF EvaluationUnavailable, EvaluationFails, Fault, Move, people, history
<1>5. EvaluationReturned(k) => EvaluationFails(k, "needs_review") /\ UNCHANGED faults
  BY <1>1, <1>2 DEF EvaluationReturned, EvaluationFails, Move, people, history
<1> QED
  BY <1>3, <1>4, <1>5

(* The attempt k with its decision recorded. *)
Recorded(k, d) ==
    [evaluation[k] EXCEPT !.step = "recorded", !.seen = "draft", !.decision = d,
                          !.publication = "pending"]

Published(k, end) == [evaluation[k] EXCEPT !.publication = end]

LEMMA RecordDecisionIs ==
    ASSUME TypeOK, NEW k \in DOMAIN evaluation, NEW d \in Decisions, RecordDecision(k, d)
    PROVE  /\ evaluation[k].step = "engine"
           /\ UNCHANGED <<page, request, review, prep, revision, edits, opened, reused, twice, faults>>
           /\ \/ /\ row' = [row EXCEPT !.state = DecisionToState(d)]
                 /\ Rebuilt(k, Recorded(k, d))
                 /\ Recorded(k, d).decision = d /\ Recorded(k, d).publication = "pending"
                 /\ Recorded(k, d).step = "recorded"
              \/ TriedAgain(k) /\ UNCHANGED row
<1>1. evaluation[k] \in Evaluation /\ evaluation \in Seq(Evaluation) /\ "draft" \in States
  BY StatesAre DEF TypeOK
<1>2. CASE Permitted(evaluation[k].seen, DecisionToState(d))
  <2>1. evaluation' = [evaluation EXCEPT ![k] = Recorded(k, d)]
    BY <1>1, <1>2 DEF RecordDecision, Recorded
  <2>2. /\ Recorded(k, d) \in Evaluation
        /\ Recorded(k, d).revision = evaluation[k].revision
        /\ Recorded(k, d).review = evaluation[k].review
        /\ Recorded(k, d).decision = d /\ Recorded(k, d).publication = "pending"
        /\ Recorded(k, d).step = "recorded"
    BY <1>1 DEF Recorded, Evaluation
  <2> QED
    BY <1>2, <2>1, <2>2 DEF RecordDecision, Rebuilt, Move, people, history
<1>3. CASE ~Permitted(evaluation[k].seen, DecisionToState(d))
  BY <1>3, RetriedIs DEF RecordDecision, people, history
<1> QED
  BY <1>2, <1>3

LEMMA PublishedIs ==
    ASSUME TypeOK, NEW k \in DOMAIN evaluation, NEW end \in {"verified", "abandoned"}
    PROVE  LET e == Published(k, end)
           IN  /\ e \in Evaluation
               /\ e.revision = evaluation[k].revision /\ e.review = evaluation[k].review
               /\ e.step = evaluation[k].step /\ e.seen = evaluation[k].seen
               /\ e.decision = evaluation[k].decision
               /\ e.publication = end
<1>1. evaluation[k] \in Evaluation
  BY DEF TypeOK
<1> QED
  BY <1>1 DEF Published, Evaluation

LEMMA VerifyIs ==
    ASSUME TypeOK, NEW k \in DOMAIN evaluation, Verify(k)
    PROVE  /\ evaluation[k].publication = "pending"
           /\ UNCHANGED <<page, request, review, prep, revision, edits, opened, reused, twice, faults>>
           /\ Rebuilt(k, Published(k, "verified"))
           /\ \/ row' = [row EXCEPT !.state = "registered"] /\ evaluation[k].decision = "ACCEPTED"
                   /\ row.state = "accepted_pending"
              \/ UNCHANGED row
<1>1. evaluation' = [evaluation EXCEPT ![k] = Published(k, "verified")]
  BY DEF Verify, Published, TypeOK
<1>2. Rebuilt(k, Published(k, "verified"))
  BY <1>1, PublishedIs DEF Rebuilt
<1> QED
  BY <1>2 DEF Verify, Registers, Move, people, history

(* A new attempt at the end of the queue.                                    *)
Queues(attempts, r, withReview) ==
    /\ evaluation' = Append(attempts, QueuedEvaluation(r, withReview))
    /\ Len(attempts) = Len(evaluation)

LEMMA QueuedIs ==
    ASSUME NEW r \in Nat, NEW b \in BOOLEAN
    PROVE  LET e == QueuedEvaluation(r, b)
           IN  /\ e \in Evaluation /\ e.revision = r /\ e.review = b /\ e.step = "queued"
               /\ e.seen = "draft" /\ e.decision = "none" /\ e.publication = "none"
BY StatesAre DEF QueuedEvaluation, Evaluation

LEMMA QueuesChanges ==
    ASSUME TypeOK, NEW attempts \in Seq(Evaluation), NEW r \in Nat, NEW b \in BOOLEAN,
           Queues(attempts, r, b)
    PROVE  /\ evaluation' \in Seq(Evaluation) /\ Len(evaluation') = Len(evaluation) + 1
           /\ DOMAIN evaluation' = 1..(Len(evaluation) + 1)
           /\ DOMAIN evaluation = 1..Len(evaluation) /\ Len(evaluation) \in Nat
           /\ evaluation'[Len(evaluation) + 1] = QueuedEvaluation(r, b)
           /\ \A j \in DOMAIN evaluation :
                 j \in DOMAIN evaluation' /\ j # Len(evaluation) + 1
                   /\ evaluation'[j] = attempts[j]
           /\ \A j \in DOMAIN evaluation' : j \in DOMAIN evaluation \/ j = Len(evaluation) + 1
<1>1. QueuedEvaluation(r, b) \in Evaluation
  BY QueuedIs
<1> QED
  BY <1>1, SequenceAppended DEF Queues, TypeOK

LEMMA AbandonIs ==
    ASSUME TypeOK, NEW k \in DOMAIN evaluation, Abandon(k)
    PROVE  LET attempts == [evaluation EXCEPT ![k] = Published(k, "abandoned")]
           IN  /\ evaluation[k].publication = "pending"
               /\ attempts \in Seq(Evaluation)
               /\ attempts[k] = Published(k, "abandoned")
               /\ \A j \in DOMAIN evaluation : j # k => attempts[j] = evaluation[j]
               /\ Queues(attempts, evaluation[k].revision, FALSE)
               /\ UNCHANGED <<row, page, request, prep, revision, review,
                              edits, opened, reused, twice, faults>>
<1> DEFINE attempts == [evaluation EXCEPT ![k] = Published(k, "abandoned")]
<1>1. [evaluation EXCEPT ![k].publication = "abandoned"] = attempts
  BY DEF Published, TypeOK
<1>2. Published(k, "abandoned") \in Evaluation
  BY PublishedIs
<1>3. evaluation \in Seq(Evaluation)
  BY DEF TypeOK
<1>4. /\ attempts \in Seq(Evaluation) /\ Len(attempts) = Len(evaluation)
      /\ attempts[k] = Published(k, "abandoned")
      /\ \A j \in DOMAIN evaluation : j # k => attempts[j] = evaluation[j]
  BY <1>2, <1>3, SequenceUpdated
<1> QED
  BY <1>1, <1>4 DEF Abandon, Queues, people, history

(* The case of a review gets another state.                                  *)
Decided(v, state) ==
    [revision[review[v].revision] EXCEPT !.cases =
        [@ EXCEPT ![review[v].condition] = state]]

LEMMA SetCaseIs ==
    ASSUME TypeOK, ReviewStands, NEW v \in Reviewers, review[v].at # "idle",
           NEW state \in {"resolved", "returned"}, SetCase(v, state)
    PROVE  LET r == review[v].revision
               c == review[v].condition
           IN  /\ r \in DOMAIN revision /\ c \in Conditions /\ revision[r].cases[c] # "none"
               /\ revision' \in Seq(Revision) /\ Len(revision') = Len(revision)
               /\ DOMAIN revision' = DOMAIN revision
               /\ \A q \in DOMAIN revision : q # r => revision'[q] = revision[q]
               /\ \A q \in DOMAIN revision :
                     /\ revision'[q].version = revision[q].version
                     /\ revision'[q].record = revision[q].record
                     /\ revision'[q].shown = revision[q].shown
                     /\ revision'[q].triggers = revision[q].triggers
                     /\ \A d \in Conditions :
                           revision'[q].cases[d] = IF q = r /\ d = c THEN state
                                                   ELSE revision[q].cases[d]
<1> DEFINE r == review[v].revision
           c == review[v].condition
           e == Decided(v, state)
<1>1. r \in DOMAIN revision /\ c \in Conditions /\ revision[r].cases[c] # "none"
  BY DEF ReviewStands, TypeOK
<1>2. revision[r] \in Revision /\ revision[r].cases \in [Conditions -> CaseStates]
  BY <1>1, RevisionTypes
<1>3. /\ e \in Revision
      /\ e.version = revision[r].version /\ e.record = revision[r].record
      /\ e.shown = revision[r].shown /\ e.triggers = revision[r].triggers
      /\ e.cases = [revision[r].cases EXCEPT ![c] = state]
  BY <1>1, <1>2 DEF Decided, Revision, CaseStates
<1>4. \A d \in Conditions : e.cases[d] = IF d = c THEN state ELSE revision[r].cases[d]
  BY <1>2, <1>3
<1>5. revision' = [revision EXCEPT ![r] = e]
  BY <1>1, <1>2 DEF SetCase, Decided, Revision
<1>6. revision \in Seq(Revision)
  BY DEF TypeOK
<1>7. /\ revision' \in Seq(Revision) /\ Len(revision') = Len(revision)
      /\ DOMAIN revision' = DOMAIN revision
      /\ \A q \in DOMAIN revision : revision'[q] = IF q = r THEN e ELSE revision[q]
  BY <1>1, <1>3, <1>5, <1>6, SequenceUpdated
<1> HIDE DEF e
<1> QED
  BY <1>1, <1>3, <1>4, <1>7

LEMMA ReturnIs ==
    ASSUME TypeOK, ReviewStands, NEW v \in Reviewers, ReturnToResearcher(v)
    PROVE  /\ review[v].at = "decide" /\ review' = [review EXCEPT ![v] = NoReview]
           /\ UNCHANGED <<page, request, prep, evaluation, edits, opened, reused, twice, faults>>
           /\ \/ SetCase(v, "returned") /\ row' \in {row, [row EXCEPT !.state = "draft"]}
              \/ UNCHANGED <<row, revision>>
BY DEF ReturnToResearcher, Move, history

LEMMA ResolveIs ==
    ASSUME TypeOK, NEW v \in Reviewers, Resolve(v)
    PROVE  /\ review[v].at = "resolve" /\ review' = [review EXCEPT ![v] = NoReview]
           /\ SetCase(v, "resolved")
           /\ UNCHANGED <<row, page, request, prep, edits, opened, reused, twice, faults>>
           /\ \/ review[v].last /\ Queues(evaluation, review[v].revision, TRUE)
              \/ ~review[v].last /\ UNCHANGED evaluation
BY DEF Resolve, Queues, history

LEMMA OpensRevision ==
    ASSUME TypeOK, NEW k \in DOMAIN evaluation, NEW triggers \in SUBSET Conditions,
           Opens(k, triggers)
    PROVE  LET r == evaluation[k].revision
           IN  /\ r \in DOMAIN revision
               /\ revision' \in Seq(Revision) /\ Len(revision') = Len(revision)
               /\ DOMAIN revision' = DOMAIN revision
               /\ \A q \in DOMAIN revision : q # r => revision'[q] = revision[q]
               /\ \A q \in DOMAIN revision :
                     /\ revision'[q].version = revision[q].version
                     /\ revision'[q].record = revision[q].record
                     /\ revision'[q].shown = revision[q].shown
                     /\ revision'[q].triggers = revision[q].triggers
                     /\ \A d \in Conditions : revision[q].cases[d] # "none" =>
                           revision'[q].cases[d] = revision[q].cases[d]
               /\ \E c \in Conditions : revision'[r].cases[c] # "none"
<1> DEFINE r == evaluation[k].revision
           e == [revision[r] EXCEPT !.cases = Opened(r, triggers)]
<1>1. r \in DOMAIN revision
  BY DEF TypeOK
<1>2. revision[r] \in Revision /\ revision[r].cases \in [Conditions -> CaseStates]
  BY <1>1, RevisionTypes
<1>3. Opened(r, triggers) \in [Conditions -> CaseStates]
  BY <1>2 DEF Opened, CaseStates
<1>4. /\ \A d \in Conditions : revision[r].cases[d] # "none" =>
            Opened(r, triggers)[d] = revision[r].cases[d]
      /\ \E c \in Conditions : Opened(r, triggers)[c] # "none"
  BY <1>2 DEF Opened, Opens
<1>5. /\ e \in Revision
      /\ e.version = revision[r].version /\ e.record = revision[r].record
      /\ e.shown = revision[r].shown /\ e.triggers = revision[r].triggers
      /\ e.cases = Opened(r, triggers)
  BY <1>2, <1>3 DEF Revision
<1>6. revision' = [revision EXCEPT ![r] = e] /\ revision \in Seq(Revision)
  BY <1>1 DEF Opens, TypeOK
<1>7. /\ revision' \in Seq(Revision) /\ Len(revision') = Len(revision)
      /\ DOMAIN revision' = DOMAIN revision
      /\ \A q \in DOMAIN revision : revision'[q] = IF q = r THEN e ELSE revision[q]
  BY <1>1, <1>5, <1>6, SequenceUpdated
<1> HIDE DEF e
<1> QED
  BY <1>1, <1>4, <1>5, <1>7

LEMMA ConfirmIs ==
    ASSUME TypeOK, NEW t \in Tabs, Confirm(t)
    PROVE  /\ Posted(t) /\ page' = [page EXCEPT ![t] = NoPage]
           /\ UNCHANGED <<request, prep, review, edits, opened, reused, twice, faults>>
           /\ \/ UNCHANGED <<row, revision, evaluation>>
              \/ /\ Current(t)
                 /\ row' = Confirmed
                 /\ Queues(evaluation, Len(revision) + 1, FALSE)
                 /\ revision' \in Seq(Revision) /\ Len(revision') = Len(revision) + 1
                 /\ DOMAIN revision' = 1..(Len(revision) + 1)
                 /\ DOMAIN revision = 1..Len(revision)
                 /\ \A q \in DOMAIN revision : revision'[q] = revision[q]
                 /\ \E triggers \in SUBSET Conditions :
                       revision'[Len(revision) + 1] = Frozen(t, triggers)
                 /\ \A c \in Conditions : revision'[Len(revision) + 1].cases[c] = "none"
<1>1. /\ Posted(t) /\ page' = [page EXCEPT ![t] = NoPage]
      /\ UNCHANGED <<request, prep, review, edits, opened, reused, twice, faults>>
  BY DEF Confirm, history
<1>2. CASE Current(t) /\ Permitted(row.state, "submitted")
  <2>1. PICK triggers \in SUBSET (Conditions \ Standing) :
            revision' = Append(revision, Frozen(t, triggers))
    BY <1>2 DEF Confirm
  <2>2. row \in SubmissionRow /\ page[t] \in Page /\ revision \in Seq(Revision)
    BY DEF TypeOK
  <2>3. Frozen(t, triggers) \in Revision
    BY <2>2 DEF Frozen, Revision, SubmissionRow, Page, CaseStates
  <2>4. \A c \in Conditions : Frozen(t, triggers).cases[c] = "none"
    BY DEF Frozen
  <2>5. /\ revision' \in Seq(Revision) /\ Len(revision') = Len(revision) + 1
        /\ DOMAIN revision' = 1..(Len(revision) + 1) /\ DOMAIN revision = 1..Len(revision)
        /\ \A q \in DOMAIN revision : revision'[q] = revision[q]
        /\ revision'[Len(revision) + 1] = Frozen(t, triggers)
    BY <2>1, <2>2, <2>3, SequenceAppended
  <2>6. Queues(evaluation, Len(revision) + 1, FALSE) /\ row' = Confirmed
    BY <1>2 DEF Confirm, Queues, FirstEvaluation
  <2>7. triggers \in SUBSET Conditions
    OBVIOUS
  <2> QED
    BY <1>1, <1>2, <2>4, <2>5, <2>6, <2>7
<1>3. CASE ~(Current(t) /\ Permitted(row.state, "submitted"))
  BY <1>1, <1>3 DEF Confirm
<1> QED
  BY <1>2, <1>3

-----------------------------------------------------------------------------
(* Types: everything refers to something that exists.                        *)

(* Types of all that tabs and preparation jobs write.                        *)
DraftTypes ==
    /\ row \in SubmissionRow /\ page \in [Tabs -> Page] /\ request \in [Tabs -> Request]
    /\ prep \in [Sources -> Prep]
    /\ edits \in 0..MaxEdits /\ opened \in 0..edits /\ reused \in BOOLEAN /\ twice \in BOOLEAN
    /\ faults \in 0..MaxFaults

(* Types of attempts, revisions and reviews.                                 *)
AttemptTypes ==
    /\ revision \in Seq(Revision) /\ evaluation \in Seq(Evaluation)
    /\ \A k \in DOMAIN evaluation : evaluation[k].revision \in DOMAIN revision
    /\ review \in [Reviewers -> Review]

LEMMA TypeParts == TypeOK <=> DraftTypes /\ AttemptTypes
BY DEF TypeOK, DraftTypes, AttemptTypes

LEMMA TypesNext ==
    ASSUME DraftTypes', AttemptTypes'
    PROVE  TypeOK'
BY DEF TypeOK, DraftTypes, AttemptTypes

LEMMA StateMoves ==
    ASSUME TypeOK, NEW state \in States, row' = [row EXCEPT !.state = state]
    PROVE  /\ row' \in SubmissionRow /\ row'.state = state
           /\ row'.version = row.version /\ row'.draft = row.draft
BY DEF TypeOK, SubmissionRow

LEMMA PrepAtIs ==
    ASSUME NEW step \in PrepSteps
    PROVE  PrepAt(step) \in Prep /\ PrepAt(step).step = step
BY StatesAre DEF PrepAt, Prep, PrepSteps

LEMMA IdleIs ==
    /\ Idle \in Request /\ Idle.at = "idle"
    /\ NoPage \in Page /\ NoReview \in Review /\ NoReview.at = "idle"
BY StatesAre DEF Idle, Request, NoPage, Page, NoReview, Review

(* An attempt exists, so a revision does.                                    *)
LEMMA AttemptHasRevision ==
    ASSUME TypeOK, NEW k \in DOMAIN evaluation
    PROVE  evaluation[k].revision \in 1..Len(revision) /\ Len(revision) > 0
BY DEF TypeOK

(* A draft's content.                                                       *)
LEMMA StoredIsContent ==
    ASSUME TypeOK, NEW s \in Sources
    PROVE  row.draft \cup Stored(s) \subseteq Content
BY DEF TypeOK, SubmissionRow, Stored, Content, Sources

LEMMA UploadSteps ==
    ASSUME Typed, NEW t \in Tabs, Upload(t) \/ (\E u \in Uploads : AskUpload(t, u))
    PROVE  Typed'
<1>1. "preparing" \in States
  BY StatesAre
<1>2. UNCHANGED <<revision, evaluation, review>>
  BY DEF Upload, AskUpload, history
<1>3. /\ Len(revision)' = Len(revision)
      /\ AttemptTypes' /\ ReviewStands'
  BY <1>2, TypeParts DEF Typed, AttemptTypes, ReviewStands
<1>4. CASE Upload(t)
  <2> DEFINE u == request[t].source
  <2>1. prep' = [prep EXCEPT ![u] = Enqueued(@)] /\ request' = [request EXCEPT ![t] = Idle]
    BY <1>4 DEF Upload
  <2>2. \A p \in Prep : Enqueued(p) \in Prep
    BY PrepAtIs DEF Enqueued, PrepSteps
  <2>3. prep' \in [Sources -> Prep] /\ request' \in [Tabs -> Request]
    BY <2>1, <2>2, IdleIs DEF Typed, TypeOK
  <2>4. row' \in SubmissionRow /\ row'.state \in {row.state, "preparing"}
    BY <1>1, <1>4, StateMoves DEF Upload, Move, Typed, TypeOK
  <2>5. DraftTypes'
    BY <1>4, <2>3, <2>4, TypeParts DEF Upload, Typed, DraftTypes
  <2>6. RepairStands'
    BY <1>2, <2>1, IdleIs DEF Typed, RepairStands, TypeOK
  <2>7. RevisionStands'
    BY <1>2, <2>4 DEF Typed, RevisionStands, Confirmed_States
  <2> QED
    BY <1>3, <2>5, <2>6, <2>7, TypesNext DEF Typed
<1>5. CASE \E u \in Uploads : AskUpload(t, u)
  <2>1. PICK u \in Uploads : AskUpload(t, u)
    BY <1>5
  <2> DEFINE q == [Idle EXCEPT !.at = "upload", !.source = u, !.begins = row.state # "preparing"]
  <2>2. q \in Request /\ q.at = "upload"
    BY DEF Idle, Request
  <2>3. request' = [request EXCEPT ![t] = q]
    BY <2>1 DEF AskUpload
  <2> HIDE DEF q
  <2>4. request' \in [Tabs -> Request] /\ RepairStands'
    BY <1>2, <2>2, <2>3 DEF Typed, TypeOK, RepairStands
  <2>5. DraftTypes' /\ RevisionStands'
    BY <2>1, <2>4, TypeParts DEF AskUpload, Typed, DraftTypes, history, RevisionStands
  <2> QED
    BY <1>3, <2>4, <2>5, TypesNext DEF Typed
<1> QED
  BY <1>4, <1>5

LEMMA TabSteps ==
    ASSUME Typed, NEW t \in Tabs,
           Load(t) \/ Post(t) \/ Save(t) \/ TakeVersion(t) \/ AskRepair(t) \/ Repair(t)
    PROVE  Typed'
<1>1. "draft" \in States
  BY StatesAre
<1>2. UNCHANGED <<revision, evaluation, review>>
  BY DEF Load, Post, Save, TakeVersion, AskRepair, Repair, history
<1>3. AttemptTypes' /\ ReviewStands'
  BY <1>2, TypeParts DEF Typed, AttemptTypes, ReviewStands
<1>4. row \in SubmissionRow /\ page[t] \in Page /\ request[t] \in Request
  BY DEF Typed, TypeOK
<1>5. CASE Load(t) \/ Post(t)
  <2>1. UNCHANGED <<row, request, prep, edits, opened, reused, twice, faults>>
    BY <1>5 DEF Load, Post, history
  <2>2. page' \in [Tabs -> Page]
    <3>1. CASE Load(t)
      <4>1. [version |-> row.version, draft |-> row.draft, checked |-> TRUE] \in Page
        BY <1>4 DEF SubmissionRow, Page
      <4> QED
        BY <3>1, <4>1 DEF Load, Typed, TypeOK
    <3>2. CASE Post(t)
      <4>1. [page[t] EXCEPT !.checked = TRUE] \in Page
        BY <1>4 DEF Page
      <4>2. page' = [page EXCEPT ![t] = [page[t] EXCEPT !.checked = TRUE]]
        BY <3>2 DEF Post, Typed, TypeOK
      <4> QED
        BY <4>1, <4>2 DEF Typed, TypeOK
    <3> QED
      BY <1>5, <3>1, <3>2
  <2>3. DraftTypes' /\ RevisionStands' /\ RepairStands'
    BY <1>2, <2>1, <2>2, TypeParts DEF Typed, DraftTypes, RevisionStands, RepairStands
  <2> QED
    BY <1>3, <2>3, TypesNext DEF Typed
<1>6. CASE Save(t)
  <2>1. UNCHANGED <<prep, opened, reused, twice, faults>>
    BY <1>6 DEF Save
  <2>2. CASE Current(t)
    <3> DEFINE d == page[t].draft \cup {edits + 1}
    <3>1. d \subseteq Content
      <4>1. edits + 1 \in 1..MaxEdits
        BY <1>6, LimitsAssumption DEF Save, Typed, TypeOK
      <4>2. page[t].draft \subseteq Content
        BY <1>4 DEF Page
      <4> QED
        BY <4>1, <4>2 DEF Content
    <3>0. /\ row' = [row EXCEPT !.draft = d, !.version = @ + 1]
          /\ page' = [page EXCEPT ![t].draft = d, ![t].checked = FALSE]
          /\ edits' = edits + 1 /\ edits < MaxEdits
      BY <1>6, <2>2 DEF Save
    <3> HIDE DEF d
    <3>2. row' \in SubmissionRow /\ row'.state = row.state /\ edits' = edits + 1 /\ edits < MaxEdits
      <4>1. row.version + 1 \in Nat /\ row.state \in States /\ DOMAIN row = {"state", "version", "draft"}
        BY <1>4 DEF SubmissionRow
      <4>2. row' = [state |-> row.state, version |-> row.version + 1, draft |-> d]
        BY <1>4, <3>0 DEF SubmissionRow
      <4> QED
        BY <3>1, <3>0, <4>1, <4>2 DEF SubmissionRow
    <3>3. page' \in [Tabs -> Page]
      <4>1. [page[t] EXCEPT !.draft = d, !.checked = FALSE] \in Page
        BY <1>4, <3>1 DEF Page
      <4>2. page' = [page EXCEPT ![t] = [page[t] EXCEPT !.draft = d, !.checked = FALSE]]
        BY <1>4, <3>0 DEF Typed, TypeOK, Page
      <4> QED
        BY <4>1, <4>2 DEF Typed, TypeOK
    <3>4. request' = [request EXCEPT ![t].at = "saved"]
      BY <1>6, <2>2 DEF Save
    <3>5. request' \in [Tabs -> Request] /\ RepairStands'
      BY <1>2, <1>4, <3>4 DEF Request, Typed, TypeOK, RepairStands
    <3>6. DraftTypes' /\ RevisionStands'
      BY <1>2, <2>1, <3>2, <3>3, <3>5, TypeParts, LimitsAssumption
         DEF Typed, DraftTypes, RevisionStands
    <3> QED
      BY <1>3, <3>5, <3>6, TypesNext DEF Typed
  <2>3. CASE ~Current(t)
    <3>1. page' = [page EXCEPT ![t] = NoPage] /\ UNCHANGED <<row, request, edits>>
      BY <1>6, <2>3 DEF Save
    <3>2. DraftTypes' /\ RevisionStands' /\ RepairStands'
      BY <1>2, <2>1, <3>1, IdleIs, TypeParts DEF Typed, DraftTypes, RevisionStands, RepairStands
    <3> QED
      BY <1>3, <3>2, TypesNext DEF Typed
  <2> QED
    BY <2>2, <2>3
<1>7. CASE TakeVersion(t)
  <2>1. request' = [request EXCEPT ![t] = Idle] /\ page' = [page EXCEPT ![t].version = row.version]
        /\ UNCHANGED <<row, prep, edits, opened, twice, faults>> /\ reused' \in BOOLEAN
    BY <1>7 DEF TakeVersion, Typed, TypeOK
  <2>2. page' \in [Tabs -> Page]
    BY <1>4, <2>1 DEF Typed, TypeOK, Page, SubmissionRow
  <2>3. request' \in [Tabs -> Request] /\ RepairStands'
    BY <1>2, <2>1, IdleIs DEF Typed, TypeOK, RepairStands
  <2>4. DraftTypes' /\ RevisionStands'
    BY <1>2, <2>1, <2>2, <2>3, TypeParts DEF Typed, DraftTypes, RevisionStands
  <2> QED
    BY <1>3, <2>3, <2>4, TypesNext DEF Typed
<1>8. CASE AskRepair(t)
  <2>1. request' = [request EXCEPT ![t].at = "repair", ![t].latest = Len(revision)]
        /\ UNCHANGED <<row, page, prep, edits, opened, reused, twice, faults>>
    BY <1>8 DEF AskRepair, history
  <2>2. row.state \in Confirmed_States
    BY <1>8 DEF AskRepair, Repairable, Confirmed_States
  <2>3. Len(revision) \in Nat /\ Len(revision) > 0
    BY <2>2 DEF Typed, TypeOK, RevisionStands
  <2>4. request' \in [Tabs -> Request] /\ RepairStands'
    <3> DEFINE q == [request[t] EXCEPT !.at = "repair", !.latest = Len(revision)]
    <3>1. q \in Request /\ q.latest = Len(revision)
      BY <1>4, <2>3 DEF Request
    <3>2. request' = [request EXCEPT ![t] = q]
      BY <1>4, <2>1 DEF Typed, TypeOK, Request
    <3> HIDE DEF q
    <3> QED
      BY <1>2, <2>3, <3>1, <3>2 DEF Typed, TypeOK, RepairStands
  <2>5. DraftTypes' /\ RevisionStands'
    BY <1>2, <2>1, <2>4, TypeParts DEF Typed, DraftTypes, RevisionStands
  <2> QED
    BY <1>3, <2>4, <2>5, TypesNext DEF Typed
<1>9. CASE Repair(t)
  <2>1. request' = [request EXCEPT ![t] = Idle]
        /\ UNCHANGED <<page, prep, edits, reused, twice, faults>>
    BY <1>9 DEF Repair
  <2>2. request' \in [Tabs -> Request] /\ RepairStands'
    BY <1>2, <2>1, IdleIs DEF Typed, TypeOK, RepairStands
  <2>3. request[t].latest \in DOMAIN revision
    BY <1>9 DEF Repair, Typed, TypeOK, RepairStands
  <2>4. revision[request[t].latest].record \subseteq Content
    <3>1. revision[request[t].latest] \in Revision
      BY <2>3, RevisionTypes DEF Typed
    <3> QED
      BY <3>1 DEF Revision
  <2>5. row' \in SubmissionRow /\ row'.state \in {row.state, "draft"} /\ opened' \in 0..edits
    BY <1>1, <1>4, <1>9, <2>4 DEF Repair, SubmissionRow, Typed, TypeOK
  <2>6. DraftTypes' /\ RevisionStands'
    BY <1>2, <2>1, <2>2, <2>5, TypeParts DEF Typed, DraftTypes, RevisionStands, Confirmed_States
  <2> QED
    BY <1>3, <2>2, <2>6, TypesNext DEF Typed
<1> QED
  BY <1>5, <1>6, <1>7, <1>8, <1>9

LEMMA PreparationSteps ==
    ASSUME Typed, NEW s \in Sources,
           \/ (s \in References /\ (StartFromReference(s) \/ EnqueueFromReference(s)))
           \/ StartPreparing(s) \/ PreparationFails(s) \/ PreparationDies(s)
           \/ Refresh(s) \/ WritePrepared(s)
    PROVE  Typed'
<1> USE DEF people, history
<1>1. UNCHANGED <<page, request, revision, evaluation, review, edits, opened, twice>>
  BY DEF StartFromReference, EnqueueFromReference, StartPreparing, PreparationFails,
         PreparationDies, Refresh, WritePrepared
<1>2. AttemptTypes' /\ ReviewStands' /\ RepairStands'
  BY <1>1, TypeParts DEF Typed, AttemptTypes, ReviewStands, RepairStands
<1>3. row \in SubmissionRow /\ prep \in [Sources -> Prep] /\ prep[s] \in Prep
  BY DEF Typed, TypeOK
<1>4. "preparing" \in States /\ "processing_unavailable" \in States /\ "needs_review" \in States
  BY StatesAre
<1>5. faults' \in 0..MaxFaults
  BY LimitsAssumption DEF Typed, TypeOK, Fault, StartFromReference, EnqueueFromReference,
         StartPreparing, PreparationFails, PreparationDies, Refresh, WritePrepared
<1>6. prep' \in [Sources -> Prep] /\ reused' \in BOOLEAN
  <2>1. CASE StartFromReference(s) \/ EnqueueFromReference(s)
    <3>1. \A step \in {"started", "queued"} : [prep[s] EXCEPT !.step = step] \in Prep
      BY <1>3 DEF Prep
    <3>2. \E step \in {"started", "queued"} : prep' = [prep EXCEPT ![s] = [prep[s] EXCEPT !.step = step]]
      BY <1>3, <2>1 DEF StartFromReference, EnqueueFromReference
    <3>3. UNCHANGED reused
      BY <2>1 DEF StartFromReference, EnqueueFromReference
    <3> QED
      BY <1>3, <3>1, <3>2, <3>3 DEF Typed, TypeOK
  <2>2. CASE StartPreparing(s)
    <3>1. row.draft \cup Stored(s) \subseteq Content
      BY StoredIsContent DEF Typed
    <3>2. [step |-> "reading", seen |-> row.state, version |-> 0,
           candidate |-> row.draft \cup Stored(s)] \in Prep
      BY <1>3, <3>1 DEF Prep, SubmissionRow
    <3>3. PrepAt("done") \in Prep
      BY PrepAtIs DEF PrepSteps
    <3> QED
      BY <1>3, <2>2, <3>2, <3>3 DEF StartPreparing, Typed, TypeOK
  <2>3. CASE PreparationFails(s) \/ PreparationDies(s)
    <3>1. PrepAt("queued") \in Prep /\ PrepAt("exhausted") \in Prep
      BY PrepAtIs DEF PrepSteps
    <3> QED
      BY <1>3, <2>3, <3>1 DEF PreparationFails, PreparationDies, Typed, TypeOK
  <2>4. CASE Refresh(s)
    BY <1>3, <2>4 DEF Refresh, Typed, TypeOK, Prep, SubmissionRow
  <2>5. CASE WritePrepared(s)
    <3>1. PrepAt("queued") \in Prep /\ PrepAt("done") \in Prep
      BY PrepAtIs DEF PrepSteps
    <3> QED
      BY <1>3, <2>5, <3>1 DEF WritePrepared, Typed, TypeOK
  <2> QED
    BY <2>1, <2>2, <2>3, <2>4, <2>5
<1>7. /\ row' \in SubmissionRow
      /\ row'.state \in {row.state, "preparing", "processing_unavailable", "needs_review"}
  <2>1. CASE StartFromReference(s) \/ EnqueueFromReference(s)
    BY <1>3, <1>4, <2>1, StateMoves DEF StartFromReference, EnqueueFromReference, Move, Typed
  <2>2. CASE StartPreparing(s) \/ PreparationDies(s) \/ Refresh(s)
    BY <1>3, <2>2 DEF StartPreparing, PreparationDies, Refresh
  <2>3. CASE PreparationFails(s)
    BY <1>3, <1>4, <2>3, StateMoves DEF PreparationFails, Move, Typed
  <2>4. CASE WritePrepared(s)
    BY <1>3, <1>4, <2>4 DEF WritePrepared, Prepared, SubmissionRow, Prep
  <2> QED
    BY <2>1, <2>2, <2>3, <2>4
<1>8. DraftTypes' /\ RevisionStands'
  BY <1>1, <1>5, <1>6, <1>7, TypeParts
     DEF Typed, DraftTypes, RevisionStands, Confirmed_States
<1> QED
  BY <1>2, <1>8, TypesNext DEF Typed

(* The rows of a submission an attempt can leave behind.                     *)
LEMMA RebuiltTypes ==
    ASSUME Typed, NEW k \in DOMAIN evaluation, NEW e, Rebuilt(k, e),
           UNCHANGED <<page, request, prep, review, edits, opened, reused, twice>>,
           row' \in SubmissionRow,
           revision' \in Seq(Revision), Len(revision') = Len(revision),
           \A q \in DOMAIN revision, c \in Conditions :
              revision[q].cases[c] # "none" => revision'[q].cases[c] # "none",
           faults' \in 0..MaxFaults
    PROVE  Typed'
<1>1. DOMAIN revision' = DOMAIN revision /\ DOMAIN revision = 1..Len(revision)
  BY DEF Typed, TypeOK
<1>2. Len(revision) > 0
  BY AttemptHasRevision DEF Typed
<1>3. AttemptTypes'
  <2>1. /\ evaluation' \in Seq(Evaluation) /\ DOMAIN evaluation' = DOMAIN evaluation
        /\ \A j \in DOMAIN evaluation : evaluation'[j].revision = evaluation[j].revision
    BY RebuiltChanges DEF Typed
  <2> QED
    BY <1>1, <2>1, TypeParts DEF Typed, AttemptTypes
<1>4. DraftTypes'
  BY TypeParts DEF Typed, DraftTypes
<1>5. RevisionStands' /\ RepairStands'
  BY <1>1, <1>2 DEF Typed, RevisionStands, RepairStands
<1>6. ReviewStands'
  BY <1>1 DEF Typed, ReviewStands
<1> QED
  BY <1>3, <1>4, <1>5, <1>6, TypesNext DEF Typed

LEMMA EvaluationSteps ==
    ASSUME Typed, NEW k \in DOMAIN evaluation,
           \/ StartEvaluation(k) \/ Evaluate(k) \/ EvaluationDies(k)
           \/ EvaluationUnavailable(k) \/ EvaluationReturned(k)
           \/ \E d \in Decisions : RecordDecision(k, d)
           \/ Verify(k)
    PROVE  Typed'
<1> USE DEF Typed
<1>1. row \in SubmissionRow /\ row.state \in States /\ faults \in 0..MaxFaults
      /\ revision \in Seq(Revision)
  BY DEF TypeOK, SubmissionRow
<1>2. \A state \in States : [row EXCEPT !.state = state] \in SubmissionRow
  BY <1>1 DEF SubmissionRow
<1>3. {"review_needed", "evaluating", "processing_unavailable", "needs_review", "registered",
       "accepted_pending", "needs_repair", "not_admitted"} \subseteq States
  BY StatesAre
<1>4. CASE StartEvaluation(k)
  <2>1. UNCHANGED <<page, request, prep, review, edits, opened, reused, twice, faults>>
    BY <1>4, StartEvaluationIs
  <2>2. CASE Stops(k)
    BY <1>1, <2>1, <2>2, RebuiltTypes DEF Stops
  <2>3. CASE \E triggers \in SUBSET Conditions : Opens(k, triggers)
    <3>1. PICK triggers \in SUBSET Conditions : Opens(k, triggers)
      BY <2>3
    <3>2. row' \in SubmissionRow
      BY <1>2, <1>3, <3>1 DEF Opens
    <3>3. Rebuilt(k, Stepped(k, "stopped", "draft"))
      BY <3>1 DEF Opens
    <3>4. /\ revision' \in Seq(Revision) /\ Len(revision') = Len(revision)
          /\ \A q \in DOMAIN revision, c \in Conditions :
                revision[q].cases[c] # "none" => revision'[q].cases[c] # "none"
      BY <3>1, OpensRevision
    <3> QED
      BY <1>1, <2>1, <3>2, <3>3, <3>4, RebuiltTypes
  <2>4. CASE TriedAgain(k) /\ UNCHANGED <<row, revision>>
    BY <1>1, <2>1, <2>4, RebuiltTypes DEF TriedAgain
  <2>5. CASE Begins(k)
    BY <1>1, <2>1, <2>5, RebuiltTypes DEF Begins
  <2> QED
    BY <1>4, <2>2, <2>3, <2>4, <2>5, StartEvaluationIs
<1>5. CASE Evaluate(k)
  <2>1. UNCHANGED <<page, request, prep, review, revision, edits, opened, reused, twice, faults>>
    BY <1>5, EvaluateIs
  <2>2. \E e : Rebuilt(k, e)
    BY <1>5, EvaluateIs
  <2>3. row' \in SubmissionRow
    BY <1>1, <1>2, <1>3, <1>5, EvaluateIs
  <2> QED
    BY <1>1, <2>1, <2>2, <2>3, RebuiltTypes
<1>6. CASE EvaluationDies(k) \/ EvaluationUnavailable(k) \/ EvaluationReturned(k)
  <2>1. /\ EvaluationFails(k, "processing_unavailable") \/ EvaluationFails(k, "needs_review")
        /\ faults' \in 0..MaxFaults
    BY <1>1, <1>6, EvaluationFailsIs, LimitsAssumption
  <2>2. /\ UNCHANGED <<page, request, prep, review, revision, edits, opened, reused, twice>>
        /\ row' \in SubmissionRow
    BY <1>1, <1>2, <1>3, <2>1 DEF EvaluationFails
  <2>3. \E e : Rebuilt(k, e)
    BY <2>1 DEF EvaluationFails, TriedAgain
  <2> QED
    BY <1>1, <2>1, <2>2, <2>3, RebuiltTypes
<1>7. CASE \E d \in Decisions : RecordDecision(k, d)
  <2>1. PICK d \in Decisions : RecordDecision(k, d)
    BY <1>7
  <2>2. UNCHANGED <<page, request, prep, review, revision, edits, opened, reused, twice, faults>>
    BY <2>1, RecordDecisionIs
  <2>3. \E e : Rebuilt(k, e)
    BY <2>1, RecordDecisionIs DEF TriedAgain
  <2>4. row' \in SubmissionRow
    BY <1>1, <1>2, <1>3, <2>1, RecordDecisionIs, DecisionStates
  <2> QED
    BY <1>1, <2>2, <2>3, <2>4, RebuiltTypes
<1>8. CASE Verify(k)
  <2>1. /\ UNCHANGED <<page, request, prep, review, revision, edits, opened, reused, twice, faults>>
        /\ Rebuilt(k, Published(k, "verified"))
    BY <1>8, VerifyIs
  <2>2. row' \in SubmissionRow
    BY <1>1, <1>2, <1>3, <1>8, VerifyIs
  <2> QED
    BY <1>1, <2>1, <2>2, RebuiltTypes
<1> QED
  BY <1>4, <1>5, <1>6, <1>7, <1>8

LEMMA AbandonSteps ==
    ASSUME Typed, NEW k \in DOMAIN evaluation, Abandon(k)
    PROVE  Typed'
<1> USE DEF Typed
<1> DEFINE attempts == [evaluation EXCEPT ![k] = Published(k, "abandoned")]
           r == evaluation[k].revision
<1>1. /\ attempts \in Seq(Evaluation) /\ attempts[k] = Published(k, "abandoned")
      /\ \A j \in DOMAIN evaluation : j # k => attempts[j] = evaluation[j]
      /\ Queues(attempts, r, FALSE)
      /\ UNCHANGED <<row, page, request, prep, revision, review, edits, opened, reused, twice, faults>>
  BY AbandonIs
<1>2. r \in DOMAIN revision /\ r \in Nat
  BY AttemptHasRevision DEF TypeOK
<1> HIDE DEF attempts
<1>3. /\ evaluation' \in Seq(Evaluation) /\ DOMAIN evaluation' = 1..(Len(evaluation) + 1)
      /\ DOMAIN evaluation = 1..Len(evaluation) /\ Len(evaluation) \in Nat
      /\ evaluation'[Len(evaluation) + 1] = QueuedEvaluation(r, FALSE)
      /\ \A j \in DOMAIN evaluation : evaluation'[j] = attempts[j]
      /\ \A j \in DOMAIN evaluation' : j \in DOMAIN evaluation \/ j = Len(evaluation) + 1
  BY <1>1, <1>2, QueuesChanges
<1>4. \A j \in DOMAIN evaluation : attempts[j].revision \in DOMAIN revision
  BY <1>1, PublishedIs DEF TypeOK
<1>5. \A j \in DOMAIN evaluation' : evaluation'[j].revision \in DOMAIN revision
  <2>1. QueuedEvaluation(r, FALSE).revision = r
    BY DEF QueuedEvaluation
  <2> QED
    BY <1>2, <1>3, <1>4, <2>1
<1>6. AttemptTypes' /\ DraftTypes'
  BY <1>1, <1>3, <1>5, TypeParts DEF AttemptTypes, DraftTypes
<1>7. RevisionStands' /\ RepairStands' /\ ReviewStands'
  BY <1>1 DEF RevisionStands, RepairStands, ReviewStands
<1> QED
  BY <1>6, <1>7, TypesNext

LEMMA ConfirmSteps ==
    ASSUME Typed, NEW t \in Tabs, Confirm(t)
    PROVE  Typed'
<1> USE DEF Typed
<1>1. /\ page' = [page EXCEPT ![t] = NoPage]
      /\ UNCHANGED <<request, prep, review, edits, opened, reused, twice, faults>>
  BY ConfirmIs
<1>2. page' \in [Tabs -> Page]
  BY <1>1, IdleIs DEF TypeOK
<1>3. CASE UNCHANGED <<row, revision, evaluation>>
  <2>1. AttemptTypes' /\ DraftTypes'
    BY <1>1, <1>2, <1>3, TypeParts DEF AttemptTypes, DraftTypes
  <2>2. RevisionStands' /\ RepairStands' /\ ReviewStands'
    BY <1>1, <1>3 DEF RevisionStands, RepairStands, ReviewStands
  <2> QED
    BY <2>1, <2>2, TypesNext
<1>4. CASE ~UNCHANGED <<row, revision, evaluation>>
  <2>1. /\ row' = Confirmed /\ Queues(evaluation, Len(revision) + 1, FALSE)
        /\ revision' \in Seq(Revision) /\ Len(revision') = Len(revision) + 1
        /\ DOMAIN revision' = 1..(Len(revision) + 1) /\ DOMAIN revision = 1..Len(revision)
        /\ \A q \in DOMAIN revision : revision'[q] = revision[q]
    BY <1>4, ConfirmIs
  <2>2. Len(revision) \in Nat /\ Len(revision) + 1 \in Nat /\ evaluation \in Seq(Evaluation)
    BY DEF TypeOK
  <2>3. /\ evaluation' \in Seq(Evaluation) /\ DOMAIN evaluation' = 1..(Len(evaluation) + 1)
        /\ DOMAIN evaluation = 1..Len(evaluation) /\ Len(evaluation) \in Nat
        /\ evaluation'[Len(evaluation) + 1] = QueuedEvaluation(Len(revision) + 1, FALSE)
        /\ \A j \in DOMAIN evaluation : evaluation'[j] = evaluation[j]
        /\ \A j \in DOMAIN evaluation' : j \in DOMAIN evaluation \/ j = Len(evaluation) + 1
    BY <2>1, <2>2, QueuesChanges
  <2>4. \A j \in DOMAIN evaluation : evaluation[j].revision \in DOMAIN revision'
    <3>1. \A j \in DOMAIN evaluation : evaluation[j].revision \in 1..Len(revision)
      BY <2>1 DEF TypeOK
    <3> QED
      BY <2>1, <2>2, <3>1
  <2>5. QueuedEvaluation(Len(revision) + 1, FALSE).revision \in DOMAIN revision'
    BY <2>1, <2>2 DEF QueuedEvaluation
  <2>6. \A j \in DOMAIN evaluation' : evaluation'[j].revision \in DOMAIN revision'
    BY <2>3, <2>4, <2>5
  <2>7. row' \in SubmissionRow
    <3>1. row \in SubmissionRow /\ "submitted" \in States
      BY StatesAre DEF TypeOK
    <3> QED
      <4>1. row.version + 1 \in Nat /\ row.draft \subseteq Content
        BY <3>1 DEF SubmissionRow
      <4>2. row' = [state |-> "submitted", version |-> row.version + 1, draft |-> row.draft]
        BY <2>1, <3>1 DEF Confirmed, SubmissionRow
      <4> QED
        BY <3>1, <4>1, <4>2 DEF SubmissionRow
  <2>8. AttemptTypes'
    BY <1>1, <2>1, <2>3, <2>6, TypeParts DEF AttemptTypes
  <2>9. DraftTypes'
    BY <1>1, <1>2, <2>7, TypeParts DEF DraftTypes
  <2>10. RevisionStands' /\ RepairStands' /\ ReviewStands'
    BY <1>1, <2>1, <2>2 DEF RevisionStands, RepairStands, ReviewStands
  <2> QED
    BY <2>8, <2>9, <2>10, TypesNext
<1> QED
  BY <1>3, <1>4

LEMMA ReviewSteps ==
    ASSUME Typed, NEW v \in Reviewers,
           \/ \E r \in DOMAIN revision, c \in Conditions : AskReview(v, r, c)
           \/ ReturnToResearcher(v) \/ CountOpen(v) \/ Resolve(v)
    PROVE  Typed'
<1> USE DEF Typed
<1>1. row \in SubmissionRow /\ row.state \in States /\ review \in [Reviewers -> Review]
      /\ review[v] \in Review /\ DOMAIN revision = 1..Len(revision) /\ Len(revision) \in Nat
  BY DEF TypeOK, SubmissionRow
<1>2. CASE \E r \in DOMAIN revision, c \in Conditions : AskReview(v, r, c)
  <2>1. PICK r \in DOMAIN revision, c \in Conditions : AskReview(v, r, c)
    BY <1>2
  <2> DEFINE e == [at |-> "decide", revision |-> r, condition |-> c, seen |-> row.state, last |-> FALSE]
  <2>2. e \in Review /\ e.revision = r /\ e.condition = c
    BY <1>1 DEF Review
  <2>3. review' = [review EXCEPT ![v] = e] /\ revision[r].cases[c] # "none"
        /\ UNCHANGED <<row, page, request, prep, revision, evaluation, edits, opened, reused, twice, faults>>
    BY <2>1 DEF AskReview, history
  <2> HIDE DEF e
  <2>4. AttemptTypes' /\ DraftTypes'
    BY <1>1, <2>2, <2>3, TypeParts DEF AttemptTypes, DraftTypes
  <2>5. RevisionStands' /\ RepairStands'
    BY <2>3 DEF RevisionStands, RepairStands
  <2>6. ReviewStands'
    BY <1>1, <2>2, <2>3 DEF ReviewStands
  <2> QED
    BY <2>4, <2>5, <2>6, TypesNext
<1>3. CASE CountOpen(v)
  <2> DEFINE e == [review[v] EXCEPT !.at = "resolve", !.last = NoOtherOpen(v)]
  <2>1. e \in Review /\ e.revision = review[v].revision /\ e.condition = review[v].condition
    BY <1>1 DEF Review, NoOtherOpen
  <2>2. review' = [review EXCEPT ![v] = e] /\ review[v].at # "idle"
        /\ UNCHANGED <<row, page, request, prep, revision, evaluation, edits, opened, reused, twice, faults>>
    BY <1>1, <1>3 DEF CountOpen, history, Review
  <2> HIDE DEF e
  <2>3. AttemptTypes' /\ DraftTypes'
    BY <1>1, <2>1, <2>2, TypeParts DEF AttemptTypes, DraftTypes
  <2>4. RevisionStands' /\ RepairStands'
    BY <2>2 DEF RevisionStands, RepairStands
  <2>5. ReviewStands'
    BY <1>1, <2>1, <2>2 DEF ReviewStands
  <2> QED
    BY <2>3, <2>4, <2>5, TypesNext
<1>4. CASE ReturnToResearcher(v)
  <2>1. /\ review[v].at = "decide" /\ review' = [review EXCEPT ![v] = NoReview]
        /\ UNCHANGED <<page, request, prep, evaluation, edits, opened, reused, twice, faults>>
        /\ \/ SetCase(v, "returned") /\ row' \in {row, [row EXCEPT !.state = "draft"]}
           \/ UNCHANGED <<row, revision>>
    BY <1>4, ReturnIs
  <2>2. /\ revision' \in Seq(Revision) /\ Len(revision') = Len(revision)
        /\ DOMAIN revision' = DOMAIN revision
        /\ \A q \in DOMAIN revision, c \in Conditions :
              revision[q].cases[c] # "none" => revision'[q].cases[c] # "none"
    <3>1. CASE SetCase(v, "returned")
      BY <2>1, <3>1, SetCaseIs
    <3>2. CASE UNCHANGED <<row, revision>>
      BY <3>2 DEF TypeOK
    <3> QED
      BY <2>1, <3>1, <3>2
  <2>3. row' \in SubmissionRow /\ (row'.state = row.state \/ row'.state = "draft")
    BY <1>1, <2>1, StatesAre DEF SubmissionRow
  <2>4. review' \in [Reviewers -> Review]
    BY <1>1, <2>1, IdleIs
  <2>5. AttemptTypes' /\ DraftTypes'
    BY <2>1, <2>2, <2>3, <2>4, TypeParts DEF AttemptTypes, DraftTypes
  <2>6. RevisionStands' /\ RepairStands'
    BY <2>1, <2>2, <2>3 DEF RevisionStands, RepairStands, Confirmed_States
  <2>7. ReviewStands'
    BY <1>1, <2>1, <2>2, IdleIs DEF ReviewStands
  <2> QED
    BY <2>5, <2>6, <2>7, TypesNext
<1>5. CASE Resolve(v)
  <2>1. /\ review[v].at = "resolve" /\ review' = [review EXCEPT ![v] = NoReview]
        /\ SetCase(v, "resolved")
        /\ UNCHANGED <<row, page, request, prep, edits, opened, reused, twice, faults>>
        /\ \/ review[v].last /\ Queues(evaluation, review[v].revision, TRUE)
           \/ UNCHANGED evaluation
    BY <1>5, ResolveIs
  <2>2. /\ revision' \in Seq(Revision) /\ Len(revision') = Len(revision)
        /\ DOMAIN revision' = DOMAIN revision /\ review[v].revision \in DOMAIN revision
        /\ \A q \in DOMAIN revision, c \in Conditions :
              revision[q].cases[c] # "none" => revision'[q].cases[c] # "none"
    BY <2>1, SetCaseIs
  <2>3. /\ evaluation' \in Seq(Evaluation)
        /\ \A j \in DOMAIN evaluation' : evaluation'[j].revision \in DOMAIN revision
    <3>1. evaluation \in Seq(Evaluation) /\ review[v].revision \in Nat
          /\ \A j \in DOMAIN evaluation : evaluation[j].revision \in DOMAIN revision
      BY <1>1, <2>2 DEF TypeOK
    <3>2. CASE Queues(evaluation, review[v].revision, TRUE)
      <4>1. QueuedEvaluation(review[v].revision, TRUE).revision = review[v].revision
        BY DEF QueuedEvaluation
      <4>2. /\ evaluation' \in Seq(Evaluation) /\ DOMAIN evaluation' = 1..(Len(evaluation) + 1)
            /\ DOMAIN evaluation = 1..Len(evaluation) /\ Len(evaluation) \in Nat
            /\ evaluation'[Len(evaluation) + 1] = QueuedEvaluation(review[v].revision, TRUE)
            /\ \A j \in DOMAIN evaluation : evaluation'[j] = evaluation[j]
            /\ \A j \in DOMAIN evaluation' : j \in DOMAIN evaluation \/ j = Len(evaluation) + 1
        BY <3>1, <3>2, QueuesChanges
      <4> QED
        BY <2>2, <3>1, <4>1, <4>2
    <3>3. CASE UNCHANGED evaluation
      BY <3>1, <3>3
    <3> QED
      BY <2>1, <3>2, <3>3
  <2>4. review' \in [Reviewers -> Review]
    BY <1>1, <2>1, IdleIs
  <2>5. AttemptTypes' /\ DraftTypes'
    BY <2>1, <2>2, <2>3, <2>4, TypeParts DEF AttemptTypes, DraftTypes
  <2>6. RevisionStands' /\ RepairStands'
    BY <2>1, <2>2 DEF RevisionStands, RepairStands
  <2>7. ReviewStands'
    BY <1>1, <2>1, <2>2, IdleIs DEF ReviewStands
  <2> QED
    BY <2>5, <2>6, <2>7, TypesNext
<1> QED
  BY <1>2, <1>3, <1>4, <1>5

LEMMA TypedStep ==
    ASSUME Typed, [Next]_vars
    PROVE  Typed'
<1>1. CASE UNCHANGED vars
  BY <1>1 DEF vars, Typed, TypeOK, RevisionStands, RepairStands, ReviewStands
<1>2. CASE Next
  BY <1>2, UploadSteps, TabSteps, PreparationSteps, EvaluationSteps, AbandonSteps, ConfirmSteps,
     ReviewSteps DEF Next, Sources
<1> QED
  BY <1>1, <1>2

LEMMA TypedInit == Init => Typed
<1> SUFFICES ASSUME Init PROVE Typed
  OBVIOUS
<1> USE DEF Init
<1>1. row \in SubmissionRow /\ row.state = "draft"
  BY StatesAre DEF SubmissionRow
<1>2. /\ page \in [Tabs -> Page] /\ request \in [Tabs -> Request]
      /\ review \in [Reviewers -> Review]
  BY IdleIs
<1>3. prep \in [Sources -> Prep]
  BY PrepAtIs DEF PrepSteps
<1>4. revision \in Seq(Revision) /\ evaluation \in Seq(Evaluation)
      /\ DOMAIN evaluation = {}
  OBVIOUS
<1>5. edits \in 0..MaxEdits /\ opened \in 0..edits /\ faults \in 0..MaxFaults
  BY LimitsAssumption
<1>6. TypeOK
  BY <1>1, <1>2, <1>3, <1>4, <1>5 DEF TypeOK
<1>7. RevisionStands /\ RepairStands /\ ReviewStands
  BY <1>1, IdleIs DEF RevisionStands, RepairStands, ReviewStands, Confirmed_States
<1> QED
  BY <1>6, <1>7 DEF Typed

LEMMA TypedHolds == Spec => []Typed
BY TypedInit, TypedStep, PTL DEF Spec

(* Every variable keeps its type, every attempt is of a revision that exists,*)
(* a repair starts from one that does, and a reviewer decides a case that    *)
(* was opened (TypeOK and the parts of Typed it rests on).                  *)
THEOREM TypeCorrect == Spec => []TypeOK
BY TypedHolds, PTL DEF Typed

-----------------------------------------------------------------------------
(* Versions and drafts.                                                      *)

(* Every step but a save, a renewal of the version, a confirmation, a repair *)
(* and the write of a preparation leaves the draft and its version alone.   *)
SameDraft == row'.version = row.version /\ row'.draft = row.draft

SameRevisions ==
    /\ DOMAIN revision' = DOMAIN revision
    /\ \A r \in DOMAIN revision :
          /\ revision'[r].version = revision[r].version
          /\ revision'[r].record = revision[r].record
          /\ revision'[r].shown = revision[r].shown

LEMMA RequestKeepsDraft ==
    ASSUME Typed, NEW t \in Tabs,
           Upload(t) \/ Load(t) \/ Post(t) \/ AskRepair(t) \/ \E u \in Uploads : AskUpload(t, u)
    PROVE  SameDraft /\ UNCHANGED <<revision, reused>>
BY DEF Typed, TypeOK, SubmissionRow, Upload, AskUpload, Load, Post, AskRepair, Move, history, SameDraft

LEMMA PreparationKeepsDraft ==
    ASSUME Typed, NEW s \in Sources,
           \/ StartFromReference(s) \/ EnqueueFromReference(s)
           \/ StartPreparing(s) \/ PreparationFails(s) \/ PreparationDies(s) \/ Refresh(s)
    PROVE  SameDraft /\ UNCHANGED <<page, revision, reused>>
BY DEF Typed, TypeOK, SubmissionRow, StartFromReference, EnqueueFromReference, StartPreparing,
       PreparationFails, PreparationDies, Refresh, Move, people, history, SameDraft

LEMMA StateMoveKeepsDraft ==
    ASSUME Typed, NEW state, row' \in {row, [row EXCEPT !.state = state]}
    PROVE  SameDraft
BY DEF Typed, TypeOK, SubmissionRow, SameDraft

LEMMA EvaluationKeepsDraft ==
    ASSUME Typed, NEW k \in DOMAIN evaluation,
           \/ StartEvaluation(k) \/ Evaluate(k) \/ EvaluationDies(k)
           \/ EvaluationUnavailable(k) \/ EvaluationReturned(k)
           \/ \E d \in Decisions : RecordDecision(k, d)
           \/ Verify(k) \/ Abandon(k)
    PROVE  SameDraft /\ SameRevisions /\ UNCHANGED <<page, reused>>
<1> USE DEF Typed
<1>1. CASE StartEvaluation(k)
  <2>1. UNCHANGED <<page, reused>>
    BY <1>1, StartEvaluationIs
  <2>2. CASE UNCHANGED <<row, revision>>
    BY <2>1, <2>2 DEF SameDraft, SameRevisions
  <2>3. CASE \E triggers \in SUBSET Conditions : Opens(k, triggers)
    <3>1. SameDraft
      BY <2>3, StateMoveKeepsDraft DEF Opens
    <3>2. SameRevisions
      BY <2>3, OpensRevision DEF SameRevisions
    <3> QED
      BY <2>1, <3>1, <3>2
  <2> QED
    BY <1>1, <2>2, <2>3, StartEvaluationIs DEF Stops, Begins
<1>2. CASE Evaluate(k)
  BY <1>2, EvaluateIs, StateMoveKeepsDraft DEF SameRevisions
<1>3. CASE EvaluationDies(k) \/ EvaluationUnavailable(k) \/ EvaluationReturned(k)
  BY <1>3, EvaluationFailsIs, StateMoveKeepsDraft DEF SameRevisions, EvaluationFails
<1>4. CASE \E d \in Decisions : RecordDecision(k, d)
  BY <1>4, RecordDecisionIs, StateMoveKeepsDraft DEF SameRevisions
<1>5. CASE Verify(k)
  BY <1>5, VerifyIs, StateMoveKeepsDraft DEF SameRevisions
<1>6. CASE Abandon(k)
  BY <1>6, AbandonIs DEF SameDraft, SameRevisions
<1> QED
  BY <1>1, <1>2, <1>3, <1>4, <1>5, <1>6

LEMMA ReviewKeepsDraft ==
    ASSUME Typed, NEW v \in Reviewers,
           \/ \E r \in DOMAIN revision, c \in Conditions : AskReview(v, r, c)
           \/ ReturnToResearcher(v) \/ CountOpen(v) \/ Resolve(v)
    PROVE  SameDraft /\ SameRevisions /\ UNCHANGED <<page, reused>>
<1> USE DEF Typed
<1>1. CASE CountOpen(v) \/ \E r \in DOMAIN revision, c \in Conditions : AskReview(v, r, c)
  BY <1>1 DEF CountOpen, AskReview, history, SameDraft, SameRevisions
<1>2. CASE ReturnToResearcher(v)
  <2>1. UNCHANGED <<page, reused>> /\ review[v].at # "idle"
    BY <1>2, ReturnIs
  <2>2. CASE UNCHANGED <<row, revision>>
    BY <2>1, <2>2 DEF SameDraft, SameRevisions
  <2>3. CASE SetCase(v, "returned") /\ row' \in {row, [row EXCEPT !.state = "draft"]}
    BY <2>1, <2>3, SetCaseIs, StateMoveKeepsDraft, SMTT(60) DEF SameRevisions
  <2> QED
    BY <1>2, <2>2, <2>3, ReturnIs
<1>3. CASE Resolve(v)
  <2>1. UNCHANGED <<row, page, reused>> /\ SetCase(v, "resolved") /\ review[v].at # "idle"
    BY <1>3, ResolveIs
  <2> QED
    BY <2>1, SetCaseIs DEF SameDraft, SameRevisions
<1> QED
  BY <1>1, <1>2, <1>3

(* The form a tab can post shows the draft of the version it posts.          *)
LEMMA PostedIsCurrent ==
    ASSUME Typed, VersionsRise, NEW t \in Tabs, Current(t), ~reused
    PROVE  page[t].draft = row.draft
BY DEF VersionsRise, Current

LEMMA FrameKeepsVersions ==
    ASSUME Typed, VersionsRise, SameDraft, SameRevisions, UNCHANGED <<page, reused>>
    PROVE  VersionsRise'
BY DEF VersionsRise, SameDraft, SameRevisions

(* A version that is new to the row is ahead of every tab and revision.      *)
LEMMA RisenVersion ==
    ASSUME Typed, VersionsRise, Typed', row'.version = row.version + 1, revision' = revision,
           reused' = reused,
           \A t \in Tabs : page'[t].version = page[t].version
    PROVE  VersionsRise'
<1>1. row.version \in Nat /\ \A t \in Tabs : page[t].version \in Nat
  BY DEF Typed, TypeOK, SubmissionRow, Page
<1>2. \A r \in DOMAIN revision : revision[r].version \in Nat
  BY RevisionTypes DEF Typed, Revision
<1> QED
  BY <1>1, <1>2 DEF VersionsRise

LEMMA VersionsStep ==
    ASSUME Typed, VersionsRise, [Next]_vars
    PROVE  VersionsRise'
<1>0. Typed'
  BY TypedStep
<1>1. row.version \in Nat /\ (\A t \in Tabs : page[t].version \in Nat)
      /\ page \in [Tabs -> Page] /\ row \in SubmissionRow /\ row.version > 0
  BY DEF Typed, TypeOK, SubmissionRow, Page, VersionsRise
<1>2. CASE UNCHANGED vars
  BY <1>2 DEF vars, VersionsRise
<1>3. ASSUME NEW t \in Tabs, Upload(t) \/ AskRepair(t) \/ \E u \in Uploads : AskUpload(t, u)
      PROVE  VersionsRise'
  <2>1. SameDraft /\ UNCHANGED <<page, revision, reused>>
    BY <1>3, RequestKeepsDraft DEF Upload, AskRepair, AskUpload
  <2> QED
    BY <2>1, FrameKeepsVersions DEF SameRevisions
<1>4. ASSUME NEW t \in Tabs, Load(t) \/ Post(t) PROVE VersionsRise'
  <2>1. UNCHANGED <<row, revision, reused>>
    BY <1>4 DEF Load, Post, history
  <2>2. \A q \in Tabs : \/ page'[q].version = page[q].version /\ page'[q].draft = page[q].draft
                        \/ page'[q].version = row.version /\ page'[q].draft = row.draft
    BY <1>1, <1>4 DEF Load, Post, Page
  <2> QED
    BY <1>1, <2>1, <2>2 DEF VersionsRise
<1>5. ASSUME NEW t \in Tabs, Save(t) PROVE VersionsRise'
  <2>1. UNCHANGED <<revision, reused>>
    BY <1>5 DEF Save
  <2>2. CASE Current(t)
    <3>1. row'.version = row.version + 1
      BY <1>1, <1>5, <2>2 DEF Save, SubmissionRow
    <3>2. \A q \in Tabs : page'[q].version = page[q].version
      BY <1>1, <1>5, <2>2 DEF Save, Page
    <3> QED
      BY <1>0, <2>1, <3>1, <3>2, RisenVersion
  <2>3. CASE ~Current(t)
    <3>1. page' = [page EXCEPT ![t] = NoPage] /\ UNCHANGED row
      BY <1>5, <2>3 DEF Save
    <3> QED
      BY <1>1, <2>1, <3>1 DEF VersionsRise, NoPage
  <2> QED
    BY <2>2, <2>3
<1>6. ASSUME NEW t \in Tabs, TakeVersion(t) PROVE VersionsRise'
  <2>1. /\ page' = [page EXCEPT ![t].version = row.version]
        /\ reused' = (reused \/ row.draft # page[t].draft) /\ UNCHANGED <<row, revision>>
    BY <1>6 DEF TakeVersion
  <2>2. /\ page'[t].version = row.version /\ page'[t].draft = page[t].draft
        /\ \A q \in Tabs : q # t => page'[q] = page[q]
    BY <1>1, <2>1 DEF Page
  <2>3. ~reused' => ~reused /\ row.draft = page[t].draft
    BY <2>1
  <2> QED
    BY <1>1, <2>1, <2>2, <2>3 DEF VersionsRise
<1>7. ASSUME NEW t \in Tabs, Confirm(t) PROVE VersionsRise'
  <2>1. page' = [page EXCEPT ![t] = NoPage] /\ UNCHANGED reused
    BY <1>7, ConfirmIs DEF Typed
  <2>2. /\ page'[t].version = 0
        /\ \A q \in Tabs : q # t => page'[q] = page[q]
    BY <1>1, <2>1 DEF NoPage
  <2>3. CASE UNCHANGED <<row, revision, evaluation>>
    BY <1>1, <2>1, <2>2, <2>3 DEF VersionsRise
  <2>4. CASE ~UNCHANGED <<row, revision, evaluation>>
    <3>1. /\ Current(t) /\ row' = Confirmed
          /\ DOMAIN revision' = 1..(Len(revision) + 1) /\ DOMAIN revision = 1..Len(revision)
          /\ \A q \in DOMAIN revision : revision'[q] = revision[q]
      BY <1>7, <2>4, ConfirmIs DEF Typed
    <3>2. PICK triggers \in SUBSET Conditions :
              revision'[Len(revision) + 1] = Frozen(t, triggers)
      BY <1>7, <2>4, ConfirmIs DEF Typed
    <3>3. /\ revision'[Len(revision) + 1].version = row.version
          /\ revision'[Len(revision) + 1].record = row.draft
          /\ revision'[Len(revision) + 1].shown = page[t].draft
      BY <3>2 DEF Frozen
    <3>4. row'.version = row.version + 1
      BY <1>1, <3>1 DEF Confirmed, SubmissionRow
    <3>5. \A r \in DOMAIN revision : revision[r].version \in Nat
      BY RevisionTypes DEF Typed, Revision
    <3>6. Len(revision) \in Nat
      BY DEF Typed, TypeOK
    <3>7. \A r \in DOMAIN revision' : r \in DOMAIN revision \/ r = Len(revision) + 1
      BY <3>1, <3>6
    <3>8. ASSUME ~reused' 
          PROVE  /\ \A q \in Tabs : page'[q].version < row'.version
                 /\ \A r \in DOMAIN revision' :
                       revision'[r].version < row'.version /\ revision'[r].record = revision'[r].shown
                 /\ \A r, q \in DOMAIN revision' : r # q => revision'[r].version # revision'[q].version
      <4>1. page[t].draft = row.draft /\ ~reused
        BY <2>1, <3>1, <3>8, PostedIsCurrent
      <4>2. \A r \in DOMAIN revision :
               revision[r].version < row.version /\ revision[r].record = revision[r].shown
        BY <4>1 DEF VersionsRise
      <4>3. \A q \in Tabs : page'[q].version < row'.version
        BY <1>1, <2>2, <3>4, <4>1 DEF VersionsRise
      <4>4. \A r, q \in DOMAIN revision : r # q => revision[r].version # revision[q].version
        BY <4>1 DEF VersionsRise
      <4>5. \A r \in DOMAIN revision' :
               revision'[r].version < row'.version /\ revision'[r].record = revision'[r].shown
        BY <1>1, <3>1, <3>3, <3>4, <3>5, <3>7, <4>1, <4>2
      <4>6. \A r, q \in DOMAIN revision' : r # q => revision'[r].version # revision'[q].version
        BY <1>1, <3>1, <3>3, <3>5, <3>7, <4>2, <4>4
      <4> QED
        BY <4>3, <4>5, <4>6
    <3>9. row'.version > 0
      BY <1>1, <3>4
    <3> QED
      BY <1>1, <2>2, <3>4, <3>8, <3>9 DEF VersionsRise
  <2> QED
    BY <2>3, <2>4
<1>8. ASSUME NEW t \in Tabs, Repair(t) PROVE VersionsRise'
  <2>1. UNCHANGED <<page, revision, reused>>
    BY <1>8 DEF Repair
  <2>2. CASE row' = row
    BY <2>1, <2>2 DEF VersionsRise
  <2>3. CASE row' # row
    BY <1>0, <1>8, <2>1, <2>3, RisenVersion DEF Repair
  <2> QED
    BY <2>2, <2>3
<1>9. ASSUME NEW s \in Sources,
             \/ StartFromReference(s) \/ EnqueueFromReference(s)
             \/ StartPreparing(s) \/ PreparationFails(s) \/ PreparationDies(s) \/ Refresh(s)
      PROVE  VersionsRise'
  BY <1>9, PreparationKeepsDraft, FrameKeepsVersions DEF SameRevisions
<1>10. ASSUME NEW s \in Sources, WritePrepared(s) PROVE VersionsRise'
  <2>1. /\ UNCHANGED <<page, revision>> /\ row'.version = prep[s].version + 1
        /\ reused' = (reused \/ row.version # prep[s].version)
    BY <1>10 DEF WritePrepared, Prepared, people
  <2>2. prep[s].version \in Nat
    BY DEF Typed, TypeOK, Prep
  <2>3. CASE reused'
    BY <2>1, <2>2, <2>3 DEF VersionsRise
  <2>4. CASE ~reused'
    <3>1. reused \in BOOLEAN
      BY DEF Typed, TypeOK
    <3>2. reused = FALSE /\ reused' = FALSE /\ row.version = prep[s].version
      BY <2>1, <2>4, <3>1
    <3> QED
      BY <1>0, <2>1, <3>2, RisenVersion
  <2> QED
    BY <2>3, <2>4
<1>11. ASSUME NEW k \in DOMAIN evaluation,
              \/ StartEvaluation(k) \/ Evaluate(k) \/ EvaluationDies(k)
              \/ EvaluationUnavailable(k) \/ EvaluationReturned(k)
              \/ \E d \in Decisions : RecordDecision(k, d)
              \/ Verify(k) \/ Abandon(k)
       PROVE  VersionsRise'
  BY <1>11, EvaluationKeepsDraft, FrameKeepsVersions
<1>12. ASSUME NEW v \in Reviewers,
              \/ \E r \in DOMAIN revision, c \in Conditions : AskReview(v, r, c)
              \/ ReturnToResearcher(v) \/ CountOpen(v) \/ Resolve(v)
       PROVE  VersionsRise'
  BY <1>12, ReviewKeepsDraft, FrameKeepsVersions
<1>13. CASE Next
  BY <1>3, <1>4, <1>5, <1>6, <1>7, <1>8, <1>9, <1>10, <1>11, <1>12, <1>13 DEF Next, Sources
<1> QED
  BY <1>2, <1>13

LEMMA VersionsHold == Spec => [](Typed /\ VersionsRise)
<1>1. Init => VersionsRise
  BY DEF Init, VersionsRise, NoPage
<1> QED
  BY <1>1, TypedInit, TypedStep, VersionsStep, PTL DEF Spec

(* Until a version has come to stand for two drafts, every revision freezes  *)
(* what the confirming tab showed, and no draft is frozen twice             *)
(* (confirm_and_submit).                                                    *)
THEOREM FreezesWhatWasShownHolds == Spec => []FreezesWhatWasShown
<1>1. VersionsRise => FreezesWhatWasShown
  BY DEF VersionsRise, FreezesWhatWasShown
<1> QED
  BY <1>1, VersionsHold, PTL

(* Until then an edit leaves the draft only by the write of a preparation    *)
(* that had not read it, or by a repair (save_draft, confirm_and_submit).   *)
THEOREM TabsDoNotOverwriteHolds == Spec => TabsDoNotOverwrite
<1> DEFINE Kept == \A e \in 1..MaxEdits :
              e \in row.draft /\ e \notin row'.draft /\ ~reused =>
                 \/ \E s \in Sources : prep[s].step = "writing" /\ e \notin prep[s].candidate
                 \/ \E t \in Tabs : request[t].at = "repair" /\ request'[t].at = "idle"
<1>1. ASSUME Typed, VersionsRise, [Next]_vars PROVE Kept
  <2>1. CASE row'.draft = row.draft
    BY <2>1
  <2>2. ASSUME NEW t \in Tabs, Save(t) PROVE Kept
    <3>1. CASE Current(t)
      <4>1. page[t].draft \subseteq row'.draft
        <5> DEFINE d == page[t].draft \cup {edits + 1}
        <5>1. row' = [row EXCEPT !.draft = d, !.version = @ + 1]
          BY <2>2, <3>1 DEF Save
        <5>2. row \in SubmissionRow /\ page[t].draft \subseteq d
          BY <1>1 DEF Typed, TypeOK
        <5> HIDE DEF d
        <5>3. row'.draft = d
          BY <5>1, <5>2 DEF SubmissionRow
        <5> QED
          BY <5>2, <5>3
      <4> QED
        BY <1>1, <3>1, <4>1, PostedIsCurrent
    <3>2. CASE ~Current(t)
      BY <2>2, <3>2 DEF Save
    <3> QED
      BY <3>1, <3>2
  <2>3. ASSUME NEW t \in Tabs, TakeVersion(t) \/ Confirm(t) PROVE Kept
    BY <1>1, <2>3, ConfirmIs DEF TakeVersion, Confirmed, Typed, TypeOK, SubmissionRow
  <2>4. ASSUME NEW t \in Tabs, Repair(t) PROVE Kept
    <3>1. request[t].at = "repair" /\ request'[t].at = "idle"
      BY <1>1, <2>4, IdleIs DEF Repair, Typed, TypeOK
    <3> QED
      BY <3>1
  <2>5. ASSUME NEW s \in Sources, WritePrepared(s) PROVE Kept
    BY <2>5 DEF WritePrepared, Prepared
  <2>6. CASE Next
    <3>1. ASSUME NEW t \in Tabs,
                 Upload(t) \/ Load(t) \/ Post(t) \/ AskRepair(t) \/ \E u \in Uploads : AskUpload(t, u)
          PROVE  row'.draft = row.draft
      BY <1>1, <3>1, RequestKeepsDraft DEF SameDraft
    <3>2. ASSUME NEW s \in Sources,
                 \/ StartFromReference(s) \/ EnqueueFromReference(s)
                 \/ StartPreparing(s) \/ PreparationFails(s) \/ PreparationDies(s) \/ Refresh(s)
          PROVE  row'.draft = row.draft
      BY <1>1, <3>2, PreparationKeepsDraft DEF SameDraft
    <3>3. ASSUME NEW k \in DOMAIN evaluation,
                 \/ StartEvaluation(k) \/ Evaluate(k) \/ EvaluationDies(k)
                 \/ EvaluationUnavailable(k) \/ EvaluationReturned(k)
                 \/ \E d \in Decisions : RecordDecision(k, d)
                 \/ Verify(k) \/ Abandon(k)
          PROVE  row'.draft = row.draft
      BY <1>1, <3>3, EvaluationKeepsDraft DEF SameDraft
    <3>4. ASSUME NEW v \in Reviewers,
                 \/ \E r \in DOMAIN revision, c \in Conditions : AskReview(v, r, c)
                 \/ ReturnToResearcher(v) \/ CountOpen(v) \/ Resolve(v)
          PROVE  row'.draft = row.draft
      BY <1>1, <3>4, ReviewKeepsDraft DEF SameDraft
    <3> HIDE DEF Kept
    <3> QED
      BY <2>1, <2>2, <2>3, <2>4, <2>5, <2>6, <3>1, <3>2, <3>3, <3>4 DEF Next, Sources
  <2>7. CASE UNCHANGED vars
    BY <2>1, <2>7 DEF vars
  <2> QED
    BY <1>1, <2>6, <2>7
<1> QED
  BY <1>1, VersionsHold, PTL DEF Spec, TabsDoNotOverwrite

-----------------------------------------------------------------------------
(* Attempts, decisions and what backs the state.                             *)

(* What no step takes from an attempt.                                       *)
Kept(j) ==
    /\ j \in DOMAIN evaluation'
    /\ evaluation'[j].revision = evaluation[j].revision
    /\ evaluation'[j].review = evaluation[j].review
    /\ evaluation[j].step = "stopped" => evaluation'[j].step = "stopped"
    /\ evaluation[j].decision # "none" => evaluation'[j].decision = evaluation[j].decision
    /\ evaluation[j].publication \in {"verified", "abandoned"} =>
          evaluation'[j].publication = evaluation[j].publication
    /\ Alive(evaluation'[j]) => Alive(evaluation[j])
    /\ evaluation'[j] = evaluation[j] \/ Alive(evaluation[j])

AttemptsAreKept == \A j \in DOMAIN evaluation : Kept(j)

CasesAreKept ==
    /\ DOMAIN revision \subseteq DOMAIN revision'
    /\ \A r \in DOMAIN revision, c \in Conditions :
          revision[r].cases[c] # "none" => revision'[r].cases[c] # "none"

(* A handler at work on attempt k has turned it into e.                      *)
Progress(k, e) ==
    /\ Rebuilt(k, e)
    /\ Alive(evaluation[k]) /\ evaluation[k].step # "stopped"
    /\ evaluation[k].publication \notin {"verified", "abandoned"}
    /\ evaluation[k].decision # "none" => e.decision = evaluation[k].decision
    /\ e.decision # "none" \/ e.publication # "none" => e.step = "recorded"

LEMMA SteppedProgress ==
    ASSUME Typed, DecisionsAreRecorded, NEW k \in DOMAIN evaluation, NEW step \in Steps,
           NEW seen \in States, evaluation[k].step \in {"queued", "fetching", "engine"},
           Rebuilt(k, Stepped(k, step, seen))
    PROVE  Progress(k, Stepped(k, step, seen))
<1>1. evaluation[k].decision = "none" /\ evaluation[k].publication = "none"
  BY DEF DecisionsAreRecorded
<1>2. Alive(evaluation[k])
  BY DEF Alive
<1>3. Stepped(k, step, seen).decision = "none" /\ Stepped(k, step, seen).publication = "none"
  BY <1>1, SteppedIs DEF Typed
<1> QED
  BY <1>1, <1>2, <1>3 DEF Progress

LEMMA EvaluationProgress ==
    ASSUME Typed, DecisionsAreRecorded, NEW k \in DOMAIN evaluation,
           \/ StartEvaluation(k) \/ Evaluate(k) \/ EvaluationDies(k)
           \/ EvaluationUnavailable(k) \/ EvaluationReturned(k)
           \/ \E d \in Decisions : RecordDecision(k, d)
           \/ Verify(k)
    PROVE  \E e : Progress(k, e)
<1> USE DEF Typed
<1>1. /\ {"stopped", "queued", "exhausted", "fetching", "engine"} \subseteq Steps
      /\ "draft" \in States /\ "evaluating" \in States
      /\ row.state \in States /\ evaluation[k].seen \in States
  <2>1. row \in SubmissionRow /\ evaluation[k] \in Evaluation
    BY DEF TypeOK
  <2>2. row.state \in States /\ evaluation[k].seen \in States
    BY <2>1 DEF SubmissionRow, Evaluation
  <2> QED
    BY <2>2, StatesAre DEF Steps
<1>2. ASSUME TriedAgain(k), evaluation[k].step \in {"queued", "fetching", "engine"}
      PROVE  \E e : Progress(k, e)
  BY <1>1, <1>2, SteppedProgress DEF TriedAgain
<1>3. CASE StartEvaluation(k)
  <2>1. evaluation[k].step = "queued"
    BY <1>3, StartEvaluationIs
  <2>2. \/ Rebuilt(k, Stepped(k, "stopped", "draft")) \/ TriedAgain(k)
        \/ Rebuilt(k, Stepped(k, "fetching", row.state))
    BY <1>3, StartEvaluationIs DEF Stops, Opens, Begins
  <2> QED
    BY <1>1, <1>2, <2>1, <2>2, SteppedProgress
<1>4. CASE Evaluate(k)
  <2>1. evaluation[k].step = "fetching"
    BY <1>4, EvaluateIs
  <2>2. \/ Rebuilt(k, Stepped(k, "engine", "evaluating"))
        \/ Rebuilt(k, Stepped(k, "engine", evaluation[k].seen))
    BY <1>4, EvaluateIs
  <2> QED
    BY <1>1, <2>1, <2>2, SteppedProgress
<1>5. CASE EvaluationDies(k) \/ EvaluationUnavailable(k) \/ EvaluationReturned(k)
  <2>1. /\ evaluation[k].step \in {"fetching", "engine"}
        /\ TriedAgain(k) \/ Rebuilt(k, Stepped(k, "stopped", "draft"))
    BY <1>5, EvaluationFailsIs DEF EvaluationFails
  <2> QED
    BY <1>1, <1>2, <2>1, SteppedProgress
<1>6. CASE \E d \in Decisions : RecordDecision(k, d)
  <2>1. PICK d \in Decisions : RecordDecision(k, d)
    BY <1>6
  <2>2. evaluation[k].step = "engine"
    BY <2>1, RecordDecisionIs
  <2>3. CASE TriedAgain(k)
    BY <1>2, <2>2, <2>3
  <2>4. CASE ~TriedAgain(k)
    <3>1. Rebuilt(k, Recorded(k, d)) /\ Recorded(k, d).step = "recorded"
      BY <2>1, <2>4, RecordDecisionIs
    <3>2. Alive(evaluation[k]) /\ evaluation[k].decision = "none" /\ evaluation[k].publication = "none"
      BY <2>2 DEF Alive, DecisionsAreRecorded
    <3>3. Progress(k, Recorded(k, d))
      BY <2>2, <3>1, <3>2 DEF Progress
    <3> QED
      BY <3>3
  <2> QED
    BY <2>3, <2>4
<1>7. CASE Verify(k)
  <2>1. evaluation[k].publication = "pending" /\ Rebuilt(k, Published(k, "verified"))
    BY <1>7, VerifyIs
  <2>2. evaluation[k].step = "recorded" /\ Alive(evaluation[k])
    BY <2>1 DEF DecisionsAreRecorded, Alive
  <2>3. Published(k, "verified").step = "recorded"
        /\ Published(k, "verified").decision = evaluation[k].decision
    BY <2>2, PublishedIs
  <2>4. Progress(k, Published(k, "verified"))
    BY <2>1, <2>2, <2>3 DEF Progress
  <2> QED
    BY <2>4
<1> QED
  BY <1>3, <1>4, <1>5, <1>6, <1>7

LEMMA ProgressKeeps ==
    ASSUME Typed, DecisionsAreRecorded, NEW k \in DOMAIN evaluation, NEW e, Progress(k, e)
    PROVE  AttemptsAreKept /\ DecisionsAreRecorded' /\ DOMAIN evaluation' = DOMAIN evaluation
<1>1. /\ DOMAIN evaluation' = DOMAIN evaluation /\ evaluation'[k] = e
      /\ \A j \in DOMAIN evaluation : j # k => evaluation'[j] = evaluation[j]
      /\ \A j \in DOMAIN evaluation :
            /\ evaluation'[j].revision = evaluation[j].revision
            /\ evaluation'[j].review = evaluation[j].review
  BY RebuiltChanges DEF Progress, Typed
<1>2. Kept(k)
  BY <1>1 DEF Kept, Progress
<1>3. \A j \in DOMAIN evaluation : j # k => Kept(j)
  BY <1>1 DEF Kept
<1>4. DecisionsAreRecorded'
  BY <1>1 DEF DecisionsAreRecorded, Progress
<1> QED
  BY <1>1, <1>2, <1>3, <1>4 DEF AttemptsAreKept

(* A new attempt at the end; the others are as they were, or a publication   *)
(* was abandoned.                                                           *)
LEMMA QueuesKeeps ==
    ASSUME Typed, DecisionsAreRecorded, NEW attempts \in Seq(Evaluation), NEW r \in Nat,
           NEW b \in BOOLEAN, Queues(attempts, r, b),
           \A j \in DOMAIN evaluation :
              \/ attempts[j] = evaluation[j]
              \/ evaluation[j].publication = "pending" /\ attempts[j] = Published(j, "abandoned")
    PROVE  AttemptsAreKept /\ DecisionsAreRecorded'
<1> DEFINE n == Len(evaluation) + 1
<1>1. /\ DOMAIN evaluation' = 1..n /\ DOMAIN evaluation = 1..Len(evaluation)
      /\ evaluation'[n] = QueuedEvaluation(r, b)
      /\ \A j \in DOMAIN evaluation : j \in DOMAIN evaluation' /\ evaluation'[j] = attempts[j]
      /\ \A j \in DOMAIN evaluation' : j \in DOMAIN evaluation \/ j = n
  BY QueuesChanges DEF Typed
<1>2. ASSUME NEW j \in DOMAIN evaluation
      PROVE  /\ Kept(j)
             /\ evaluation'[j].decision # "none" \/ evaluation'[j].publication # "none" =>
                   evaluation'[j].step = "recorded"
  <2>1. CASE attempts[j] = evaluation[j]
    BY <1>1, <2>1 DEF Kept, DecisionsAreRecorded
  <2>2. CASE evaluation[j].publication = "pending" /\ attempts[j] = Published(j, "abandoned")
    <3>1. /\ attempts[j].revision = evaluation[j].revision
          /\ attempts[j].review = evaluation[j].review
          /\ attempts[j].step = evaluation[j].step
          /\ attempts[j].decision = evaluation[j].decision
          /\ attempts[j].publication = "abandoned"
      BY <2>2, PublishedIs DEF Typed
    <3>2. evaluation[j].step = "recorded"
      BY <2>2 DEF DecisionsAreRecorded
    <3> QED
      BY <1>1, <2>2, <3>1, <3>2 DEF Kept, Alive
  <2> QED
    BY <2>1, <2>2
<1>3. QueuedEvaluation(r, b).decision = "none" /\ QueuedEvaluation(r, b).publication = "none"
  BY DEF QueuedEvaluation
<1>4. DecisionsAreRecorded'
  BY <1>1, <1>2, <1>3 DEF DecisionsAreRecorded
<1> QED
  BY <1>2, <1>4 DEF AttemptsAreKept

LEMMA SameAttempts ==
    ASSUME Typed, DecisionsAreRecorded, UNCHANGED evaluation
    PROVE  AttemptsAreKept /\ DecisionsAreRecorded'
BY DEF AttemptsAreKept, Kept, DecisionsAreRecorded

LEMMA AbandonKeeps ==
    ASSUME Typed, DecisionsAreRecorded, NEW k \in DOMAIN evaluation, Abandon(k)
    PROVE  AttemptsAreKept /\ DecisionsAreRecorded'
<1> DEFINE attempts == [evaluation EXCEPT ![k] = Published(k, "abandoned")]
           r == evaluation[k].revision
<1>1. /\ attempts \in Seq(Evaluation) /\ attempts[k] = Published(k, "abandoned")
      /\ \A j \in DOMAIN evaluation : j # k => attempts[j] = evaluation[j]
      /\ Queues(attempts, r, FALSE) /\ evaluation[k].publication = "pending"
  BY AbandonIs DEF Typed
<1>2. r \in Nat
  BY AttemptHasRevision DEF Typed, TypeOK
<1> HIDE DEF attempts
<1> QED
  BY <1>1, <1>2, QueuesKeeps

LEMMA KeptStep ==
    ASSUME Typed, DecisionsAreRecorded, [Next]_vars
    PROVE  AttemptsAreKept /\ CasesAreKept /\ DecisionsAreRecorded'
<1>1. ASSUME UNCHANGED evaluation, UNCHANGED revision
      PROVE  AttemptsAreKept /\ CasesAreKept /\ DecisionsAreRecorded'
  BY <1>1, SameAttempts DEF CasesAreKept
<1>2. CASE UNCHANGED vars
  BY <1>1, <1>2 DEF vars
<1>3. ASSUME NEW t \in Tabs,
             \/ Upload(t) \/ Load(t) \/ Post(t) \/ Save(t) \/ TakeVersion(t)
             \/ AskRepair(t) \/ Repair(t) \/ \E u \in Uploads : AskUpload(t, u)
      PROVE  UNCHANGED <<evaluation, revision>>
  BY <1>3 DEF Upload, AskUpload, Load, Post, Save, TakeVersion, AskRepair, Repair, history
<1>4. ASSUME NEW s \in Sources,
             \/ StartFromReference(s) \/ EnqueueFromReference(s) \/ StartPreparing(s)
             \/ PreparationFails(s) \/ PreparationDies(s) \/ Refresh(s) \/ WritePrepared(s)
      PROVE  UNCHANGED <<evaluation, revision>>
  BY <1>4 DEF StartFromReference, EnqueueFromReference, StartPreparing, PreparationFails,
              PreparationDies, Refresh, WritePrepared, people, history
<1>5. ASSUME NEW t \in Tabs, Confirm(t)
      PROVE  AttemptsAreKept /\ CasesAreKept /\ DecisionsAreRecorded'
  <2>1. CASE UNCHANGED <<row, revision, evaluation>>
    BY <1>1, <2>1
  <2>2. CASE ~UNCHANGED <<row, revision, evaluation>>
    <3>1. /\ Queues(evaluation, Len(revision) + 1, FALSE)
          /\ DOMAIN revision' = 1..(Len(revision) + 1) /\ DOMAIN revision = 1..Len(revision)
          /\ \A q \in DOMAIN revision : revision'[q] = revision[q]
      BY <1>5, <2>2, ConfirmIs DEF Typed
    <3>2. evaluation \in Seq(Evaluation) /\ Len(revision) \in Nat /\ Len(revision) + 1 \in Nat
      BY DEF Typed, TypeOK
    <3>3. CasesAreKept
      BY <3>1, <3>2 DEF CasesAreKept
    <3> QED
      BY <3>1, <3>2, <3>3, QueuesKeeps
  <2> QED
    BY <2>1, <2>2
<1>6. ASSUME NEW k \in DOMAIN evaluation,
             \/ StartEvaluation(k) \/ Evaluate(k) \/ EvaluationDies(k)
             \/ EvaluationUnavailable(k) \/ EvaluationReturned(k)
             \/ \E d \in Decisions : RecordDecision(k, d)
             \/ Verify(k)
      PROVE  AttemptsAreKept /\ CasesAreKept /\ DecisionsAreRecorded'
  <2>1. AttemptsAreKept /\ DecisionsAreRecorded'
    BY <1>6, EvaluationProgress, ProgressKeeps
  <2>2. \/ UNCHANGED revision
        \/ \E triggers \in SUBSET Conditions : Opens(k, triggers)
    BY <1>6, StartEvaluationIs, EvaluateIs, EvaluationFailsIs, RecordDecisionIs, VerifyIs
       DEF Typed, EvaluationFails, Stops, Begins
  <2>3. CasesAreKept
    BY <2>2, OpensRevision DEF CasesAreKept, Typed
  <2> QED
    BY <2>1, <2>3
<1>7. ASSUME NEW k \in DOMAIN evaluation, Abandon(k)
      PROVE  AttemptsAreKept /\ CasesAreKept /\ DecisionsAreRecorded'
  <2>1. UNCHANGED revision
    BY <1>7, AbandonIs DEF Typed
  <2> QED
    BY <1>7, <2>1, AbandonKeeps DEF CasesAreKept
<1>8. ASSUME NEW v \in Reviewers,
             \/ \E r \in DOMAIN revision, c \in Conditions : AskReview(v, r, c)
             \/ CountOpen(v)
      PROVE  UNCHANGED <<evaluation, revision>>
  BY <1>8 DEF AskReview, CountOpen
<1>9. ASSUME NEW v \in Reviewers, ReturnToResearcher(v)
      PROVE  AttemptsAreKept /\ CasesAreKept /\ DecisionsAreRecorded'
  <2>1. UNCHANGED evaluation /\ review[v].at # "idle"
        /\ (SetCase(v, "returned") \/ UNCHANGED revision)
    BY <1>9, ReturnIs DEF Typed
  <2>2. CasesAreKept
    BY <2>1, SetCaseIs DEF CasesAreKept, Typed
  <2> QED
    BY <2>1, <2>2, SameAttempts
<1>10. ASSUME NEW v \in Reviewers, Resolve(v)
       PROVE  AttemptsAreKept /\ CasesAreKept /\ DecisionsAreRecorded'
  <2>1. /\ SetCase(v, "resolved") /\ review[v].at # "idle"
        /\ Queues(evaluation, review[v].revision, TRUE) \/ UNCHANGED evaluation
    BY <1>10, ResolveIs DEF Typed
  <2>2. CasesAreKept /\ review[v].revision \in DOMAIN revision
    BY <2>1, SetCaseIs DEF CasesAreKept, Typed
  <2>3. evaluation \in Seq(Evaluation) /\ review[v].revision \in Nat
    BY <2>2 DEF Typed, TypeOK
  <2>4. CASE Queues(evaluation, review[v].revision, TRUE)
    BY <2>2, <2>3, <2>4, QueuesKeeps
  <2> QED
    BY <2>1, <2>2, <2>4, SameAttempts
<1>11. CASE Next
  BY <1>1, <1>3, <1>4, <1>5, <1>6, <1>7, <1>8, <1>9, <1>10, <1>11 DEF Next, Sources
<1> QED
  BY <1>2, <1>11

(* The states a step can move the row to, with what the step leaves behind.  *)
PlainStates == {"draft", "preparing", "needs_review", "submitted", "evaluating",
                "processing_unavailable"}

StateWritten ==
    \/ row'.state \in {row.state} \cup PlainStates
    \/ /\ row'.state = "review_needed"
       /\ \E r \in DOMAIN revision', c \in Conditions : revision'[r].cases[c] # "none"
    \/ \E d \in Decisions : /\ row'.state = DecisionToState(d)
                            /\ \E k \in DOMAIN evaluation' : evaluation'[k].decision = d
    \/ /\ row'.state = "registered"
       /\ \E k \in DOMAIN evaluation' :
             evaluation'[k].decision = "ACCEPTED" /\ evaluation'[k].publication = "verified"

LEMMA StateStep ==
    ASSUME Typed, DecisionsAreRecorded, [Next]_vars
    PROVE  StateWritten
<1> USE DEF Typed
<1>1. row \in SubmissionRow
  BY DEF TypeOK
<1>2. \A state : [row EXCEPT !.state = state].state = state
  BY <1>1 DEF SubmissionRow
<1>3. CASE UNCHANGED vars
  BY <1>3 DEF vars, StateWritten
<1>4. ASSUME NEW t \in Tabs,
             \/ Upload(t) \/ Load(t) \/ Post(t) \/ Save(t) \/ TakeVersion(t) \/ Confirm(t)
             \/ AskRepair(t) \/ Repair(t) \/ \E u \in Uploads : AskUpload(t, u)
      PROVE  row'.state \in {row.state, "preparing", "draft", "submitted"}
  <2>1. CASE Upload(t) \/ Load(t) \/ Post(t) \/ TakeVersion(t) \/ AskRepair(t) \/ \E u \in Uploads : AskUpload(t, u)
    BY <1>2, <2>1 DEF Upload, Load, Post, TakeVersion, AskRepair, AskUpload, Move, history
  <2>2. CASE Save(t)
    BY <1>1, <2>2 DEF Save, SubmissionRow
  <2>3. CASE Confirm(t)
    <3>1. UNCHANGED row \/ row' = [row EXCEPT !.state = "submitted", !.version = @ + 1]
      BY <2>3, ConfirmIs DEF Confirmed
    <3> QED
      BY <1>1, <3>1 DEF SubmissionRow
  <2>4. CASE Repair(t)
    BY <2>4 DEF Repair
  <2> QED
    BY <1>4, <2>1, <2>2, <2>3, <2>4
<1>5. ASSUME NEW s \in Sources,
             \/ StartFromReference(s) \/ EnqueueFromReference(s) \/ StartPreparing(s)
             \/ PreparationFails(s) \/ PreparationDies(s) \/ Refresh(s) \/ WritePrepared(s)
      PROVE  row'.state \in {row.state, "preparing", "processing_unavailable", "needs_review"}
  <2>1. CASE WritePrepared(s)
    BY <2>1 DEF WritePrepared, Prepared
  <2>2. CASE ~WritePrepared(s)
    BY <1>2, <1>5, <2>2 DEF StartFromReference, EnqueueFromReference, StartPreparing,
       PreparationFails, PreparationDies, Refresh, Move
  <2> QED
    BY <2>1, <2>2
<1>6. ASSUME NEW k \in DOMAIN evaluation, StartEvaluation(k) PROVE StateWritten
  <2>1. CASE UNCHANGED row
    BY <2>1 DEF StateWritten
  <2>2. CASE \E triggers \in SUBSET Conditions : Opens(k, triggers)
    <3>1. row'.state = "review_needed"
      BY <1>2, <2>2 DEF Opens
    <3>2. \E r \in DOMAIN revision', c \in Conditions : revision'[r].cases[c] # "none"
      BY <2>2, OpensRevision
    <3> QED
      BY <3>1, <3>2 DEF StateWritten
  <2> QED
    BY <1>6, <2>1, <2>2, StartEvaluationIs DEF Stops, Begins
<1>7. ASSUME NEW k \in DOMAIN evaluation,
             \/ Evaluate(k) \/ EvaluationDies(k) \/ EvaluationUnavailable(k) \/ EvaluationReturned(k)
      PROVE  row'.state \in {row.state, "evaluating", "processing_unavailable", "needs_review"}
  BY <1>2, <1>7, EvaluateIs, EvaluationFailsIs DEF EvaluationFails
<1>8. ASSUME NEW k \in DOMAIN evaluation, NEW d \in Decisions, RecordDecision(k, d)
      PROVE  StateWritten
  <2>1. CASE UNCHANGED row
    BY <2>1 DEF StateWritten
  <2>2. CASE row' = [row EXCEPT !.state = DecisionToState(d)] /\ Rebuilt(k, Recorded(k, d))
             /\ Recorded(k, d).decision = d
    <3>1. evaluation'[k].decision = d /\ k \in DOMAIN evaluation'
      BY <2>2, RebuiltChanges
    <3>2. row'.state = DecisionToState(d)
      BY <1>2, <2>2
    <3> QED
      BY <3>1, <3>2 DEF StateWritten
  <2> QED
    BY <1>8, <2>1, <2>2, RecordDecisionIs
<1>9. ASSUME NEW k \in DOMAIN evaluation, Verify(k) PROVE StateWritten
  <2>1. CASE UNCHANGED row
    BY <2>1 DEF StateWritten
  <2>2. CASE row' = [row EXCEPT !.state = "registered"] /\ evaluation[k].decision = "ACCEPTED"
    <3>1. Rebuilt(k, Published(k, "verified"))
      BY <1>9, VerifyIs
    <3>2. evaluation'[k] = Published(k, "verified") /\ k \in DOMAIN evaluation'
      BY <3>1, RebuiltChanges
    <3>3. evaluation'[k].decision = "ACCEPTED" /\ evaluation'[k].publication = "verified"
      BY <2>2, <3>2, PublishedIs
    <3>4. row'.state = "registered"
      BY <1>2, <2>2
    <3> QED
      BY <3>2, <3>3, <3>4 DEF StateWritten
  <2> QED
    BY <1>9, <2>1, <2>2, VerifyIs
<1>10. ASSUME NEW k \in DOMAIN evaluation, Abandon(k) PROVE UNCHANGED row
  BY <1>10, AbandonIs
<1>11. ASSUME NEW v \in Reviewers,
              \/ \E r \in DOMAIN revision, c \in Conditions : AskReview(v, r, c)
              \/ ReturnToResearcher(v) \/ CountOpen(v) \/ Resolve(v)
       PROVE  row'.state \in {row.state, "draft"}
  BY <1>2, <1>11 DEF AskReview, ReturnToResearcher, CountOpen, Resolve, Move
<1>12. CASE Next
  <2>1. {row.state, "preparing", "draft", "submitted", "evaluating", "processing_unavailable",
         "needs_review"} \subseteq {row.state} \cup PlainStates
    BY DEF PlainStates
  <2>2. row'.state \in {row.state} \cup PlainStates => StateWritten
    BY DEF StateWritten
  <2> QED
    BY <1>4, <1>5, <1>6, <1>7, <1>8, <1>9, <1>10, <1>11, <1>12, <2>1, <2>2 DEF Next, Sources
<1> QED
  BY <1>3, <1>12

LEMMA BackedStep ==
    ASSUME Typed, DecisionsAreRecorded, StateIsBacked, [Next]_vars
    PROVE  StateIsBacked'
<1>1. StateWritten
  BY StateStep
<1>2. /\ \A j \in DOMAIN evaluation : /\ j \in DOMAIN evaluation'
                                      /\ evaluation[j].decision # "none" =>
                                            evaluation'[j].decision = evaluation[j].decision
                                      /\ evaluation[j].publication = "verified" =>
                                            evaluation'[j].publication = "verified"
      /\ CasesAreKept
  BY KeptStep DEF AttemptsAreKept, Kept
<1>3. \A d \in Decisions : /\ DecisionToState(d) \in {"accepted_pending", "needs_repair", "not_admitted"}
                           /\ d # "none" /\ DecisionToState(d) \notin PlainStates
                           /\ \A d2 \in Decisions : DecisionToState(d) = DecisionToState(d2) => d = d2
  BY DecisionStates DEF PlainStates
<1>4. ASSUME NEW d \in Decisions, row'.state = DecisionToState(d)
      PROVE  \E k \in DOMAIN evaluation' : evaluation'[k].decision = d
  <2>1. CASE row'.state = row.state
    <3>1. PICK k \in DOMAIN evaluation : evaluation[k].decision = d
      BY <1>4, <2>1 DEF StateIsBacked
    <3> QED
      BY <1>2, <1>3, <3>1
  <2> QED
    BY <1>1, <1>3, <1>4, <2>1 DEF StateWritten
<1>5. ASSUME row'.state = "registered"
      PROVE  \E k \in DOMAIN evaluation' :
                evaluation'[k].decision = "ACCEPTED" /\ evaluation'[k].publication = "verified"
  <2>1. CASE row'.state = row.state
    <3>1. PICK k \in DOMAIN evaluation :
             evaluation[k].decision = "ACCEPTED" /\ evaluation[k].publication = "verified"
      BY <1>5, <2>1 DEF StateIsBacked
    <3> QED
      BY <1>2, <3>1
  <2> QED
    BY <1>1, <1>3, <1>5, <2>1 DEF StateWritten, PlainStates
<1>6. ASSUME row'.state = "review_needed"
      PROVE  \E r \in DOMAIN revision' : \E c \in Conditions : revision'[r].cases[c] # "none"
  <2>1. CASE row'.state = row.state
    BY <1>2, <1>6, <2>1 DEF StateIsBacked, CasesAreKept
  <2> QED
    BY <1>1, <1>3, <1>6, <2>1 DEF StateWritten, PlainStates
<1> QED
  BY <1>4, <1>5, <1>6 DEF StateIsBacked

LEMMA BackedHolds == Spec => [](Typed /\ DecisionsAreRecorded /\ StateIsBacked)
<1>1. Init => DecisionsAreRecorded
  BY DEF Init, DecisionsAreRecorded
<1>2. Init => StateIsBacked
  BY DecisionStates DEF Init, StateIsBacked
<1>3. Typed /\ DecisionsAreRecorded /\ [Next]_vars => DecisionsAreRecorded'
  BY KeptStep
<1> QED
  BY <1>1, <1>2, <1>3, TypedInit, TypedStep, BackedStep, PTL DEF Spec

(* A decision state is backed by a recorded decision, REGISTERED by an        *)
(* accepted attempt verified on the default branch, REVIEW_NEEDED by a case,*)
(* whatever wrote the state over in between (evaluate_revision,             *)
(* _after_verified).                                                        *)
THEOREM StateIsBackedHolds == Spec => []StateIsBacked
BY BackedHolds, PTL

-----------------------------------------------------------------------------
(* Attempts beside each other, and review cases.                             *)

LEMMA CrowdedIs ==
    ASSUME NEW r
    PROVE  Crowded(r) <=> TwiceReviewed(r) /\ MovedBase(r)
BY DEF Crowded, TwiceReviewed, MovedBase

LEMMA CountsAreKept ==
    ASSUME AttemptsAreKept, NEW r
    PROVE  /\ MovedBase(r) => MovedBase(r)'
           /\ Reviewed(r) => Reviewed(r)'
           /\ TwiceReviewed(r) => TwiceReviewed(r)'
           /\ Crowded(r) => Crowded(r)'
<1>1. MovedBase(r) => MovedBase(r)'
  BY DEF MovedBase, AttemptsAreKept, Kept
<1>2. Reviewed(r) => Reviewed(r)'
  BY DEF Reviewed, AttemptsAreKept, Kept
<1>3. TwiceReviewed(r) => TwiceReviewed(r)'
  <2> SUFFICES ASSUME TwiceReviewed(r) PROVE TwiceReviewed(r)'
    OBVIOUS
  <2>1. PICK k \in DOMAIN evaluation, j \in DOMAIN evaluation :
           k # j /\ \A i \in {k, j} : evaluation[i].review /\ evaluation[i].revision = r
    BY DEF TwiceReviewed
  <2>2. Kept(k) /\ Kept(j)
    BY DEF AttemptsAreKept
  <2>3. /\ k \in DOMAIN evaluation' /\ j \in DOMAIN evaluation'
        /\ evaluation'[k].review /\ evaluation'[k].revision = r
        /\ evaluation'[j].review /\ evaluation'[j].revision = r
    BY <2>1, <2>2 DEF Kept
  <2> QED
    BY <2>1, <2>3 DEF TwiceReviewed
<1>4. Crowded(r) => Crowded(r)'
  <2>1. Crowded(r) => TwiceReviewed(r) /\ MovedBase(r)
    BY CrowdedIs
  <2>2. TwiceReviewed(r)' /\ MovedBase(r)' => Crowded(r)'
    BY DEF Crowded, TwiceReviewed, MovedBase
  <2> QED
    BY <1>1, <1>3, <2>1, <2>2
<1> QED
  BY <1>1, <1>2, <1>3, <1>4

(* The parts of the invariant for the attempts there were before the step,   *)
(* where the step opens no case.                                            *)
OpenShrinks ==
    \A r \in DOMAIN revision :
        OpenCases(r)' \subseteq OpenCases(r) /\ (HadCase(r)' => HadCase(r))

LEMMA OldPairs ==
    ASSUME Attempts, AttemptsAreKept, NEW k \in DOMAIN evaluation, NEW j \in DOMAIN evaluation,
           k # j, NEW r, evaluation'[k].revision = r, evaluation'[j].revision = r
    PROVE  /\ ~evaluation'[k].review /\ ~evaluation'[j].review => MovedBase(r)'
           /\ Alive(evaluation'[k]) /\ Alive(evaluation'[j]) => TwiceReviewed(r)'
<1>1. Kept(k) /\ Kept(j)
  BY DEF AttemptsAreKept
<1>2. /\ evaluation[k].revision = r /\ evaluation[j].revision = r
      /\ evaluation'[k].review = evaluation[k].review /\ evaluation'[j].review = evaluation[j].review
      /\ Alive(evaluation'[k]) => Alive(evaluation[k])
      /\ Alive(evaluation'[j]) => Alive(evaluation[j])
  BY <1>1 DEF Kept
<1>3. ~evaluation[k].review /\ ~evaluation[j].review => MovedBase(r)
  BY <1>2 DEF Attempts, SecondIsRequeued
<1>4. Alive(evaluation[k]) /\ Alive(evaluation[j]) => TwiceReviewed(r)
  BY <1>2 DEF Attempts, AliveTogether
<1>5. (MovedBase(r) => MovedBase(r)') /\ (TwiceReviewed(r) => TwiceReviewed(r)')
  BY CountsAreKept
<1> QED
  BY <1>2, <1>3, <1>4, <1>5

LEMMA OldCases ==
    ASSUME Typed, Attempts, AttemptsAreKept, CasesAreKept, OpenShrinks, NEW k \in DOMAIN evaluation,
           NEW r, evaluation'[k].revision = r
    PROVE  /\ evaluation'[k].review => HadCase(r)'
           /\ Alive(evaluation'[k]) /\ HadCase(r)' => Reviewed(r)'
           /\ Alive(evaluation'[k]) /\ OpenCases(r)' # {} => Crowded(r)'
<1>1. Kept(k)
  BY DEF AttemptsAreKept
<1>2. /\ evaluation[k].revision = r /\ evaluation'[k].review = evaluation[k].review
      /\ Alive(evaluation'[k]) => Alive(evaluation[k])
      /\ r \in DOMAIN revision
  BY <1>1 DEF Kept, Typed, TypeOK
<1>3. evaluation[k].review => HadCase(r)
  BY <1>2 DEF Attempts, CasesWereOpened
<1>4. HadCase(r) => HadCase(r)'
  BY <1>2 DEF HadCase, CasesAreKept
<1>5. Alive(evaluation[k]) /\ HadCase(r) => Reviewed(r)
  BY <1>2 DEF Attempts, AliveTogether
<1>6. Alive(evaluation[k]) /\ OpenCases(r) # {} => Crowded(r)
  BY <1>2 DEF Attempts, OpenIsCrowded
<1>7. (Reviewed(r) => Reviewed(r)') /\ (Crowded(r) => Crowded(r)')
  BY CountsAreKept
<1>8. OpenCases(r)' \subseteq OpenCases(r) /\ (HadCase(r)' => HadCase(r))
  BY <1>2 DEF OpenShrinks
<1> QED
  BY <1>2, <1>3, <1>4, <1>5, <1>6, <1>7, <1>8

LEMMA OldOpened ==
    ASSUME Attempts, AttemptsAreKept, NEW r \in DOMAIN revision, HadCase(r)
    PROVE  \E k \in DOMAIN evaluation :
              /\ k \in DOMAIN evaluation'
              /\ evaluation'[k].revision = r /\ ~evaluation'[k].review
              /\ evaluation'[k].step = "stopped"
<1>1. PICK k \in DOMAIN evaluation :
         evaluation[k].revision = r /\ ~evaluation[k].review /\ evaluation[k].step = "stopped"
  BY DEF Attempts, CasesWereOpened
<1>2. Kept(k)
  BY DEF AttemptsAreKept
<1> QED
  BY <1>1, <1>2 DEF Kept

(* The invariant after a step, said of a fixed revision.                     *)
PairsNext ==
    \A k, j \in DOMAIN evaluation' : \A r :
        k # j /\ evaluation'[k].revision = r /\ evaluation'[j].revision = r =>
           /\ ~evaluation'[k].review /\ ~evaluation'[j].review => MovedBase(r)'
           /\ Alive(evaluation'[k]) /\ Alive(evaluation'[j]) => TwiceReviewed(r)'

CasesNext ==
    \A k \in DOMAIN evaluation' : \A r :
        evaluation'[k].revision = r =>
           /\ evaluation'[k].review => HadCase(r)'
           /\ Alive(evaluation'[k]) /\ HadCase(r)' => Reviewed(r)'
           /\ Alive(evaluation'[k]) /\ OpenCases(r)' # {} => Crowded(r)'

OpenedNext ==
    \A r \in DOMAIN revision' :
        HadCase(r)' => \E k \in DOMAIN evaluation' :
                          /\ evaluation'[k].revision = r /\ ~evaluation'[k].review
                          /\ evaluation'[k].step = "stopped"

CountedNext ==
    \A v \in Reviewers : \A r, c :
        review'[v].at = "resolve" /\ review'[v].last
          /\ review'[v].revision = r /\ review'[v].condition = c
          /\ ~(OpenCases(r)' \subseteq {c}) => Reviewed(r)' /\ MovedBase(r)'

LEMMA AttemptsNext ==
    ASSUME PairsNext, CasesNext, OpenedNext, CountedNext
    PROVE  Attempts'
<1>1. SecondIsRequeued'
  <2> SUFFICES ASSUME NEW k \in DOMAIN evaluation', NEW j \in DOMAIN evaluation', k # j,
                      evaluation'[k].revision = evaluation'[j].revision,
                      ~evaluation'[k].review, ~evaluation'[j].review
               PROVE  \E i \in DOMAIN evaluation' :
                         /\ evaluation'[i].revision = evaluation'[k].revision
                         /\ evaluation'[i].publication = "abandoned"
    BY DEF SecondIsRequeued, MovedBase
  <2>1. PICK r : r = evaluation'[k].revision
    OBVIOUS
  <2>2. MovedBase(r)'
    BY <2>1 DEF PairsNext
  <2> QED
    BY <2>1, <2>2 DEF MovedBase
<1>2. CasesWereOpened'
  <2>1. ASSUME NEW k \in DOMAIN evaluation', evaluation'[k].review
        PROVE  \E c \in Conditions : revision'[evaluation'[k].revision].cases[c] # "none"
    <3>1. PICK r : r = evaluation'[k].revision
      OBVIOUS
    <3>2. HadCase(r)'
      BY <2>1, <3>1 DEF CasesNext
    <3> QED
      BY <3>1, <3>2 DEF HadCase
  <2> QED
    BY <2>1 DEF CasesWereOpened, OpenedNext, HadCase
<1>3. AliveTogether'
  <2> SUFFICES ASSUME NEW k \in DOMAIN evaluation', Alive(evaluation'[k])
               PROVE  /\ \A j \in DOMAIN evaluation' :
                            k # j /\ Alive(evaluation'[j])
                              /\ evaluation'[j].revision = evaluation'[k].revision =>
                                 TwiceReviewed(evaluation[k].revision)'
                      /\ HadCase(evaluation[k].revision)' => Reviewed(evaluation[k].revision)'
    BY DEF AliveTogether
  <2>1. PICK r : r = evaluation'[k].revision
    OBVIOUS
  <2>2. ASSUME NEW j \in DOMAIN evaluation', k # j, Alive(evaluation'[j]),
               evaluation'[j].revision = evaluation'[k].revision
        PROVE  TwiceReviewed(evaluation[k].revision)'
    <3>1. TwiceReviewed(r)'
      BY <2>1, <2>2 DEF PairsNext
    <3> QED
      BY <2>1, <3>1 DEF TwiceReviewed
  <2>3. HadCase(r)' => Reviewed(r)'
    BY <2>1 DEF CasesNext
  <2>4. HadCase(evaluation[k].revision)' => Reviewed(evaluation[k].revision)'
    BY <2>1, <2>3 DEF HadCase, Reviewed
  <2> QED
    BY <2>2, <2>4
<1>4. OpenIsCrowded'
  <2>1. ASSUME NEW k \in DOMAIN evaluation', Alive(evaluation'[k]),
               OpenCases(evaluation[k].revision)' # {}
        PROVE  Crowded(evaluation[k].revision)'
    <3>1. PICK r : r = evaluation'[k].revision
      OBVIOUS
    <3>2. OpenCases(r)' # {}
      BY <2>1, <3>1 DEF OpenCases
    <3>3. Crowded(r)'
      BY <2>1, <3>1, <3>2 DEF CasesNext
    <3> QED
      BY <3>1, <3>3 DEF Crowded
  <2>2. ASSUME NEW v \in Reviewers, review'[v].at = "resolve", review'[v].last, ~NoOtherOpen(v)'
        PROVE  Reviewed(review[v].revision)' /\ MovedBase(review[v].revision)'
    <3>1. PICK r, c : r = review'[v].revision /\ c = review'[v].condition
      OBVIOUS
    <3>2. ~(OpenCases(r)' \subseteq {c})
      BY <2>2, <3>1 DEF NoOtherOpen, OpenCases
    <3>3. Reviewed(r)' /\ MovedBase(r)'
      BY <2>2, <3>1, <3>2 DEF CountedNext
    <3> QED
      BY <3>1, <3>3 DEF Reviewed, MovedBase
  <2> QED
    BY <2>1, <2>2 DEF OpenIsCrowded
<1> QED
  BY <1>1, <1>2, <1>3, <1>4 DEF Attempts

(* A reviewer's count holds on, or the reviewer has just counted.            *)
ReviewsAreKept ==
    \A v \in Reviewers :
        \/ review'[v] = review[v]
        \/ review'[v].at # "resolve" \/ ~review'[v].last
        \/ OpenCases(review'[v].revision) \subseteq {review'[v].condition}

LEMMA OldCounts ==
    ASSUME Typed, Attempts, AttemptsAreKept, OpenShrinks, ReviewsAreKept,
           \A v \in Reviewers : review'[v].at = "resolve" => review'[v].revision \in DOMAIN revision
    PROVE  CountedNext
<1> SUFFICES ASSUME NEW v \in Reviewers, NEW r, NEW c,
                    review'[v].at = "resolve", review'[v].last,
                    review'[v].revision = r, review'[v].condition = c,
                    ~(OpenCases(r)' \subseteq {c})
             PROVE  Reviewed(r)' /\ MovedBase(r)'
  BY DEF CountedNext
<1>1. ~(OpenCases(r) \subseteq {c})
  BY DEF OpenShrinks
<1>2. review'[v] = review[v]
  BY <1>1 DEF ReviewsAreKept
<1>3. ~NoOtherOpen(v) /\ review[v].at = "resolve" /\ review[v].last /\ review[v].revision = r
  BY <1>1, <1>2 DEF NoOtherOpen
<1>4. Reviewed(r) /\ MovedBase(r)
  BY <1>3 DEF Attempts, OpenIsCrowded
<1> QED
  BY <1>4, CountsAreKept

(* A step that queues no attempt and opens no case.                          *)
LEMMA FrameKeepsAttempts ==
    ASSUME Typed, Typed', Attempts, AttemptsAreKept, CasesAreKept, OpenShrinks, ReviewsAreKept,
           DOMAIN evaluation' = DOMAIN evaluation, DOMAIN revision' = DOMAIN revision
    PROVE  Attempts'
<1>1. PairsNext
  BY OldPairs DEF PairsNext
<1>2. CasesNext
  BY OldCases DEF CasesNext
<1>3. OpenedNext
  <2>1. ASSUME NEW r \in DOMAIN revision, HadCase(r)'
        PROVE  \E k \in DOMAIN evaluation' :
                  /\ evaluation'[k].revision = r /\ ~evaluation'[k].review
                  /\ evaluation'[k].step = "stopped"
    <3>1. HadCase(r)
      BY <2>1 DEF OpenShrinks
    <3> QED
      BY <3>1, OldOpened
  <2> QED
    BY <2>1 DEF OpenedNext
<1>4. \A v \in Reviewers : review'[v].at = "resolve" => review'[v].revision \in DOMAIN revision
  BY DEF Typed, ReviewStands, TypeOK
<1>5. CountedNext
  BY <1>4, OldCounts
<1> QED
  BY <1>1, <1>2, <1>3, <1>5, AttemptsNext

(* Opening cases: another attempt that is alive then, or a reviewer who has   *)
(* counted, finds the revision crowded, or on the way to it.                *)
LEMMA OpenedIsMoved ==
    ASSUME Attempts, NEW k \in DOMAIN evaluation, ~evaluation[k].review,
           evaluation[k].step = "queued", NEW r, evaluation[k].revision = r, r \in DOMAIN revision,
           HadCase(r)
    PROVE  MovedBase(r)
<1>1. PICK j \in DOMAIN evaluation :
         evaluation[j].revision = r /\ ~evaluation[j].review /\ evaluation[j].step = "stopped"
  BY DEF Attempts, CasesWereOpened
<1> QED
  BY <1>1 DEF Attempts, SecondIsRequeued

LEMMA OpensKeepsAttempts ==
    ASSUME Typed, DecisionsAreRecorded, Attempts, AttemptsAreKept, CasesAreKept,
           NEW k \in DOMAIN evaluation, evaluation[k].step = "queued",
           NEW triggers \in SUBSET Conditions, Opens(k, triggers), UNCHANGED review
    PROVE  Attempts'
<1> DEFINE e == Stepped(k, "stopped", "draft")
<1>1. PICK r : r = evaluation[k].revision
  OBVIOUS
<1>2. /\ DOMAIN evaluation' = DOMAIN evaluation /\ evaluation'[k] = e
      /\ \A j \in DOMAIN evaluation : j # k => evaluation'[j] = evaluation[j]
      /\ \A j \in DOMAIN evaluation :
            /\ evaluation'[j].revision = evaluation[j].revision
            /\ evaluation'[j].review = evaluation[j].review
  BY RebuiltChanges DEF Opens, Typed
<1>3. evaluation[k].publication = "none" /\ Alive(evaluation[k])
  BY DEF DecisionsAreRecorded, Alive
<1>4. e.step = "stopped" /\ ~Alive(e)
  <2>1. e.step = "stopped" /\ e.publication = "none"
    BY <1>3, SteppedIs, StatesAre DEF Steps, Typed
  <2> HIDE DEF e
  <2> QED
    BY <2>1 DEF Alive
<1> HIDE DEF e
<1>5. /\ r \in DOMAIN revision /\ DOMAIN revision' = DOMAIN revision
      /\ \A q \in DOMAIN revision : q # r => revision'[q] = revision[q]
  BY <1>1, OpensRevision DEF Typed
<1>6. ~evaluation[k].review
  BY DEF Opens
<1>7. PairsNext
  BY <1>2, OldPairs DEF PairsNext
<1>8. \A q \in DOMAIN revision : q # r =>
         /\ OpenCases(q)' = OpenCases(q) /\ (HadCase(q)' <=> HadCase(q))
  BY <1>5 DEF OpenCases, HadCase
<1>9. ASSUME HadCase(r) PROVE MovedBase(r)
  BY <1>1, <1>5, <1>6, <1>9, OpenedIsMoved
<1>10. ASSUME NEW j \in DOMAIN evaluation, evaluation[j].revision = r, Alive(evaluation'[j])
       PROVE  Reviewed(r)' /\ Crowded(r)'
  <2>1. j # k
    BY <1>2, <1>4, <1>10
  <2>2. Alive(evaluation[j])
    BY <1>2, <1>10, <2>1
  <2>3. TwiceReviewed(r)
    BY <1>1, <1>3, <1>10, <2>1, <2>2 DEF Attempts, AliveTogether
  <2>4. PICK i \in DOMAIN evaluation : evaluation[i].review /\ evaluation[i].revision = r
    BY <2>3 DEF TwiceReviewed
  <2>5. HadCase(r) /\ Reviewed(r)
    BY <2>4 DEF Attempts, CasesWereOpened, Reviewed
  <2>6. Crowded(r)
    BY <1>9, <2>3, <2>5, CrowdedIs
  <2> QED
    BY <2>5, <2>6, CountsAreKept
<1>11. CasesNext
  <2> SUFFICES ASSUME NEW j \in DOMAIN evaluation, NEW q, evaluation'[j].revision = q
               PROVE  /\ evaluation'[j].review => HadCase(q)'
                      /\ Alive(evaluation'[j]) /\ HadCase(q)' => Reviewed(q)'
                      /\ Alive(evaluation'[j]) /\ OpenCases(q)' # {} => Crowded(q)'
    BY <1>2 DEF CasesNext
  <2>1. q \in DOMAIN revision /\ evaluation[j].revision = q
    BY <1>2 DEF Typed, TypeOK
  <2>2. evaluation'[j].review => HadCase(q)'
    <3>1. evaluation[j].review => HadCase(q)
      BY <2>1 DEF Attempts, CasesWereOpened
    <3>2. HadCase(q) => HadCase(q)'
      BY <2>1 DEF CasesAreKept, HadCase
    <3> QED
      BY <1>2, <3>1, <3>2
  <2>3. CASE q = r
    BY <1>10, <2>1, <2>2, <2>3
  <2>4. CASE q # r
    <3>1. Alive(evaluation'[j]) => Alive(evaluation[j])
      BY DEF AttemptsAreKept, Kept
    <3>2. Alive(evaluation[j]) /\ HadCase(q) => Reviewed(q)
      BY <2>1 DEF Attempts, AliveTogether
    <3>3. Alive(evaluation[j]) /\ OpenCases(q) # {} => Crowded(q)
      BY <2>1 DEF Attempts, OpenIsCrowded
    <3>4. (Reviewed(q) => Reviewed(q)') /\ (Crowded(q) => Crowded(q)')
      BY CountsAreKept
    <3> QED
      BY <1>8, <2>1, <2>2, <2>4, <3>1, <3>2, <3>3, <3>4
  <2> QED
    BY <2>3, <2>4
<1>12. OpenedNext
  <2> SUFFICES ASSUME NEW q \in DOMAIN revision, HadCase(q)'
               PROVE  \E j \in DOMAIN evaluation' :
                         /\ evaluation'[j].revision = q /\ ~evaluation'[j].review
                         /\ evaluation'[j].step = "stopped"
    BY <1>5 DEF OpenedNext
  <2>1. CASE q = r
    BY <1>1, <1>2, <1>4, <1>6, <2>1
  <2>2. CASE q # r
    BY <1>8, <2>2, OldOpened
  <2> QED
    BY <2>1, <2>2
<1>13. CountedNext
  <2> SUFFICES ASSUME NEW v \in Reviewers, NEW q, NEW c,
                      review[v].at = "resolve", review[v].last,
                      review[v].revision = q, review[v].condition = c,
                      ~(OpenCases(q)' \subseteq {c})
               PROVE  Reviewed(q)' /\ MovedBase(q)'
    BY DEF CountedNext
  <2>1. q \in DOMAIN revision /\ HadCase(q)
    <3>1. q \in 1..Len(revision) /\ c \in Conditions /\ revision[q].cases[c] # "none"
      BY DEF Typed, ReviewStands
    <3> QED
      BY <3>1 DEF HadCase, Typed, TypeOK
  <2>2. CASE q = r
    <3>1. Reviewed(r)
      BY <1>1, <1>3, <2>1, <2>2 DEF Attempts, AliveTogether
    <3>2. MovedBase(r)
      BY <1>9, <2>1, <2>2
    <3> QED
      BY <2>2, <3>1, <3>2, CountsAreKept
  <2>3. CASE q # r
    <3>1. ~(OpenCases(q) \subseteq {c})
      BY <1>8, <2>1, <2>3
    <3>2. Reviewed(q) /\ MovedBase(q)
      BY <3>1 DEF Attempts, OpenIsCrowded, NoOtherOpen
    <3> QED
      BY <3>2, CountsAreKept
  <2> QED
    BY <2>2, <2>3
<1> QED
  BY <1>7, <1>11, <1>12, <1>13, AttemptsNext

(* A new attempt n of revision r.                                            *)
NewAttempt(n, r, b) ==
    /\ n \notin DOMAIN evaluation /\ n \in DOMAIN evaluation'
    /\ \A j \in DOMAIN evaluation' : j \in DOMAIN evaluation \/ j = n
    /\ evaluation'[n].revision = r /\ evaluation'[n].review = b
    /\ evaluation'[n].step = "queued"

(* A moved base: the new attempt takes the place of the one whose            *)
(* publication it was.                                                      *)
LEMMA AbandonKeepsAttempts ==
    ASSUME Typed, DecisionsAreRecorded, Attempts, AttemptsAreKept, CasesAreKept,
           NEW k \in DOMAIN evaluation, Abandon(k)
    PROVE  Attempts'
<1> DEFINE attempts == [evaluation EXCEPT ![k] = Published(k, "abandoned")]
           n == Len(evaluation) + 1
<1>1. PICK r : r = evaluation[k].revision
  OBVIOUS
<1>2. /\ evaluation[k].publication = "pending" /\ attempts \in Seq(Evaluation)
      /\ attempts[k] = Published(k, "abandoned")
      /\ \A j \in DOMAIN evaluation : j # k => attempts[j] = evaluation[j]
      /\ Queues(attempts, r, FALSE) /\ UNCHANGED <<revision, review>>
  BY <1>1, AbandonIs DEF Typed
<1>3. r \in Nat /\ r \in DOMAIN revision
  BY <1>1, AttemptHasRevision DEF Typed, TypeOK
<1> HIDE DEF attempts
<1>4. /\ DOMAIN evaluation' = 1..n /\ DOMAIN evaluation = 1..Len(evaluation)
      /\ Len(evaluation) \in Nat
      /\ evaluation'[n] = QueuedEvaluation(r, FALSE)
      /\ \A j \in DOMAIN evaluation : j \in DOMAIN evaluation' /\ j # n /\ evaluation'[j] = attempts[j]
      /\ \A j \in DOMAIN evaluation' : j \in DOMAIN evaluation \/ j = n
  BY <1>2, <1>3, QueuesChanges DEF Typed
<1>5. NewAttempt(n, r, FALSE)
  BY <1>4 DEF NewAttempt, QueuedEvaluation
<1>6. /\ evaluation'[k].publication = "abandoned" /\ evaluation'[k].revision = r
      /\ k \in DOMAIN evaluation'
  BY <1>1, <1>2, <1>4, PublishedIs DEF Typed
<1>7. MovedBase(r)' /\ Alive(evaluation[k]) /\ ~Alive(evaluation'[k])
  <2>1. evaluation'[k].step = "recorded"
    BY <1>2, <1>4, PublishedIs DEF DecisionsAreRecorded, Typed
  <2> QED
    BY <1>2, <1>6, <2>1 DEF MovedBase, Alive
<1> HIDE DEF n
<1>8. PairsNext
  <2> SUFFICES ASSUME NEW i \in DOMAIN evaluation', NEW j \in DOMAIN evaluation', NEW q,
                      i # j, evaluation'[i].revision = q, evaluation'[j].revision = q
               PROVE  /\ ~evaluation'[i].review /\ ~evaluation'[j].review => MovedBase(q)'
                      /\ Alive(evaluation'[i]) /\ Alive(evaluation'[j]) => TwiceReviewed(q)'
    BY DEF PairsNext
  <2>1. CASE i \in DOMAIN evaluation /\ j \in DOMAIN evaluation
    BY <2>1, OldPairs
  <2>2. ASSUME NEW l \in DOMAIN evaluation, evaluation'[l].revision = r, Alive(evaluation'[l])
        PROVE  TwiceReviewed(r)'
    <3>1. l # k /\ Alive(evaluation[l]) /\ evaluation[l].revision = r
      BY <1>7, <2>2 DEF AttemptsAreKept, Kept
    <3>2. TwiceReviewed(r)
      BY <1>1, <1>7, <3>1 DEF Attempts, AliveTogether
    <3> QED
      BY <3>2, CountsAreKept
  <2>3. CASE i = n \/ j = n
    BY <1>5, <1>7, <2>2, <2>3 DEF NewAttempt
  <2> QED
    BY <1>5, <2>1, <2>3 DEF NewAttempt
<1>9. OpenShrinks
  BY <1>2 DEF OpenShrinks, OpenCases, HadCase
<1>10. CasesNext
  <2> SUFFICES ASSUME NEW j \in DOMAIN evaluation', NEW q, evaluation'[j].revision = q
               PROVE  /\ evaluation'[j].review => HadCase(q)'
                      /\ Alive(evaluation'[j]) /\ HadCase(q)' => Reviewed(q)'
                      /\ Alive(evaluation'[j]) /\ OpenCases(q)' # {} => Crowded(q)'
    BY DEF CasesNext
  <2>1. CASE j \in DOMAIN evaluation
    BY <1>9, <2>1, OldCases
  <2>2. CASE j = n
    <3>1. q = r /\ ~evaluation'[j].review
      BY <1>5, <2>2 DEF NewAttempt
    <3>2. HadCase(r) => Reviewed(r)
      BY <1>1, <1>7 DEF Attempts, AliveTogether
    <3>3. OpenCases(r) # {} => Crowded(r)
      BY <1>1, <1>7 DEF Attempts, OpenIsCrowded
    <3>4. (HadCase(r)' => HadCase(r)) /\ OpenCases(r)' \subseteq OpenCases(r)
      BY <1>3, <1>9 DEF OpenShrinks
    <3>5. (Reviewed(r) => Reviewed(r)') /\ (Crowded(r) => Crowded(r)')
      BY CountsAreKept
    <3> QED
      BY <3>1, <3>2, <3>3, <3>4, <3>5
  <2> QED
    BY <1>5, <2>1, <2>2 DEF NewAttempt
<1>11. OpenedNext
  <2>1. \A q \in DOMAIN revision : HadCase(q)' => HadCase(q)
    BY <1>9 DEF OpenShrinks
  <2> QED
    BY <1>2, <2>1, OldOpened DEF OpenedNext
<1>12. CountedNext
  <2>1. \A v \in Reviewers : review[v].at = "resolve" => review[v].revision \in DOMAIN revision
    BY DEF Typed, ReviewStands, TypeOK
  <2> QED
    BY <1>2, <1>9, <2>1, OldCounts DEF ReviewsAreKept
<1> QED
  BY <1>8, <1>10, <1>11, <1>12, AttemptsNext

(* A new revision has no case yet, and its attempt is the only one.          *)
LEMMA ConfirmKeepsAttempts ==
    ASSUME Typed, Typed', Attempts, AttemptsAreKept, CasesAreKept, NEW t \in Tabs, Confirm(t)
    PROVE  Attempts'
<1>1. CASE UNCHANGED <<row, revision, evaluation>>
  <2>1. UNCHANGED review
    BY ConfirmIs DEF Typed
  <2>2. OpenShrinks /\ ReviewsAreKept
    BY <1>1, <2>1 DEF OpenShrinks, ReviewsAreKept, OpenCases, HadCase
  <2> QED
    BY <1>1, <2>2, FrameKeepsAttempts
<1>2. CASE ~UNCHANGED <<row, revision, evaluation>>
  <2> DEFINE n == Len(evaluation) + 1
  <2>1. PICK r : r = Len(revision) + 1
    OBVIOUS
  <2>2. /\ UNCHANGED review /\ Queues(evaluation, r, FALSE)
        /\ DOMAIN revision' = 1..r /\ DOMAIN revision = 1..Len(revision)
        /\ \A q \in DOMAIN revision : revision'[q] = revision[q]
        /\ \A c \in Conditions : revision'[r].cases[c] = "none"
    BY <1>2, <2>1, ConfirmIs DEF Typed
  <2>3. evaluation \in Seq(Evaluation) /\ Len(revision) \in Nat /\ r \in Nat
    BY <2>1 DEF Typed, TypeOK
  <2>4. /\ r \notin DOMAIN revision /\ r \in DOMAIN revision'
        /\ \A q \in DOMAIN revision' : q \in DOMAIN revision \/ q = r
    BY <2>1, <2>2, <2>3
  <2>5. NewAttempt(n, r, FALSE)
    <3>1. /\ DOMAIN evaluation = 1..Len(evaluation) /\ Len(evaluation) \in Nat
          /\ DOMAIN evaluation' = 1..n /\ evaluation'[n] = QueuedEvaluation(r, FALSE)
          /\ \A j \in DOMAIN evaluation' : j \in DOMAIN evaluation \/ j = n
      BY <2>2, <2>3, QueuesChanges DEF Typed
    <3> QED
      BY <3>1 DEF NewAttempt, QueuedEvaluation
  <2>6. ~HadCase(r)' /\ OpenCases(r)' = {}
    BY <2>2 DEF HadCase, OpenCases
  <2>7. \A j \in DOMAIN evaluation : evaluation'[j].revision # r
    BY <2>4 DEF AttemptsAreKept, Kept, Typed, TypeOK
  <2>8. OpenShrinks
    BY <2>2 DEF OpenShrinks, OpenCases, HadCase
  <2> HIDE DEF n
  <2>9. PairsNext
    <3> SUFFICES ASSUME NEW i \in DOMAIN evaluation', NEW j \in DOMAIN evaluation', NEW q,
                        i # j, evaluation'[i].revision = q, evaluation'[j].revision = q
                 PROVE  /\ ~evaluation'[i].review /\ ~evaluation'[j].review => MovedBase(q)'
                        /\ Alive(evaluation'[i]) /\ Alive(evaluation'[j]) => TwiceReviewed(q)'
      BY DEF PairsNext
    <3>1. i \in DOMAIN evaluation /\ j \in DOMAIN evaluation
      BY <2>5, <2>7 DEF NewAttempt
    <3> QED
      BY <3>1, OldPairs
  <2>10. CasesNext
    <3> SUFFICES ASSUME NEW j \in DOMAIN evaluation', NEW q, evaluation'[j].revision = q
                 PROVE  /\ evaluation'[j].review => HadCase(q)'
                        /\ Alive(evaluation'[j]) /\ HadCase(q)' => Reviewed(q)'
                        /\ Alive(evaluation'[j]) /\ OpenCases(q)' # {} => Crowded(q)'
      BY DEF CasesNext
    <3>1. CASE j \in DOMAIN evaluation
      BY <2>8, <3>1, OldCases
    <3>2. CASE j = n
      BY <2>5, <2>6, <3>2 DEF NewAttempt
    <3> QED
      BY <2>5, <3>1, <3>2 DEF NewAttempt
  <2>11. OpenedNext
    <3>1. \A q \in DOMAIN revision : HadCase(q)' => HadCase(q)
      BY <2>8 DEF OpenShrinks
    <3> QED
      BY <2>4, <2>6, <3>1, OldOpened DEF OpenedNext
  <2>12. CountedNext
    <3>1. \A v \in Reviewers : review[v].at = "resolve" => review[v].revision \in DOMAIN revision
      BY DEF Typed, ReviewStands, TypeOK
    <3> QED
      BY <2>2, <2>8, <3>1, OldCounts DEF ReviewsAreKept
  <2> QED
    BY <2>9, <2>10, <2>11, <2>12, AttemptsNext
<1> QED
  BY <1>1, <1>2

LEMMA SetCaseShrinks ==
    ASSUME Typed, NEW v \in Reviewers, review[v].at # "idle",
           NEW state \in {"resolved", "returned"}, SetCase(v, state)
    PROVE  /\ OpenShrinks /\ DOMAIN revision' = DOMAIN revision
           /\ review[v].revision \in DOMAIN revision /\ HadCase(review[v].revision)
           /\ \A r : r = review[v].revision =>
                 HadCase(r)' /\ OpenCases(r)' \subseteq OpenCases(r) \ {review[v].condition}
<1> DEFINE c == review[v].condition
<1>1. PICK r : r = review[v].revision
  OBVIOUS
<1>2. /\ r \in DOMAIN revision /\ c \in Conditions /\ revision[r].cases[c] # "none"
      /\ DOMAIN revision' = DOMAIN revision
      /\ \A q \in DOMAIN revision : \A d \in Conditions :
            revision'[q].cases[d] = IF q = r /\ d = c THEN state ELSE revision[q].cases[d]
  BY <1>1, SetCaseIs DEF Typed
<1>3. HadCase(r) /\ HadCase(r)' /\ OpenCases(r)' \subseteq OpenCases(r) \ {c}
  BY <1>2 DEF HadCase, OpenCases
<1>4. OpenShrinks
  <2> SUFFICES ASSUME NEW q \in DOMAIN revision
               PROVE  OpenCases(q)' \subseteq OpenCases(q) /\ (HadCase(q)' => HadCase(q))
    BY DEF OpenShrinks
  <2>1. CASE q = r
    BY <1>3, <2>1
  <2>2. CASE q # r
    BY <1>2, <2>2 DEF HadCase, OpenCases
  <2> QED
    BY <2>1, <2>2
<1> QED
  BY <1>1, <1>2, <1>3, <1>4

(* The last resolution queues an attempt with a review: any other attempt    *)
(* that is alive comes after an earlier resolution.                         *)
LEMMA ResolveKeepsAttempts ==
    ASSUME Typed, Typed', Attempts, AttemptsAreKept, CasesAreKept, NEW v \in Reviewers, Resolve(v)
    PROVE  Attempts'
<1>1. /\ review[v].at = "resolve" /\ review' = [review EXCEPT ![v] = NoReview]
      /\ SetCase(v, "resolved")
      /\ \/ review[v].last /\ Queues(evaluation, review[v].revision, TRUE)
         \/ ~review[v].last /\ UNCHANGED evaluation
  BY ResolveIs DEF Typed
<1>2. PICK r, c : r = review[v].revision /\ c = review[v].condition
  OBVIOUS
<1>3. /\ OpenShrinks /\ DOMAIN revision' = DOMAIN revision
      /\ r \in DOMAIN revision /\ HadCase(r) /\ HadCase(r)'
      /\ OpenCases(r)' \subseteq OpenCases(r) \ {c}
  BY <1>1, <1>2, SetCaseShrinks
<1>4. ReviewsAreKept
  BY <1>1, IdleIs DEF ReviewsAreKept, Typed, TypeOK
<1>5. CASE UNCHANGED evaluation
  BY <1>3, <1>4, <1>5, FrameKeepsAttempts
<1>6. CASE review[v].last /\ Queues(evaluation, r, TRUE)
  <2> DEFINE n == Len(evaluation) + 1
  <2>1. evaluation \in Seq(Evaluation) /\ r \in Nat
    BY <1>3 DEF Typed, TypeOK
  <2>2. NewAttempt(n, r, TRUE)
    <3>1. /\ DOMAIN evaluation = 1..Len(evaluation) /\ Len(evaluation) \in Nat
          /\ DOMAIN evaluation' = 1..n /\ evaluation'[n] = QueuedEvaluation(r, TRUE)
          /\ \A j \in DOMAIN evaluation' : j \in DOMAIN evaluation \/ j = n
      BY <1>6, <2>1, QueuesChanges DEF Typed
    <3> QED
      BY <3>1 DEF NewAttempt, QueuedEvaluation
  <2> HIDE DEF n
  <2>3. ASSUME Reviewed(r) PROVE TwiceReviewed(r)'
    <3>1. PICK i \in DOMAIN evaluation : evaluation[i].revision = r /\ evaluation[i].review
      BY <2>3 DEF Reviewed
    <3>2. i \in DOMAIN evaluation' /\ evaluation'[i].revision = r /\ evaluation'[i].review /\ i # n
      BY <2>2, <3>1 DEF AttemptsAreKept, Kept, NewAttempt
    <3> QED
      BY <2>2, <3>2 DEF NewAttempt, TwiceReviewed
  <2>4. ASSUME NEW j \in DOMAIN evaluation, evaluation'[j].revision = r, Alive(evaluation'[j])
        PROVE  TwiceReviewed(r)'
    <3>1. Alive(evaluation[j]) /\ evaluation[j].revision = r
      BY <2>4 DEF AttemptsAreKept, Kept
    <3>2. Reviewed(r)
      BY <1>3, <3>1 DEF Attempts, AliveTogether
    <3> QED
      BY <2>3, <3>2
  <2>5. PairsNext
    <3> SUFFICES ASSUME NEW i \in DOMAIN evaluation', NEW j \in DOMAIN evaluation', NEW q,
                        i # j, evaluation'[i].revision = q, evaluation'[j].revision = q
                 PROVE  /\ ~evaluation'[i].review /\ ~evaluation'[j].review => MovedBase(q)'
                        /\ Alive(evaluation'[i]) /\ Alive(evaluation'[j]) => TwiceReviewed(q)'
      BY DEF PairsNext
    <3>1. CASE i \in DOMAIN evaluation /\ j \in DOMAIN evaluation
      BY <3>1, OldPairs
    <3>2. CASE i = n \/ j = n
      BY <2>2, <2>4, <3>2 DEF NewAttempt
    <3> QED
      BY <2>2, <3>1, <3>2 DEF NewAttempt
  <2>6. CasesNext
    <3> SUFFICES ASSUME NEW j \in DOMAIN evaluation', NEW q, evaluation'[j].revision = q
                 PROVE  /\ evaluation'[j].review => HadCase(q)'
                        /\ Alive(evaluation'[j]) /\ HadCase(q)' => Reviewed(q)'
                        /\ Alive(evaluation'[j]) /\ OpenCases(q)' # {} => Crowded(q)'
      BY DEF CasesNext
    <3>1. CASE j \in DOMAIN evaluation
      BY <1>3, <3>1, OldCases
    <3>2. CASE j = n
      <4>1. q = r
        BY <2>2, <3>2 DEF NewAttempt
      <4>2. Reviewed(r)'
        BY <2>2 DEF NewAttempt, Reviewed
      <4>3. ASSUME OpenCases(r)' # {} PROVE Crowded(r)'
        <5>1. ~NoOtherOpen(v)
          BY <1>2, <1>3, <4>3 DEF NoOtherOpen
        <5>2. Reviewed(r) /\ MovedBase(r)
          BY <1>1, <1>2, <1>6, <5>1 DEF Attempts, OpenIsCrowded
        <5>3. TwiceReviewed(r)' /\ MovedBase(r)'
          BY <2>3, <5>2, CountsAreKept
        <5> QED
          BY <5>3 DEF Crowded, TwiceReviewed, MovedBase
      <4> QED
        BY <1>3, <4>1, <4>2, <4>3
    <3> QED
      BY <2>2, <3>1, <3>2 DEF NewAttempt
  <2>7. OpenedNext
    <3>1. \A q \in DOMAIN revision : HadCase(q)' => HadCase(q)
      BY <1>3 DEF OpenShrinks
    <3> QED
      BY <1>3, <3>1, OldOpened DEF OpenedNext
  <2>8. CountedNext
    <3>1. \A w \in Reviewers : review'[w].at = "resolve" => review'[w].revision \in DOMAIN revision
      BY <1>3, SMTT(60) DEF Typed, ReviewStands, TypeOK
    <3> QED
      BY <1>3, <1>4, <3>1, OldCounts
  <2> QED
    BY <2>5, <2>6, <2>7, <2>8, AttemptsNext
<1> QED
  BY <1>1, <1>2, <1>5, <1>6
LEMMA AttemptsStep ==
    ASSUME Typed, DecisionsAreRecorded, Attempts, [Next]_vars
    PROVE  Attempts'
<1>1. AttemptsAreKept /\ CasesAreKept /\ Typed'
  BY KeptStep, TypedStep
<1>2. ASSUME UNCHANGED evaluation, UNCHANGED revision, ReviewsAreKept
      PROVE  Attempts'
  <2>1. OpenShrinks
    BY <1>2 DEF OpenShrinks, OpenCases, HadCase
  <2> QED
    BY <1>1, <1>2, <2>1, FrameKeepsAttempts
<1>3. ASSUME UNCHANGED review PROVE ReviewsAreKept
  BY <1>3 DEF ReviewsAreKept
<1>4. CASE UNCHANGED vars
  BY <1>2, <1>3, <1>4 DEF vars
<1>5. ASSUME NEW t \in Tabs,
             \/ Upload(t) \/ Load(t) \/ Post(t) \/ Save(t) \/ TakeVersion(t)
             \/ AskRepair(t) \/ Repair(t) \/ \E u \in Uploads : AskUpload(t, u)
      PROVE  UNCHANGED <<evaluation, revision, review>>
  BY <1>5 DEF Upload, AskUpload, Load, Post, Save, TakeVersion, AskRepair, Repair, history
<1>6. ASSUME NEW s \in Sources,
             \/ StartFromReference(s) \/ EnqueueFromReference(s) \/ StartPreparing(s)
             \/ PreparationFails(s) \/ PreparationDies(s) \/ Refresh(s) \/ WritePrepared(s)
      PROVE  UNCHANGED <<evaluation, revision, review>>
  BY <1>6 DEF StartFromReference, EnqueueFromReference, StartPreparing, PreparationFails,
              PreparationDies, Refresh, WritePrepared, people, history
<1>7. ASSUME NEW k \in DOMAIN evaluation,
             \/ StartEvaluation(k) \/ Evaluate(k) \/ EvaluationDies(k)
             \/ EvaluationUnavailable(k) \/ EvaluationReturned(k)
             \/ \E d \in Decisions : RecordDecision(k, d)
             \/ Verify(k)
      PROVE  Attempts'
  <2>1. UNCHANGED review /\ DOMAIN evaluation' = DOMAIN evaluation
    <3>1. UNCHANGED review
      BY <1>7, StartEvaluationIs, EvaluateIs, EvaluationFailsIs, RecordDecisionIs, VerifyIs
         DEF Typed, EvaluationFails
    <3> QED
      BY <1>7, <3>1, EvaluationProgress, ProgressKeeps
  <2>2. \/ UNCHANGED revision
        \/ evaluation[k].step = "queued" /\ \E triggers \in SUBSET Conditions : Opens(k, triggers)
    BY <1>7, StartEvaluationIs, EvaluateIs, EvaluationFailsIs, RecordDecisionIs, VerifyIs
       DEF Typed, EvaluationFails, Stops, Begins
  <2>3. CASE UNCHANGED revision
    <3>1. OpenShrinks /\ ReviewsAreKept
      BY <2>1, <2>3, <1>3 DEF OpenShrinks, OpenCases, HadCase
    <3> QED
      BY <1>1, <2>1, <2>3, <3>1, FrameKeepsAttempts
  <2>4. ASSUME NEW triggers \in SUBSET Conditions, Opens(k, triggers), evaluation[k].step = "queued"
        PROVE  Attempts'
    BY <1>1, <2>1, <2>4, OpensKeepsAttempts
  <2> QED
    BY <2>2, <2>3, <2>4
<1>8. ASSUME NEW v \in Reviewers, NEW r \in DOMAIN revision, NEW c \in Conditions, AskReview(v, r, c)
      PROVE  Attempts'
  <2>1. UNCHANGED <<evaluation, revision>>
    BY <1>8 DEF AskReview
  <2>2. ReviewsAreKept
    BY <1>8 DEF AskReview, ReviewsAreKept, Typed, TypeOK
  <2> QED
    BY <1>2, <2>1, <2>2
<1>9. ASSUME NEW v \in Reviewers, CountOpen(v)
      PROVE  Attempts'
  <2> DEFINE q == [review[v] EXCEPT !.at = "resolve", !.last = NoOtherOpen(v)]
  <2>1. UNCHANGED <<evaluation, revision>> /\ review' = [review EXCEPT ![v] = q]
    BY <1>9 DEF CountOpen, Typed, TypeOK
  <2>2. /\ q.revision = review[v].revision /\ q.condition = review[v].condition
        /\ q.last = NoOtherOpen(v)
    <3>1. review[v] \in Review
      BY DEF Typed, TypeOK
    <3> QED
      BY <3>1 DEF Review
  <2> HIDE DEF q
  <2>3. review' \in [Reviewers -> Review] /\ review \in [Reviewers -> Review]
    BY <1>1 DEF Typed, TypeOK
  <2>4. review'[v] = q /\ \A w \in Reviewers : w # v => review'[w] = review[w]
    BY <2>1, <2>3
  <2>5. ReviewsAreKept
    BY <2>2, <2>4 DEF ReviewsAreKept, NoOtherOpen
  <2> QED
    BY <1>2, <2>1, <2>5
<1>10. ASSUME NEW v \in Reviewers, ReturnToResearcher(v)
       PROVE  Attempts'
  <2>1. /\ UNCHANGED evaluation /\ review[v].at # "idle"
        /\ review' = [review EXCEPT ![v] = NoReview]
        /\ SetCase(v, "returned") \/ UNCHANGED revision
    BY <1>10, ReturnIs DEF Typed
  <2>2. ReviewsAreKept
    BY <2>1, IdleIs DEF ReviewsAreKept, Typed, TypeOK
  <2>3. CASE SetCase(v, "returned")
    <3>1. OpenShrinks /\ DOMAIN revision' = DOMAIN revision
      BY <2>1, <2>3, SetCaseShrinks
    <3> QED
      BY <1>1, <2>1, <2>2, <3>1, FrameKeepsAttempts
  <2> QED
    BY <1>2, <2>1, <2>2, <2>3
<1>11. ASSUME Next PROVE Attempts'
  <2>1. CASE \E t \in Tabs : Confirm(t)
    BY <1>1, <2>1, ConfirmKeepsAttempts
  <2>2. CASE \E k \in DOMAIN evaluation : Abandon(k)
    BY <1>1, <2>2, AbandonKeepsAttempts
  <2>3. CASE \E v \in Reviewers : Resolve(v)
    BY <1>1, <2>3, ResolveKeepsAttempts
  <2> QED
    BY <1>2, <1>3, <1>5, <1>6, <1>7, <1>8, <1>9, <1>10, <1>11, <2>1, <2>2, <2>3 DEF Next, Sources
<1> QED
  BY <1>4, <1>11

LEMMA AttemptsInit == Init => Attempts
<1> SUFFICES ASSUME Init PROVE Attempts
  OBVIOUS
<1>1. evaluation = <<>> /\ revision = <<>> /\ review = [v \in Reviewers |-> NoReview]
  BY DEF Init
<1>2. SecondIsRequeued /\ CasesWereOpened /\ AliveTogether
  BY <1>1 DEF SecondIsRequeued, CasesWereOpened, AliveTogether
<1>3. OpenIsCrowded
  BY <1>1, IdleIs DEF OpenIsCrowded
<1> QED
  BY <1>2, <1>3 DEF Attempts

LEMMA AttemptsHold == Spec => [](Typed /\ DecisionsAreRecorded /\ Attempts)
<1>1. Init => DecisionsAreRecorded
  BY DEF Init, DecisionsAreRecorded
<1>2. Typed /\ DecisionsAreRecorded /\ [Next]_vars => DecisionsAreRecorded'
  BY KeptStep
<1> QED
  BY <1>1, <1>2, TypedInit, TypedStep, AttemptsInit, AttemptsStep, PTL DEF Spec

(* A decision is recorded only when every review case its revision has had   *)
(* is resolved or returned, unless the revision is crowded: two resolutions *)
(* have each queued an attempt and a moved base one more                    *)
(* (resolve_review_case, evaluate_revision, requeue_evaluation).            *)
THEOREM DecidedIsReviewedHolds == Spec => DecidedIsReviewed
<1>1. ASSUME Typed, DecisionsAreRecorded, Attempts, [Next]_vars
      PROVE  \A k \in DOMAIN evaluation :
                evaluation'[k].decision # evaluation[k].decision =>
                   \/ OpenCases(evaluation[k].revision) = {}
                   \/ Crowded(evaluation[k].revision)
  <2> SUFFICES ASSUME NEW k \in DOMAIN evaluation,
                      evaluation'[k].decision # evaluation[k].decision
               PROVE  OpenCases(evaluation[k].revision) = {} \/ Crowded(evaluation[k].revision)
    OBVIOUS
  <2>1. Kept(k)
    BY <1>1, KeptStep DEF AttemptsAreKept
  <2>2. Alive(evaluation[k])
    BY <2>1 DEF Kept
  <2> QED
    BY <1>1, <2>2 DEF Attempts, OpenIsCrowded
<1> QED
  BY <1>1, AttemptsHold, PTL DEF Spec, DecidedIsReviewed
-----------------------------------------------------------------------------
(* What moves a submission that is under way.                                *)

(* Who moves the row into the three states.                                  *)
LEMMA Movers ==
    ASSUME Typed, DecisionsAreRecorded, [Next]_vars
    PROVE  /\ row'.state = "preparing" /\ row.state # "preparing" =>
                 \/ \E t \in Tabs : Upload(t) /\ request[t].begins
                 \/ \E s \in References : StartFromReference(s)
           /\ row'.state = "evaluating" /\ row.state # "evaluating" =>
                 \E k \in DOMAIN evaluation : Evaluate(k)
           /\ row'.state = "submitted" /\ row.state # "submitted" =>
                 \E t \in Tabs : Confirm(t)
<1> USE DEF Typed
<1> DEFINE Quiet == row'.state = row.state \/ row'.state \notin {"preparing", "evaluating", "submitted"}
<1>1. row \in SubmissionRow
  BY DEF TypeOK
<1>2. \A state : [row EXCEPT !.state = state].state = state
  BY <1>1 DEF SubmissionRow
<1>3. CASE UNCHANGED vars
  BY <1>3 DEF vars
<1>4. ASSUME NEW t \in Tabs,
             Load(t) \/ Post(t) \/ Save(t) \/ TakeVersion(t)
               \/ AskRepair(t) \/ Repair(t) \/ \E u \in Uploads : AskUpload(t, u)
      PROVE  Quiet
  <2>1. CASE Load(t) \/ Post(t) \/ TakeVersion(t) \/ AskRepair(t) \/ \E u \in Uploads : AskUpload(t, u)
    BY <1>2, <2>1 DEF Load, Post, TakeVersion, AskRepair, AskUpload, history
  <2>2. CASE Save(t)
    BY <1>1, <2>2 DEF Save, SubmissionRow
  <2>3. CASE Repair(t)
    BY <2>3 DEF Repair
  <2> QED
    BY <1>4, <2>1, <2>2, <2>3
<1>5. ASSUME NEW t \in Tabs, Upload(t)
      PROVE  row'.state = row.state \/ (row'.state = "preparing" /\ request[t].begins)
  BY <1>2, <1>5 DEF Upload, Move
<1>6. ASSUME NEW t \in Tabs, Confirm(t)
      PROVE  row'.state = row.state \/ row'.state = "submitted"
  <2>1. UNCHANGED row \/ row' = [row EXCEPT !.state = "submitted", !.version = @ + 1]
    BY <1>6, ConfirmIs DEF Confirmed
  <2> QED
    BY <1>1, <2>1 DEF SubmissionRow
<1>7. ASSUME NEW s \in Sources,
             \/ EnqueueFromReference(s) \/ StartPreparing(s)
             \/ PreparationFails(s) \/ PreparationDies(s) \/ Refresh(s) \/ WritePrepared(s)
      PROVE  Quiet
  <2>1. CASE WritePrepared(s)
    BY <2>1 DEF WritePrepared, Prepared
  <2>2. CASE ~WritePrepared(s)
    BY <1>2, <1>7, <2>2 DEF EnqueueFromReference, StartPreparing,
       PreparationFails, PreparationDies, Refresh, Move
  <2> QED
    BY <2>1, <2>2
<1>8. ASSUME NEW s \in References, StartFromReference(s)
      PROVE  row'.state = "preparing"
  BY <1>2, <1>8 DEF StartFromReference, Move
<1>9. ASSUME NEW k \in DOMAIN evaluation,
             \/ StartEvaluation(k) \/ EvaluationDies(k) \/ EvaluationUnavailable(k)
             \/ EvaluationReturned(k) \/ Verify(k) \/ Abandon(k)
      PROVE  Quiet
  <2>1. CASE StartEvaluation(k)
    BY <1>2, <2>1, StartEvaluationIs DEF Stops, Opens, Begins
  <2>2. CASE EvaluationDies(k) \/ EvaluationUnavailable(k) \/ EvaluationReturned(k)
    <3>1. \E to \in {"processing_unavailable", "needs_review"} : EvaluationFails(k, to)
      BY <2>2, EvaluationFailsIs
    <3> QED
      BY <1>2, <3>1 DEF EvaluationFails
  <2>3. CASE Verify(k)
    BY <1>2, <2>3, VerifyIs
  <2>4. CASE Abandon(k)
    BY <2>4, AbandonIs
  <2> QED
    BY <1>9, <2>1, <2>2, <2>3, <2>4
<1>10. ASSUME NEW k \in DOMAIN evaluation, NEW d \in Decisions, RecordDecision(k, d)
       PROVE  Quiet
  <2>1. DecisionToState(d) \notin {"preparing", "evaluating", "submitted"}
    BY DecisionStates
  <2>2. UNCHANGED row \/ row' = [row EXCEPT !.state = DecisionToState(d)]
    BY <1>10, RecordDecisionIs
  <2> QED
    BY <1>2, <2>1, <2>2
<1>11. ASSUME NEW k \in DOMAIN evaluation, Evaluate(k)
       PROVE  row'.state = row.state \/ row'.state = "evaluating"
  BY <1>2, <1>11, EvaluateIs
<1>12. ASSUME NEW v \in Reviewers,
              \/ \E r \in DOMAIN revision, c \in Conditions : AskReview(v, r, c)
              \/ ReturnToResearcher(v) \/ CountOpen(v) \/ Resolve(v)
       PROVE  Quiet
  BY <1>2, <1>12 DEF AskReview, ReturnToResearcher, CountOpen, Resolve, Move
<1>13. CASE Next
  BY <1>4, <1>5, <1>6, <1>7, <1>8, <1>9, <1>10, <1>11, <1>12, <1>13 DEF Next, Sources
<1> QED
  BY <1>3, <1>13

(* An attempt changes only by its own handlers.                              *)
LEMMA OwnHandler ==
    ASSUME Typed, DecisionsAreRecorded, [Next]_vars, NEW k \in DOMAIN evaluation
    PROVE  /\ k \in DOMAIN evaluation'
           /\ \/ evaluation'[k] = evaluation[k]
              \/ StartEvaluation(k) \/ Evaluate(k) \/ EvaluationDies(k)
              \/ EvaluationUnavailable(k) \/ EvaluationReturned(k)
              \/ \E d \in Decisions : RecordDecision(k, d)
              \/ Verify(k) \/ Abandon(k)
<1>1. k \in DOMAIN evaluation'
  BY KeptStep DEF AttemptsAreKept, Kept
<1>2. CASE UNCHANGED vars
  BY <1>2 DEF vars
<1>3. ASSUME NEW t \in Tabs,
             \/ Upload(t) \/ Load(t) \/ Post(t) \/ Save(t) \/ TakeVersion(t)
             \/ AskRepair(t) \/ Repair(t) \/ \E u \in Uploads : AskUpload(t, u)
      PROVE  UNCHANGED evaluation
  BY <1>3 DEF Upload, AskUpload, Load, Post, Save, TakeVersion, AskRepair, Repair, history
<1>4. ASSUME NEW s \in Sources,
             \/ StartFromReference(s) \/ EnqueueFromReference(s) \/ StartPreparing(s)
             \/ PreparationFails(s) \/ PreparationDies(s) \/ Refresh(s) \/ WritePrepared(s)
      PROVE  UNCHANGED evaluation
  BY <1>4 DEF StartFromReference, EnqueueFromReference, StartPreparing, PreparationFails,
              PreparationDies, Refresh, WritePrepared, people, history
<1>5. ASSUME NEW t \in Tabs, Confirm(t)
      PROVE  evaluation'[k] = evaluation[k]
  <2>1. UNCHANGED evaluation \/ Queues(evaluation, Len(revision) + 1, FALSE)
    BY <1>5, ConfirmIs DEF Typed
  <2>2. evaluation \in Seq(Evaluation) /\ Len(revision) + 1 \in Nat
    BY DEF Typed, TypeOK
  <2> QED
    BY <2>1, <2>2, QueuesChanges DEF Typed
<1>6. ASSUME NEW j \in DOMAIN evaluation, j # k,
             \/ StartEvaluation(j) \/ Evaluate(j) \/ EvaluationDies(j)
             \/ EvaluationUnavailable(j) \/ EvaluationReturned(j)
             \/ \E d \in Decisions : RecordDecision(j, d)
             \/ Verify(j)
      PROVE  evaluation'[k] = evaluation[k]
  <2>1. \E e : Rebuilt(j, e)
    BY <1>6, EvaluationProgress DEF Progress
  <2> QED
    BY <1>6, <2>1, RebuiltChanges DEF Typed
<1>7. ASSUME NEW j \in DOMAIN evaluation, j # k, Abandon(j)
      PROVE  evaluation'[k] = evaluation[k]
  <2> DEFINE attempts == [evaluation EXCEPT ![j] = Published(j, "abandoned")]
             r == evaluation[j].revision
  <2>1. attempts \in Seq(Evaluation) /\ attempts[k] = evaluation[k] /\ Queues(attempts, r, FALSE)
    BY <1>7, AbandonIs DEF Typed
  <2>2. r \in Nat
    BY AttemptHasRevision DEF Typed, TypeOK
  <2> HIDE DEF attempts, r
  <2> QED
    BY <2>1, <2>2, QueuesChanges DEF Typed
<1>8. ASSUME NEW v \in Reviewers,
             \/ \E r \in DOMAIN revision, c \in Conditions : AskReview(v, r, c)
             \/ CountOpen(v) \/ ReturnToResearcher(v)
      PROVE  UNCHANGED evaluation
  BY <1>8 DEF AskReview, CountOpen, ReturnToResearcher
<1>9. ASSUME NEW v \in Reviewers, Resolve(v)
      PROVE  evaluation'[k] = evaluation[k]
  <2>1. UNCHANGED evaluation \/ Queues(evaluation, review[v].revision, TRUE)
    BY <1>9, ResolveIs DEF Typed
  <2>2. review[v].at # "idle"
    BY <1>9 DEF Resolve
  <2>3. evaluation \in Seq(Evaluation) /\ review[v].revision \in Nat
    BY <2>2 DEF Typed, TypeOK, ReviewStands
  <2> QED
    BY <2>1, <2>3, QueuesChanges DEF Typed
<1>10. CASE Next
  BY <1>1, <1>3, <1>4, <1>5, <1>6, <1>7, <1>8, <1>9, <1>10 DEF Next, Sources
<1> QED
  BY <1>1, <1>2, <1>10

(* An attempt that is to carry an evaluation goes on, gives the submission    *)
(* another state, or has met a case on a crowded revision.                  *)
LEMMA EvaluationGoesOn ==
    ASSUME Typed, DecisionsAreRecorded, Attempts, [Next]_vars, NEW k \in DOMAIN evaluation,
           WillEvaluate(evaluation[k]), row.state = "evaluating", row'.state = "evaluating"
    PROVE  WillEvaluate(evaluation'[k]) \/ \E r \in DOMAIN revision : Crowded(r)
<1>1. row \in SubmissionRow /\ \A state : [row EXCEPT !.state = state].state = state
  BY DEF Typed, TypeOK, SubmissionRow
<1>2. /\ {"stopped", "queued", "exhausted", "fetching", "engine"} \subseteq Steps
      /\ "draft" \in States /\ "evaluating" \in States /\ row.state \in States
  BY <1>1, StatesAre DEF SubmissionRow, Steps
<1>3. ASSUME NEW step \in Steps, NEW seen \in States, Rebuilt(k, Stepped(k, step, seen))
      PROVE  evaluation'[k].step = step /\ evaluation'[k].seen = seen
  BY <1>3, RebuiltChanges, SteppedIs DEF Typed
<1>4. TriedAgain(k) => WillEvaluate(evaluation'[k])
  BY <1>2, <1>3 DEF TriedAgain, WillEvaluate
<1>5. CASE StartEvaluation(k)
  <2>1. CASE Stops(k)
    <3>1. Alive(evaluation[k]) /\ OpenCases(evaluation[k].revision) # {}
      BY <1>5, <2>1, StartEvaluationIs DEF Alive, Stops, Typed
    <3>2. Crowded(evaluation[k].revision)
      BY <3>1 DEF Attempts, OpenIsCrowded
    <3> QED
      BY <3>2 DEF Typed, TypeOK
  <2>2. CASE \E triggers \in SUBSET Conditions : Opens(k, triggers)
    BY <1>1, <2>2 DEF Opens
  <2>3. CASE Begins(k)
    BY <1>2, <1>3, <2>3 DEF Begins, WillEvaluate
  <2> QED
    BY <1>4, <1>5, <2>1, <2>2, <2>3, StartEvaluationIs DEF Typed
<1>6. CASE Evaluate(k)
  <2>1. evaluation[k].step = "fetching" /\ evaluation[k].seen \in Evaluable \cup {"evaluating"}
    BY <1>6, EvaluateIs DEF WillEvaluate, Typed
  <2>2. Rebuilt(k, Stepped(k, "engine", "evaluating"))
    BY <1>6, <2>1, EvaluateIs DEF Typed
  <2> QED
    BY <1>2, <1>3, <2>2 DEF WillEvaluate
<1>7. ASSUME NEW to \in {"processing_unavailable", "needs_review"}, EvaluationFails(k, to)
      PROVE  WillEvaluate(evaluation'[k])
  BY <1>1, <1>4, <1>7 DEF EvaluationFails, WillEvaluate
<1>8. CASE EvaluationDies(k) \/ EvaluationUnavailable(k) \/ EvaluationReturned(k)
  BY <1>7, <1>8, EvaluationFailsIs DEF Typed
<1>9. ASSUME NEW d \in Decisions, RecordDecision(k, d)
      PROVE  WillEvaluate(evaluation'[k])
  <2>1. DecisionToState(d) # "evaluating"
    BY DecisionStates
  <2> QED
    BY <1>1, <1>4, <1>9, <2>1, RecordDecisionIs DEF Typed
<1>10. CASE Verify(k) \/ Abandon(k)
  <2>1. evaluation[k].publication = "pending"
    BY <1>10, VerifyIs, AbandonIs DEF Typed
  <2> QED
    BY <2>1 DEF DecisionsAreRecorded, WillEvaluate
<1> QED
  BY <1>5, <1>6, <1>8, <1>9, <1>10, OwnHandler

(* An attempt that is to begin the evaluation of the last revision does, or   *)
(* is tried again: the revision has no case that could stop it.             *)
LEMMA BeginningGoesOn ==
    ASSUME Typed, DecisionsAreRecorded, [Next]_vars, NEW k \in DOMAIN evaluation, NEW r,
           r = Len(revision), Len(revision') = r,
           WillBegin(evaluation[k]), row.state = "submitted", row'.state = "submitted",
           \A c \in Conditions : revision[r].cases[c] = "none"
    PROVE  /\ evaluation'[k].revision = r /\ ~evaluation'[k].review
           /\ \/ evaluation'[k].step \in {"queued", "exhausted"}
              \/ evaluation'[k].step = "fetching" /\ evaluation'[k].seen = "submitted"
<1>1. row \in SubmissionRow /\ \A state : [row EXCEPT !.state = state].state = state
  BY DEF Typed, TypeOK, SubmissionRow
<1>2. /\ {"stopped", "queued", "exhausted", "fetching", "engine"} \subseteq Steps
      /\ "draft" \in States /\ row.state \in States
  BY <1>1, StatesAre DEF SubmissionRow, Steps
<1>3. evaluation'[k].revision = r /\ ~evaluation'[k].review
  BY KeptStep DEF AttemptsAreKept, Kept, WillBegin
<1> DEFINE Goes == \/ evaluation'[k].step \in {"queued", "exhausted"}
                   \/ evaluation'[k].step = "fetching" /\ evaluation'[k].seen = "submitted"
<1>4. ASSUME NEW step \in Steps, NEW seen \in States, Rebuilt(k, Stepped(k, step, seen))
      PROVE  evaluation'[k].step = step /\ evaluation'[k].seen = seen
  BY <1>4, RebuiltChanges, SteppedIs DEF Typed
<1>5. TriedAgain(k) => Goes
  BY <1>2, <1>4 DEF TriedAgain
<1>6. CASE StartEvaluation(k)
  <2>1. ~Stops(k)
    BY DEF Stops, OpenCases, WillBegin
  <2>2. CASE \E triggers \in SUBSET Conditions : Opens(k, triggers)
    BY <1>1, <2>2 DEF Opens
  <2>3. CASE Begins(k)
    <3>1. evaluation'[k].step = "fetching" /\ evaluation'[k].seen = "submitted"
      BY <1>2, <1>4, <2>3 DEF Begins
    <3> QED
      BY <1>3, <3>1
  <2> HIDE DEF Goes
  <2> QED
    BY <1>3, <1>5, <1>6, <2>1, <2>2, <2>3, StartEvaluationIs DEF Typed, Goes
<1>7. ~Evaluate(k)
  <2>1. CASE evaluation[k].step = "fetching"
    <3>1. evaluation[k].seen \in Evaluable
      BY <2>1 DEF WillBegin, Evaluable
    <3> QED
      BY <1>1, <3>1, EvaluateIs DEF Typed
  <2> QED
    BY <2>1, EvaluateIs DEF Typed
<1>8. CASE EvaluationDies(k) \/ EvaluationUnavailable(k) \/ EvaluationReturned(k)
  BY <1>3, <1>5, <1>8, EvaluationFailsIs DEF EvaluationFails, WillBegin, Typed
<1>9. ~(\E d \in Decisions : RecordDecision(k, d))
  BY RecordDecisionIs DEF WillBegin, Typed
<1>10. ~Verify(k) /\ ~Abandon(k)
  BY VerifyIs, AbandonIs DEF WillBegin, DecisionsAreRecorded, Typed
<1>11. CASE evaluation'[k] = evaluation[k]
  BY <1>11 DEF WillBegin
<1> QED
  BY <1>3, <1>6, <1>7, <1>8, <1>9, <1>10, <1>11, OwnHandler

(* While the row stays SUBMITTED only a successful confirmation touches the   *)
(* last revision: no case of it has been opened, so none is decided.        *)
LEMMA LastRevisionIsKept ==
    ASSUME Typed, DecisionsAreRecorded, [Next]_vars, ~(\E t \in Tabs : Confirm(t)),
           row.state = "submitted", row'.state = "submitted",
           \A c \in Conditions : revision[Len(revision)].cases[c] = "none"
    PROVE  Len(revision') = Len(revision) /\ revision'[Len(revision)] = revision[Len(revision)]
<1>1. row \in SubmissionRow /\ \A state : [row EXCEPT !.state = state].state = state
  BY DEF Typed, TypeOK, SubmissionRow
<1>2. Len(revision) \in DOMAIN revision
  BY DEF Typed, TypeOK, RevisionStands, Confirmed_States
<1>3. CASE UNCHANGED vars
  BY <1>3 DEF vars
<1>4. ASSUME NEW t \in Tabs,
             \/ Upload(t) \/ Load(t) \/ Post(t) \/ Save(t) \/ TakeVersion(t)
             \/ AskRepair(t) \/ Repair(t) \/ \E u \in Uploads : AskUpload(t, u)
      PROVE  UNCHANGED revision
  BY <1>4 DEF Upload, AskUpload, Load, Post, Save, TakeVersion, AskRepair, Repair, history
<1>5. ASSUME NEW s \in Sources,
             \/ StartFromReference(s) \/ EnqueueFromReference(s) \/ StartPreparing(s)
             \/ PreparationFails(s) \/ PreparationDies(s) \/ Refresh(s) \/ WritePrepared(s)
      PROVE  UNCHANGED revision
  BY <1>5 DEF StartFromReference, EnqueueFromReference, StartPreparing, PreparationFails,
              PreparationDies, Refresh, WritePrepared, people, history
<1>6. ASSUME NEW k \in DOMAIN evaluation,
             \/ StartEvaluation(k) \/ Evaluate(k) \/ EvaluationDies(k)
             \/ EvaluationUnavailable(k) \/ EvaluationReturned(k)
             \/ \E d \in Decisions : RecordDecision(k, d)
             \/ Verify(k) \/ Abandon(k)
      PROVE  UNCHANGED revision
  <2>1. \/ UNCHANGED revision
        \/ \E triggers \in SUBSET Conditions : Opens(k, triggers)
    BY <1>6, StartEvaluationIs, EvaluateIs, EvaluationFailsIs, RecordDecisionIs, VerifyIs, AbandonIs
       DEF Typed, EvaluationFails, Stops, Begins
  <2> QED
    BY <1>1, <2>1 DEF Opens
<1>7. ASSUME NEW v \in Reviewers, review[v].at # "idle", NEW state \in {"resolved", "returned"},
             SetCase(v, state)
      PROVE  Len(revision') = Len(revision) /\ revision'[Len(revision)] = revision[Len(revision)]
  BY <1>2, <1>7, SetCaseIs DEF Typed
<1>8. ASSUME NEW v \in Reviewers,
             \/ \E r \in DOMAIN revision, c \in Conditions : AskReview(v, r, c)
             \/ CountOpen(v)
      PROVE  UNCHANGED revision
  BY <1>8 DEF AskReview, CountOpen
<1>9. ASSUME NEW v \in Reviewers, ReturnToResearcher(v) \/ Resolve(v)
      PROVE  Len(revision') = Len(revision) /\ revision'[Len(revision)] = revision[Len(revision)]
  <2>1. /\ review[v].at # "idle"
        /\ SetCase(v, "returned") \/ SetCase(v, "resolved") \/ UNCHANGED revision
    BY <1>9, ReturnIs, ResolveIs DEF Typed
  <2> QED
    BY <1>7, <2>1
<1>10. CASE Next
  BY <1>4, <1>5, <1>6, <1>8, <1>9, <1>10 DEF Next, Sources
<1> QED
  BY <1>3, <1>10

LEMMA SubmittedStep ==
    ASSUME Typed, Typed', DecisionsAreRecorded, SubmittedIsAttended, [Next]_vars
    PROVE  SubmittedIsAttended'
<1> SUFFICES ASSUME row'.state = "submitted" PROVE SubmittedIsAttended'
  BY DEF SubmittedIsAttended
<1>1. ASSUME NEW r, Len(revision') = r,
             \A c \in Conditions : revision'[r].cases[c] = "none",
             NEW k \in DOMAIN evaluation', evaluation'[k].revision = r, ~evaluation'[k].review,
             \/ evaluation'[k].step \in {"queued", "exhausted"}
             \/ evaluation'[k].step = "fetching" /\ evaluation'[k].seen = "submitted"
      PROVE  SubmittedIsAttended'
  BY <1>1 DEF SubmittedIsAttended, WillBegin
<1>2. ASSUME NEW t \in Tabs, Confirm(t), ~UNCHANGED <<row, revision, evaluation>>
      PROVE  SubmittedIsAttended'
  <2> DEFINE n == Len(evaluation) + 1
  <2>1. PICK r : r = Len(revision) + 1
    OBVIOUS
  <2>2. /\ Queues(evaluation, r, FALSE) /\ Len(revision') = r
        /\ \A c \in Conditions : revision'[r].cases[c] = "none"
    BY <1>2, <2>1, ConfirmIs DEF Typed
  <2>3. evaluation \in Seq(Evaluation) /\ r \in Nat
    BY <2>1 DEF Typed, TypeOK
  <2>4. n \in DOMAIN evaluation' /\ evaluation'[n] = QueuedEvaluation(r, FALSE)
    <3>1. /\ DOMAIN evaluation' = 1..n /\ Len(evaluation) \in Nat
          /\ evaluation'[n] = QueuedEvaluation(r, FALSE)
      BY <2>2, <2>3, QueuesChanges DEF Typed
    <3> QED
      BY <3>1
  <2>5. /\ evaluation'[n].revision = r /\ ~evaluation'[n].review
        /\ evaluation'[n].step = "queued"
    BY <2>4 DEF QueuedEvaluation
  <2> HIDE DEF n
  <2> QED
    BY <1>1, <2>2, <2>4, <2>5
<1>3. ASSUME NEW t \in Tabs, Confirm(t), UNCHANGED <<row, revision, evaluation>>
      PROVE  SubmittedIsAttended'
  BY <1>3 DEF SubmittedIsAttended, WillBegin
<1>4. CASE ~(\E t \in Tabs : Confirm(t))
  <2>1. row.state = "submitted"
    BY <1>4, Movers
  <2>2. PICK r : r = Len(revision)
    OBVIOUS
  <2>3. /\ \A c \in Conditions : revision[r].cases[c] = "none"
        /\ \E k \in DOMAIN evaluation : WillBegin(evaluation[k])
    BY <2>1, <2>2 DEF SubmittedIsAttended
  <2>4. PICK k \in DOMAIN evaluation : WillBegin(evaluation[k])
    BY <2>3
  <2>5. Len(revision') = r /\ revision'[r] = revision[r]
    BY <1>4, <2>1, <2>2, <2>3, LastRevisionIsKept
  <2>6. k \in DOMAIN evaluation'
    BY OwnHandler
  <2>7. /\ evaluation'[k].revision = r /\ ~evaluation'[k].review
        /\ \/ evaluation'[k].step \in {"queued", "exhausted"}
           \/ evaluation'[k].step = "fetching" /\ evaluation'[k].seen = "submitted"
    BY <2>1, <2>2, <2>3, <2>4, <2>5, BeginningGoesOn
  <2> QED
    BY <1>1, <2>3, <2>5, <2>6, <2>7
<1> QED
  BY <1>2, <1>3, <1>4

LEMMA EvaluatingStep ==
    ASSUME Typed, DecisionsAreRecorded, Attempts, EvaluatingIsAttended, [Next]_vars
    PROVE  EvaluatingIsAttended'
<1> SUFFICES ASSUME row'.state = "evaluating"
             PROVE  \/ \E k \in DOMAIN evaluation' : WillEvaluate(evaluation'[k])
                    \/ \E r \in DOMAIN revision' : Crowded(r)'
  BY DEF EvaluatingIsAttended
<1>1. AttemptsAreKept /\ CasesAreKept
  BY KeptStep
<1>2. ASSUME NEW r \in DOMAIN revision, Crowded(r)
      PROVE  r \in DOMAIN revision' /\ Crowded(r)'
  BY <1>1, <1>2, CountsAreKept DEF CasesAreKept
<1>3. CASE row.state = "evaluating"
  <2>1. CASE \E r \in DOMAIN revision : Crowded(r)
    BY <1>2, <2>1
  <2>2. CASE \E k \in DOMAIN evaluation : WillEvaluate(evaluation[k])
    <3>1. PICK k \in DOMAIN evaluation : WillEvaluate(evaluation[k])
      BY <2>2
    <3>2. k \in DOMAIN evaluation'
      BY OwnHandler
    <3>3. WillEvaluate(evaluation'[k]) \/ \E r \in DOMAIN revision : Crowded(r)
      BY <1>3, <3>1, EvaluationGoesOn
    <3> QED
      BY <1>2, <3>2, <3>3
  <2> QED
    BY <1>3, <2>1, <2>2 DEF EvaluatingIsAttended
<1>4. CASE row.state # "evaluating"
  <2>1. PICK k \in DOMAIN evaluation : Evaluate(k)
    BY <1>4, Movers
  <2>2. Rebuilt(k, Stepped(k, "engine", "evaluating"))
    BY <1>4, <2>1, EvaluateIs DEF Typed
  <2>3. "engine" \in Steps /\ "evaluating" \in States
    BY StatesAre DEF Steps
  <2>4. /\ evaluation'[k].step = "engine" /\ evaluation'[k].seen = "evaluating"
        /\ k \in DOMAIN evaluation'
    BY <2>2, <2>3, RebuiltChanges, SteppedIs DEF Typed
  <2> QED
    BY <2>4 DEF WillEvaluate
<1> QED
  BY <1>3, <1>4
(* A preparation that is to move the row out of PREPARING goes on, or has.    *)
LEMMA PreparationGoesOn ==
    ASSUME Typed, [Next]_vars, NEW s \in Sources, WillPrepare(prep[s]),
           row.state = "preparing", row'.state = "preparing"
    PROVE  WillPrepare(prep'[s])
<1>1. prep \in [Sources -> Prep] /\ row \in SubmissionRow
  BY DEF Typed, TypeOK
<1>2. \A step : PrepAt(step).step = step
  BY DEF PrepAt
<1>3. CASE UNCHANGED vars
  BY <1>3 DEF vars
<1>4. ASSUME NEW t \in Tabs,
             \/ Load(t) \/ Post(t) \/ Save(t) \/ TakeVersion(t) \/ Confirm(t)
             \/ AskRepair(t) \/ Repair(t) \/ \E u \in Uploads : AskUpload(t, u)
      PROVE  UNCHANGED prep
  BY <1>4 DEF AskUpload, Load, Post, Save, TakeVersion, Confirm, AskRepair, Repair, history
<1>5. ASSUME NEW t \in Tabs, Upload(t)
      PROVE  WillPrepare(prep'[s])
  <2>1. prep' = [prep EXCEPT ![request[t].source] = Enqueued(@)]
    BY <1>5 DEF Upload
  <2>2. prep'[s] = prep[s] \/ prep'[s] = Enqueued(prep[s])
    BY <1>1, <2>1
  <2> QED
    BY <1>2, <2>2 DEF Enqueued, WillPrepare
<1>6. ASSUME NEW q \in References, StartFromReference(q)
      PROVE  WillPrepare(prep'[s])
  BY <1>6 DEF StartFromReference
<1>7. ASSUME NEW q \in Sources, EnqueueFromReference(q)
      PROVE  WillPrepare(prep'[s])
  <2>1. CASE q = s
    BY <1>1, <1>7, <2>1 DEF EnqueueFromReference, WillPrepare, Prep
  <2>2. CASE q # s
    BY <1>1, <1>7, <2>2 DEF EnqueueFromReference
  <2> QED
    BY <2>1, <2>2
<1>8. ASSUME NEW q \in Sources, StartPreparing(q)
      PROVE  WillPrepare(prep'[s])
  <2>1. row.state \in Preparable
    BY DEF Preparable
  <2> DEFINE p == [step |-> "reading", seen |-> row.state, version |-> 0,
                   candidate |-> row.draft \cup Stored(q)]
  <2>2. prep' = [prep EXCEPT ![q] = p] /\ p.step = "reading"
    BY <1>8, <2>1 DEF StartPreparing
  <2> HIDE DEF p
  <2> QED
    BY <1>1, <2>2 DEF WillPrepare
<1>9. ASSUME NEW q \in Sources, PreparationFails(q) \/ PreparationDies(q)
      PROVE  WillPrepare(prep'[s])
  <2>1. PICK end \in {"queued", "exhausted"} : prep' = [prep EXCEPT ![q] = PrepAt(end)]
    BY <1>9 DEF PreparationFails, PreparationDies
  <2> QED
    BY <1>1, <1>2, <2>1 DEF WillPrepare
<1>10. ASSUME NEW q \in Sources, Refresh(q)
       PROVE  WillPrepare(prep'[s])
  <2>1. CASE q = s
    <3> DEFINE p == [prep[s] EXCEPT !.step = "writing", !.seen = row.state, !.version = row.version]
    <3>1. prep' = [prep EXCEPT ![s] = p]
      BY <1>1, <1>10, <2>1 DEF Refresh, Prep
    <3>2. p.step = "writing" /\ p.seen = "preparing"
      BY <1>1 DEF Prep
    <3> HIDE DEF p
    <3> QED
      BY <1>1, <3>1, <3>2 DEF WillPrepare, Preparable
  <2>2. CASE q # s
    BY <1>1, <1>10, <2>2 DEF Refresh
  <2> QED
    BY <2>1, <2>2
<1>11. ASSUME NEW q \in Sources, WritePrepared(q)
       PROVE  WillPrepare(prep'[s])
  <2>1. CASE q = s
    <3>1. prep[s].step = "writing" /\ row' = Prepared(prep[s])
      BY <1>11, <2>1 DEF WritePrepared
    <3>2. row'.state = "needs_review"
      BY <3>1 DEF WillPrepare, Prepared
    <3> QED
      BY <3>2
  <2>2. CASE q # s
    BY <1>1, <1>11, <2>2 DEF WritePrepared
  <2> QED
    BY <2>1, <2>2
<1>12. ASSUME NEW k \in DOMAIN evaluation,
              \/ StartEvaluation(k) \/ Evaluate(k) \/ EvaluationDies(k)
              \/ EvaluationUnavailable(k) \/ EvaluationReturned(k)
              \/ \E d \in Decisions : RecordDecision(k, d)
              \/ Verify(k) \/ Abandon(k)
       PROVE  UNCHANGED prep
  BY <1>12 DEF StartEvaluation, Evaluate, EvaluationDies, EvaluationUnavailable,
               EvaluationReturned, RecordDecision, Verify, Abandon, people, history
<1>13. ASSUME NEW v \in Reviewers,
              \/ \E r \in DOMAIN revision, c \in Conditions : AskReview(v, r, c)
              \/ ReturnToResearcher(v) \/ CountOpen(v) \/ Resolve(v)
       PROVE  UNCHANGED prep
  BY <1>13 DEF AskReview, ReturnToResearcher, CountOpen, Resolve, history
<1>14. CASE Next
  BY <1>4, <1>5, <1>6, <1>7, <1>8, <1>9, <1>10, <1>11, <1>12, <1>13, <1>14 DEF Next, Sources
<1> QED
  BY <1>3, <1>14

LEMMA TwiceStays ==
    ASSUME Typed, [Next]_vars, twice
    PROVE  twice'
<1>1. CASE UNCHANGED vars
  BY <1>1 DEF vars
<1>2. CASE Next
  BY <1>2 DEF Next, Upload, AskUpload, Load, Post, Save, TakeVersion, Confirm, AskRepair, Repair,
     StartFromReference, EnqueueFromReference, StartPreparing, PreparationFails, PreparationDies,
     Refresh, WritePrepared, StartEvaluation, Evaluate, EvaluationDies, EvaluationUnavailable,
     EvaluationReturned, RecordDecision, Verify, Abandon, AskReview, ReturnToResearcher,
     CountOpen, Resolve, history
<1> QED
  BY <1>1, <1>2

LEMMA UploadStep ==
    ASSUME Typed, UploadStands, [Next]_vars
    PROVE  UploadStands'
<1>1. request \in [Tabs -> Request]
  BY DEF Typed, TypeOK
<1>2. ASSUME UNCHANGED request PROVE UploadStands'
  BY <1>2 DEF UploadStands
<1>3. CASE UNCHANGED vars
  BY <1>2, <1>3 DEF vars
<1>4. ASSUME NEW t \in Tabs, NEW u \in Uploads, AskUpload(t, u)
      PROVE  UploadStands'
  <2> DEFINE q == [Idle EXCEPT !.at = "upload", !.source = u, !.begins = row.state # "preparing"]
  <2>1. request' = [request EXCEPT ![t] = q] /\ q.source = u
    BY <1>4 DEF AskUpload, Idle
  <2> HIDE DEF q
  <2> QED
    BY <1>1, <2>1 DEF UploadStands
<1>5. ASSUME NEW t \in Tabs, NEW q, request' = [request EXCEPT ![t] = q], q.at # "upload"
      PROVE  UploadStands'
  BY <1>1, <1>5 DEF UploadStands
<1>6. ASSUME NEW t \in Tabs, Upload(t) \/ TakeVersion(t) \/ Repair(t)
      PROVE  UploadStands'
  BY <1>5, <1>6, IdleIs DEF Upload, TakeVersion, Repair
<1>7. ASSUME NEW t \in Tabs, AskRepair(t)
      PROVE  UploadStands'
  <2> DEFINE q == [request[t] EXCEPT !.at = "repair", !.latest = Len(revision)]
  <2>1. request' = [request EXCEPT ![t] = q] /\ q.at = "repair"
    BY <1>1, <1>7 DEF AskRepair, Request
  <2> HIDE DEF q
  <2> QED
    BY <1>5, <2>1
<1>8. ASSUME NEW t \in Tabs, Save(t)
      PROVE  UploadStands'
  <2> DEFINE q == [request[t] EXCEPT !.at = "saved"]
  <2>1. q.at = "saved"
    BY <1>1 DEF Request
  <2>2. UNCHANGED request \/ request' = [request EXCEPT ![t] = q]
    BY <1>1, <1>8 DEF Save
  <2> HIDE DEF q
  <2> QED
    BY <1>2, <1>5, <2>1, <2>2
<1>9. ASSUME NEW t \in Tabs, Load(t) \/ Post(t) \/ Confirm(t)
      PROVE  UNCHANGED request
  BY <1>9 DEF Load, Post, Confirm
<1>10. ASSUME NEW s \in Sources,
              \/ StartFromReference(s) \/ EnqueueFromReference(s) \/ StartPreparing(s)
              \/ PreparationFails(s) \/ PreparationDies(s) \/ Refresh(s) \/ WritePrepared(s)
       PROVE  UNCHANGED request
  BY <1>10 DEF StartFromReference, EnqueueFromReference, StartPreparing, PreparationFails,
               PreparationDies, Refresh, WritePrepared, people
<1>11. ASSUME NEW k \in DOMAIN evaluation,
              \/ StartEvaluation(k) \/ Evaluate(k) \/ EvaluationDies(k)
              \/ EvaluationUnavailable(k) \/ EvaluationReturned(k)
              \/ \E d \in Decisions : RecordDecision(k, d)
              \/ Verify(k) \/ Abandon(k)
       PROVE  UNCHANGED request
  BY <1>11 DEF StartEvaluation, Evaluate, EvaluationDies, EvaluationUnavailable,
               EvaluationReturned, RecordDecision, Verify, Abandon, people
<1>12. ASSUME NEW v \in Reviewers,
              \/ \E r \in DOMAIN revision, c \in Conditions : AskReview(v, r, c)
              \/ ReturnToResearcher(v) \/ CountOpen(v) \/ Resolve(v)
       PROVE  UNCHANGED request
  BY <1>12 DEF AskReview, ReturnToResearcher, CountOpen, Resolve
<1>13. CASE Next
  BY <1>2, <1>4, <1>6, <1>7, <1>8, <1>9, <1>10, <1>11, <1>12, <1>13 DEF Next, Sources
<1> QED
  BY <1>3, <1>13

LEMMA PreparingStep ==
    ASSUME Typed, DecisionsAreRecorded, UploadStands, PreparingIsAttended, [Next]_vars
    PROVE  PreparingIsAttended'
<1> SUFFICES ASSUME row'.state = "preparing", ~twice'
             PROVE  \E s \in Sources : WillPrepare(prep'[s])
  BY DEF PreparingIsAttended
<1>1. ~twice
  BY TwiceStays
<1>2. prep \in [Sources -> Prep]
  BY DEF Typed, TypeOK
<1>3. CASE row.state = "preparing"
  <2>1. PICK s \in Sources : WillPrepare(prep[s])
    BY <1>1, <1>3 DEF PreparingIsAttended
  <2> QED
    BY <1>3, <2>1, PreparationGoesOn
<1>4. ASSUME NEW t \in Tabs, Upload(t)
      PROVE  \E s \in Sources : WillPrepare(prep'[s])
  <2>1. PICK u : u = request[t].source
    OBVIOUS
  <2>2. /\ request[t].at = "upload" /\ prep' = [prep EXCEPT ![u] = Enqueued(@)]
        /\ twice' = (twice \/ prep[u].step # "none")
    BY <1>4, <2>1 DEF Upload
  <2>3. u \in Sources
    BY <2>1, <2>2 DEF UploadStands, Sources
  <2>4. prep[u].step = "none"
    BY <2>2
  <2>5. prep'[u] = PrepAt("queued")
    BY <1>2, <2>2, <2>3, <2>4 DEF Enqueued
  <2> QED
    BY <2>3, <2>5 DEF WillPrepare, PrepAt
<1>5. ASSUME NEW s \in References, StartFromReference(s)
      PROVE  \E q \in Sources : WillPrepare(prep'[q])
  <2>1. s \in Sources /\ prep' = [prep EXCEPT ![s].step = "started"]
    BY <1>5 DEF StartFromReference, Sources
  <2>2. prep'[s].step = "started"
    BY <1>2, <2>1 DEF Prep
  <2> QED
    BY <2>1, <2>2 DEF WillPrepare
<1> QED
  BY <1>3, <1>4, <1>5, Movers

LEMMA AttendedHold == Spec => [](Typed /\ DecisionsAreRecorded /\ Attempts /\ AttendedInv)
<1>1. Init => AttendedInv
  BY IdleIs DEF Init, AttendedInv, UploadStands, PreparingIsAttended, EvaluatingIsAttended,
     SubmittedIsAttended
<1>2. Typed /\ DecisionsAreRecorded /\ Attempts /\ AttendedInv /\ [Next]_vars => AttendedInv'
  <2> SUFFICES ASSUME Typed, DecisionsAreRecorded, Attempts, AttendedInv, [Next]_vars
               PROVE  AttendedInv'
    OBVIOUS
  <2>1. Typed'
    BY TypedStep
  <2>2. UploadStands /\ PreparingIsAttended /\ EvaluatingIsAttended /\ SubmittedIsAttended
    BY DEF AttendedInv
  <2>3. UploadStands' /\ PreparingIsAttended' /\ EvaluatingIsAttended' /\ SubmittedIsAttended'
    BY <2>1, <2>2, UploadStep, PreparingStep, EvaluatingStep, SubmittedStep
  <2> QED
    BY <2>3 DEF AttendedInv
<1> QED
  BY <1>1, <1>2, AttemptsHold, PTL DEF Spec

(* A submission never sits in PREPARING, SUBMITTED or EVALUATING with nothing *)
(* under way that can move it, apart from exhausted jobs, a file stored     *)
(* twice at once, and an attempt of a crowded revision that met an open     *)
(* case (the outbox jobs of prepare and evaluate_revision).                 *)
THEOREM AttendedHolds == Spec => []Attended
<1>1. ASSUME Typed, AttendedInv PROVE Attended
  <2>1. PreparingIsAttended /\ EvaluatingIsAttended /\ SubmittedIsAttended
    BY <1>1 DEF AttendedInv
  <2>2. row.state = "preparing" /\ ~twice => \E s \in Sources : prep[s].step \notin {"none", "done"}
    BY <2>1 DEF PreparingIsAttended, WillPrepare
  <2>3. CASE row.state = "submitted"
    <3>1. PICK k \in DOMAIN evaluation : WillBegin(evaluation[k])
      BY <2>1, <2>3 DEF SubmittedIsAttended
    <3> QED
      BY <2>2, <2>3, <3>1 DEF WillBegin, Attended
  <2>4. CASE row.state = "evaluating"
    BY <2>1, <2>2, <2>4 DEF EvaluatingIsAttended, WillEvaluate, Attended
  <2>5. CASE row.state \notin {"submitted", "evaluating"}
    BY <2>2, <2>5 DEF Attended
  <2> QED
    BY <2>3, <2>4, <2>5
<1> QED
  BY <1>1, AttendedHold, PTL
=============================================================================
