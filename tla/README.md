# TLA+ models of the SR Research Library portal

The repository has two programs. The *admission engine* (`src/validators/`) checks a research
record against a registry kept in Git, decides it by seven gates, and writes a receipt. The
*portal* (`src/portal/`, Django + Celery + PostgreSQL) lets researchers prepare records, runs the
engine in isolated checkouts, and publishes the results to the registry's GitHub repository
through a branch, a pull request, a required check and a merge. The registry on the default
branch is the only authority; PostgreSQL holds the work in progress; Redis "only delivers"
(`portal/config/celery.py:1`).

The engine is sequential. The portal is not: web requests, two worker slots, a periodic sweep,
webhooks, maintainers on GitHub and contributors with clones of their own all act on the same
rows, branches and numbers. That is where the models begin.

## 1. Inventory

| Component | Code | State | Operations | What makes it correct |
|---|---|---|---|---|
| Job outbox | `core/models.py`, `core/tasks.py` | `Job` rows; messages in Redis | `enqueue`, `dispatch`, `_lease`, `run_job`, `_finish`, `reconcile` | one run per job at a time; no requested work is lost; retries end; finished stays finished |
| Publication | `registry_bridge/publication.py`, `github_app.py`, `fake_github.py` | `Publication` rows; branches, pull requests, checks and the default branch on GitHub | `queue_publication`, `run_publication`, `_base_moved`, `_verify`, `_after_verified` | at most one merge; registered only when the exact files are on the default branch; every publication comes to an end; an abandoned one is evaluated again, a merged one never |
| Reconciliation, webhooks, retries | `registry_bridge/reconciliation.py`, `webhooks.py`, `submissions/review_urls.py` | none of their own (job rows, `WebhookDelivery`) | `reconcile_pending_publications`, `nudge_publication_for_branch`, `github_webhook`, `retry_publication` | lost acknowledgments are recovered; hints never corrupt a run |
| Identifier allocation | `registry_bridge/allocation.py`, `validators/allocation.py`, `validators/reserve.py` | `Allocation` rows, `NamespaceLock`; ledger files `registry/reservations/*.json` | `reserve_identifier`, `mark_committed`, `withdraw_value`, `next_free`, `reserve` | no number twice, none recycled, same key same number, refusal near the limit |
| Evaluation | `registry_bridge/evaluation.py`, `evaluate_worker.py`, `checkout.py`, `engine.py`, `policy.py` | `EvaluationAttempt` rows | `evaluate_revision`, worker `main` | one receipt per attempt; the decision recorded is the engine's; the publication carries what the engine wrote |
| Submission workflow | `submissions/state.py`, `services.py`, `models.py` | `Submission` (state, draft, version), `SubmissionRevision`, `Upload`, `ReviewCase`, `FieldEvidence` | `register_upload`, `prepare`, `save_draft`, `confirm_and_submit`, `evaluate`, `start_repair`, `resolve_review_case` | legal transitions only; no edit lost; a frozen revision is what was confirmed; each revision is decided |
| Author identity | `accounts/services.py`, `accounts/models.py` | `AuthorBinding`, `IdentityClaim` | `start_author_registration`, `register_author`, `request_identity_claim`, `decide_identity_claim` | one AuthorID per account, one account per AuthorID |
| Catalog projection | `catalog/projection.py` | `RegistryProjection`, `ProjectionSnapshot` | `refresh_projection`, `current_projection` | the current snapshot is the newest verified commit |
| Admission engine | `validators/admit.py`, `gates.py`, `receipts.py`, `execution.py` | receipts, history and registry files of a checkout | `evaluate_object`, `evaluate_and_write`, `register_object`, `write_receipt_bundle` | a failing gate rejects, a blocked one returns; receipts never rewritten; nothing registered without an accepting receipt |
| Registry checks | `validators/checks.py`, `manifest.py`, `release.py`, `loader.py` | none (read only) | `validate_registry` | every dangling or inconsistent reference is reported |
| Derived views | `validators/profiles.py`, `bridges.py`, `search.py`, `sitegen.py` | none | `build_*`, `generate_site` | functions of the registry |
| Preparation | `submissions/preparation.py`, `extraction.py`, `acquisition.py`, `export.py` | the draft of a submission | `prepare`, `assemble_candidate`, the editor's form, `readiness`, freezing, `repair_focus` | no guess passes for a statement; what is ready can be evaluated; the answer about duplicates is followed |
| Views, forms, templates, configuration | `*/views.py`, `forms.py`, `config/`, commands | sessions | HTTP around the services | permissions, forms |

**How they interact.** A confirmed revision is enqueued in the outbox (`submissions.evaluate`). The
evaluation pins a commit, reserves a receipt number, runs the engine in a checkout, records an
attempt and queues a publication (`registry_bridge.publish`), all in one transaction. The publish
job walks the branch/pull-request sequence and is retried by the outbox, by the sweep, by webhooks
and by hand. When it verifies, it commits the reservations, moves the submission to REGISTERED and
enqueues a projection refresh; when the base has moved, it withdraws the receipt number and enqueues
a new evaluation. Author registrations use the same publication path; its end comes back to the
account's binding. What the engine decides about is the record a preparation assembled, the editor
saved and a confirmation froze.

**What is hard.** (a) A lease (600 s) is shorter than a task's time limit (900 s), and webhooks and
administrators requeue a publish job under a live lease (`reconciliation.py:45`), so handlers
written to be idempotent one after the other do overlap. (b) Every step between the first GitHub
call and the last database statement can be cut by a crash. (c) Statements of one logical step are
committed one by one (`publication.py:144`, `161`, `162`). (d) Rows are read once and written by key
later, in the sweep, in a run's in-memory publication and in an evaluation's list of allocations.
(e) The registry moves under everyone: other writers, maintainers' merges, and contributors who
reserve numbers the portal cannot see yet. (f) A field of a record may be stated, blank, null,
missing, of another vocabulary or half filled, and gates, registry checks, editor and readiness each
judge it in code of their own. (g) The engine writes several files per admission and git merges
trees file by file, so what no single run did can be on the default branch. The list of hazards,
each with its line, is in `PROJECT.json`.

## 2. Modules

| Module | Models | Checked by | Proofs |
|---|---|---|---|
| `JobOutbox` | the outbox and the sweep | `MCJobOutbox` | `JobOutboxProofs` |
| `Publication` | one publication run against GitHub | `MCPublication`, 2 configurations | `PublicationProofs` |
| `Allocation` | numbers of one namespace, ledger, attempts | `MCAllocation` | `AllocationProofs` |
| `IssuedNumbers` | what allocation promises (abstract) | refined by `Allocation` | `AllocationProofs` |
| `SubmissionWorkflow` | one submission: draft, preparation, revisions, evaluations, review cases | `MCSubmissionWorkflow`, 2 configurations | `SubmissionWorkflowProofs` |
| `ResearchRecord` | a research-object record: how each field is given | (operators) | `GateProofs` |
| `AdmissionGates` | the seven gates, the decision, the receipt, the repair focus | (operators) | `GateProofs` |
| `RegistryChecks` | `validate_registry` and its checks | (operators) | `GateProofs` |
| `Preparation` | extraction, assembly, suggestions, form, readiness, freezing | (operators) | `IntakeProofs` |
| `Intake` | a work from draft to registration, composing the last four | `MCIntake`, 3 configurations | `IntakeProofs` |
| `AdmissionEngine` | the repository's files, the engine's writes, merges; extends `RegistryChecks` | `MCAdmissionEngine` | `AdmissionEngineProofs` |
| `Projection` | the catalog's snapshots of commits | with `AuthorIdentity` | `AuthorIdentityProofs` |
| `AuthorIdentity` | bindings, claims, the registration's publication; composes with `Projection` | `MCAuthorIdentity`, 2 configurations | `AuthorIdentityProofs` |

Operators named `<Definition>_<Change>` (for example `Leasable_IgnoresLease`) are mutated forms
of the definition that follows them; nothing uses them in the specifications. They document what
each property would notice.

### 2.1 JobOutbox

*State.* `row[j]` is the `Job` row: `state`, `attempts`, the lease (`none`, `live`, `expired`: what
`lease_expires_at` compares to), `due` (`next_retry_at <= now`) and `dispatched` (`dispatched_at`:
null, within the reconcile interval, older). `broker` is the set of keys with a message waiting: a
set, because a second message for a key has no effect a repeated delivery of the first does not
have, and `Lease` may leave its message in place. `worker[w]` is what a slot runs, the attempt
number it read at the lease (run_job judges the budget by that copy, `tasks.py:80`) and `held`, a
history bit: the slot's claim has been revoked neither by expiry, nor by a requeue, nor by another
worker's write. `requeuing` holds webhooks between their read of the job (`reconciliation.py:43-44`)
and their update (`45`). `sweep` is the running `reconcile` task: the list of rows its current
query returned, written later by key, and the publish job it has checked and not yet updated. `settled` stands for the publication status `VERIFIED` or
`ABANDONED`, which nudges and the sweep read.

*Actions.* One per committed statement or transaction with the broker call that follows:
`Enqueue`, `Lease`/`Refuse` (a delivery `_lease` takes or refuses), `Succeed`/`Stop`/`Fail` (the
endings of `run_job`), `SweepDue`, `SweepExpired`, `SweepPublications`, `SweepEnds` (the queries),
`SweepDispatch`, `SweepReclaim`, `SweepRequeue` (their loops), `SweepPauses`/`SweepResumes`,
`NudgeCheck`/`Nudge`, `RetryPublication`; and the environment: `LeaseExpires`, `BackoffElapses`, `DispatchAges`,
`Crash`, `SweepCrash`, `LoseMessage`. Every dispatch may be cut before the stamp
or between the stamp and the message (`SaveAndDispatch`).

*Abstractions.* A dispatch of a row with a `dispatched_at` leaves it as it is, as the code does.
There is one sweep at a time: beat runs in the single worker service (`compose.yaml`), every 120 s,
and a sweep is a handful of statements. `Stop` may or may not settle a publication, because a
publish handler ends this way both when it abandons and when it blocks. The sweep's check of a
publish job (`reconciliation.py:26-30`) and its update (`31`) are two statements under no lock.
`SweepRequeue` is the pair with nothing in between; `SweepPauses` and `SweepResumes` are the two
halves, with any step of any actor between them: a job that is leased, stops or succeeds there is
opened again all the same. Handlers are otherwise
opaque here; what a publish handler does is `Publication`.

*Bounds.* `MaxDisturbances` (3) counts crashes, lost messages, cut dispatches, leases that expire
under a live handler, webhook hints, revivals of dead jobs, administrators' retries and the
sweep's requeues that another step comes between (`SweepPauses`): enough for
the interesting meetings, an overrun and a nudge (three overlapping runs), a crash and a lost
message (the row found by the second query, then by the first), a redelivery that takes over an
expired lease which the sweep then reclaims (the case that makes the factor 2 in `RetryBudget`). The
instance has a publish job and another one, and its CONSTRAINT keeps the states in which at most one
of the two has been requested: jobs meet only in the worker slots and the broker, and no fairness is
assumed of `Enqueue`, so the constraint cuts off no behaviour of the requested job.

### 2.2 Publication

*State.* GitHub is four variables: `main` (the squash commits made since the instance began, each
with its author and whether it holds exactly the expected files), `branch`, `pull`, `checks`. A
commit is named by its place, so "is this sha the base I recorded" is an equality of places. The
database is `publication` (status, base and head sha, whether a pull request is recorded), `job`
(the outbox row reduced to open, succeeded, stopped or exhausted), `receipt` (the state of the
receipt number), `requeued`, `registered` and `retry` (an administrator's retry between its
statements). `run[w]` is one call of `run_publication`: its step,
the row in memory it works on, the sha and the pull state it last read. `overtaken` is a history
variable used by the liveness property.

*Actions.* One per GitHub call or database statement, in the order of the code: `Start`, `Look`,
`Create`, `Commit`, `Save` or `Keep`, `Find`, `Open`, `Note`, `Latest`, `Check`, `Merge`, `Merged`,
`Verify`, `Confirm`; `_base_moved` is `Abandon`, `Withdraw`, `Requeue`, three statements each
committed by itself; `Block` and `Finish` end a run. `Unavailable` ends a run after any call,
performed or not; `Crash` ends it anywhere. Outside: the three statements of an
administrator's retry (`RetryReads`, `RetryOpens`, `RetryUnblocks`); what other attempts of the
submission do to the receipt number (`EvaluatedAgain`: every evaluation sets all the submission's
numbers to LEDGER_QUEUED, `evaluation.py:189`; `CommittedByAnother`: the publication of another
attempt commits all of them but the withdrawn, `publication.py:181`); `OtherWrites`,
`CheckCompletes`, and maintainers who merge, close, reopen or push. GitHub's refusals (existing
reference, not a fast-forward, modified head, failed check, branch behind the base) are those of
`fake_github.py:109-179`; a second pull request for a branch is refused as GitHub's API does
(`fake_github.py:142-148` would open it). The message tests of `publication.py:136` decide what follows.

*Abstractions.* Two reads of `Look` are one step (argued in the module). No other writer changes a
publication's own files. Admissions only: the author branch of `_base_moved` is in
`AuthorIdentity`. `registered` may be skipped, since another evaluation or a reviewer may have moved the submission
out of ACCEPTED_PENDING by then. The other attempts' publications are not composed with this one:
their two effects on the receipt number come at any time. The merge policy is a variable, `autoMerge`,
chosen at the start and never changed; `lost` is a history variable: a crash fell between the
statements of `_base_moved`, which the next run does not take up (it finds the publication
ABANDONED and ends).

*Bounds.* `MaxWrites` (1) commits of other writers: one is enough to move any base. `MaxCommits`
(3) on a branch: the run's own, a repeated one, a maintainer's push. `MaxFaults` (2): crash,
outage, second concurrent run, intervention, effect of another attempt, in any combination of two; every property that a mutation
breaks is broken with at most two. All of them but the temporal one were also checked with three
(9.5 M states).

### 2.3 Allocation

*State.* `ledger` is the reservation ledger on the default branch, `allocation[k]` the portal's row
for operation key `k` (an evaluation attempt, which reserves its receipt number), `attempt[k]` the
evaluation and publication of `k`: phase, pinned ledger, ledger files it will publish, keys it
carries. `contributor[c]` is the number a direct contributor reserved in a clone.

*Actions.* `Pin` (fetch, also after a crash), `Reserve` (`reserve_identifier`, one transaction
under the namespace lock), `Prepare` (ledger entries of all the submission's allocations, the files
the base already has kept, the attempt's own receipt marked published), `Queue` (the recording
transaction), `Merge`, `Verify`, `Abandon`; `ContributorReserves`, `ContributorLands`. A fetch that
fails leaves the clone at an older commit (`checkout.py:44-51`): an attempt that pinned early and
reserves late is the same behaviour, so `Pin` need not be given stale commits.

*Abstractions.* One namespace. The set of used numbers, which the code collects from records,
history, receipts, snapshots and ledger (`used_values`), is the set of ledger entries: every
number on the default branch has one (`validators/checks.py` requires it of new records; the files
themselves are in `AdmissionEngine`).
`withdraw` by operation key has no caller. Contributors resolve a number that was taken by
reserving again.

*Bounds.* `Top` (5) is the instance's highest number, with `Limit` 4 and `Margin` 2, so numbers
below, within and past the margin occur, and an overrun is not cut off by the instance: the
portal's three keys cannot pass 5. Three attempts, two of one submission, give every pair of
attempts (same or different submission) plus a bystander. Two contributors can take two numbers and
clash with each other and with the portal.

*Refinement.* `IssuedNumbers` says what allocation promises and nothing else: an operation is
issued a number once, above every number issued before, and keeps it. `Allocation` implements it
with `Operations <- Keys`, `Numbers <- Values` and `issued <- IssuedTo`, the numbers of the
`Allocation` rows; ledger, contributors, attempts and withdrawals are hidden, and only `Reserve` is
a step of the abstract specification. The run checks it (`IssuesOnce`), `IssuesOnceHolds` proves it.

*A contributor's same number.* A contributor who reserved in a clone may land a number the portal
has allocated meanwhile; the attempt then keeps the ledger file it finds
(`evaluate_worker.py:85`). So `CommittedIsOnLedger` asks for an entry that names the key or a
contributor, and never another operation of the portal.

### 2.4 SubmissionWorkflow

*State.* `row` is the `Submission` row: workflow state, `draft_version`, and the draft as the set
of things in it (edits by number, sources by name). `page[t]` is what a browser tab shows and the
version it will post; `request[t]` the request it waits for. `prep[s]` is the preparation job of a
source (the outbox key is made of the file's hash, `services.py:106`), with the state, version and
candidate its process holds. `revision` is the sequence of frozen revisions, each with its review
cases; `evaluation` the sequence of attempts, each with its job, the state its process read, its
decision and how its publication ended; `review[v]` a reviewer's request.
`edits` and `opened` count the edits acknowledged, now and when the draft was last opened by a
repair. `reused` and `twice` are history bits for two interleavings that break the plain form of a
property (below).

*Steps.* A step is what happens between two waits: a network call, the parsers, the engine, a row
lock. What a process read before a wait and uses after it is kept with it: `prep[s].candidate` and
`.seen`, `evaluation[k].seen`, `review[v].seen`, `request[t].latest`. `transition` judges the
state of the caller's object and writes the row whatever it holds (`state.py:81-87`); the model
does the same (`Permitted` of the state seen, `Move`). Two gaps between statements of one
transaction are steps, since other transactions commit in them: `Refresh` before `WritePrepared`
(`services.py:316-324`), and `CountOpen` before `Resolve` (`737-738`).

*Actions.* `StartFromReference`, `EnqueueFromReference`, `AskUpload`, `Upload`; `StartPreparing`,
`Refresh`, `WritePrepared`, `PreparationFails`, `PreparationDies`; `Load` (a GET, and a POST whose
editability check passed then), `Post` (the check of a later POST), `Save`, `TakeVersion` (the
`refresh_from_db` after a save, `views.py:231`, `303`), `Confirm`, `AskRepair`, `Repair`;
`StartEvaluation`, `Evaluate`, `EvaluationDies`, `EvaluationUnavailable`, `EvaluationReturned`,
`RecordDecision`; `AskReview`, `ReturnToResearcher`, `CountOpen`, `Resolve`. `Verify` and `Abandon`
are the two ends of a publication that touch a submission; how they come about is `Publication`.

*Abstractions.* A job ends, is tried again, or is exhausted; the outbox is `JobOutbox`. One
evaluation job does not run twice at once: overlapping runs of one key end in the unique
`operation_key` of the attempt, and a recorded attempt never runs again (`evaluation.py:66-68`).
Conditions that depend on the record are fixed when it is frozen; those that depend on claims and
bindings (`Standing`) may come and go between attempts. Left out: permissions, limits on files,
questions, and refusals that ask the researcher for an answer first. `add_source` and `add_relation`
are a `Save` by a tab that then loads again.

*Bounds.* The run `workflow` explores two halves of its instance (`OneHalf`). In the first
(`AboutStates`) there is one tab and no edit or upload, but preparation, two slots, two
reviewers, two conditions, two revisions, two attempts and one fault: every pair of preparation,
evaluation, review and repair overlaps. Once the fault has happened and a second revision was frozen,
one reviewer works at a time; without that restriction the half has 4.4 M states and the same
result. In the second (`AboutDrafts`) there are two tabs, two edits, a file both may upload and two revisions, with one job at a time, no review and no fault: stale
pages, two confirmations, a repair under a running preparation. A publication stays pending there
and a second attempt stays queued, which changes no draft. Three attempts were tried in variants
without faults, with the same result; the theorems know no bounds.

### 2.5 ResearchRecord, AdmissionGates, RegistryChecks

*A record* gives each of its fields in one of six ways: `stated`, `blank` (an empty string, list or
block), `null`, `undeclared` (no such key), `alien` (a value of another vocabulary or pattern) or
`partial` (a structured field with an entry half filled). Reference lists also have the ids they
name, the missingness block its classes of gaps; titles and versions are numbers. That is what the
gates, the checks, the editor and the schema tell apart, each with tests of its own (`in`, `get`,
truth, `is None`, `minLength`), so the differences between those tests are in the model.

*An evaluation* is the set of the details the gates record: gate, verdict (`block` or `fail`), field and
cause. The decision, the receipt's missing and accepted fields and the fields the portal names for a
repair (`RepairFocus`, `preparation.py:394`, which matches patterns in the text of the details) are
read off that set.

*Checks* are sets of issues, one operator per check of `validators/checks.py` and the ledger check of
`validators/allocation.py`; `ValidateRegistry` is their union. Left out: schemas of the other kinds
of records, dates and descriptive fields of authors and relations, explicit authority scopes, the
format of ledger entries.

These modules have no state; `Intake` and `AdmissionEngine` use them.

### 2.6 Preparation and Intake

`Preparation` has the steps between files and a frozen record as operators: `Assembled`
(`assemble_candidate`), `Suggested`, `NewSources`, `Prepared` (the write of a preparation), `Ready`
and `Submittable` (`assess`), `Posted` (the editor's round trip of the whole record),
`ConfirmedRows`, `Frozen`. What a parser finds in a file is a value of `File`; what keyword counts,
title similarity and DOI matches come to is a value of `Outcome`. Both are inputs. The loop of
`assemble_candidate` over the extractions is stated by what it comes to: a field keeps the value the
draft has if that is truthy, else it takes that of the first file with a truthy one (`Tellers`), else of
the last file that has the key at all (`Sayers`, for record files: a falsy value overwrites a falsy
value), else its default. Of a document only the title is a field of the record.

`Intake` puts them in order. *State*: the registry `lib`; the work's `uploads`, `draft` (record,
evidence rows, the underscore keys), `intended` id, `phase`, last frozen `revision` and its
`receipt`; and the histories the properties need: what the receipt `before` a repair listed and
which fields were `repaired`, the `origin` of each value of the draft (researcher, source, guess,
default), whether the form saved last (`formed`), whether readiness called the frozen draft `ready`.

*Actions*: `Prepare` (an upload and its preparation; with `"source_ids": null` the handler raises,
`services.py:292` and `298`, which is a guard here), `SaveForm` (save and autosave), `Confirm`,
`HandIn` (the command line takes a record as it is, against the registry as it is: only the portal's
worker adds the proposed sources), `Evaluate`, `Register` (with the registry's own
checks, as the required check does), `StartRepair`, `SupplyListed` (an author supplies what the
receipt lists, or what the portal names, and nothing else), `Grow` (others register). Jobs, tabs and
review cases are `SubmissionWorkflow`'s, so a handler is one step here.

*Bounds*: at the command line a complete record with one deviation or with two (every way of every
field, each kind of reference, each class of gap; and with seven second deviations that change what
a gate reads of the first), two registries; in the portal four files (a manuscript, a full record
file, a partial one, one with a malformed `object_id`), three outcomes of the analysis, six posts of the form, two uploads, two
revisions. The properties relate pairs of fields at most, so a third deviation shows nothing new.

### 2.7 AdmissionEngine

*State.* A tree is a function from paths to contents. `main` is the default branch; each branch has
the commit it was cut from (`base`), its working `tree` and the engine's `run` in it. Contents of a
receipt bundle carry the run's stamp, which tells two runs with equal outcomes apart.

*Actions.* `evaluate_and_write --register` writes file by file: `Admit` (evaluate, choose the
number), `MoveMember` for each of the four members of the bundle, `Archive`, `Write`, `Publish`;
`Crash`, also what a raised conflict amounts to, leaves the rest in the tree, and a later run of the
same command finds it. `Work` is the portal's worker from dependency writing to the ledger: one
step, since its checkout is thrown away when it dies. `Reserve`, `Withdraw`, `Edit` and `Release`
are what contributors do, `Checkout` a fresh clone, `Land` the merge: git's three-way merge path by
path, refused on conflict, and the required check (`Validate` of the merged tree). The portal's own
pull request merges at its base only.

*Bounds.* Two branches, three evaluations, edits and releases together (`MaxSteps`), three works:
two versions of one object and one that is returned. Two crashed runs and a third that meets
their rests, two releases cut in parallel after an edit, and a receipt number taken on both branches all
fit. Authors, relations and renames of ids do not change while the engine runs.

### 2.8 Projection and AuthorIdentity

`Projection`: `main[k]` is what commit `k` of the default branch registers; `snapshot[k]` the
`ProjectionSnapshot` row, `refresh[k]` the job of a verified commit, `reader[w]` a refresh in
progress. A refresh reads a checkout (`Refresh`, or an operator's `Reindex`; a failed fetch is not
noticed, `checkout.py:49`), takes `refreshed_at` once everything is rebuilt (`Stamp`, `projection.py:129`),
clears what its transaction takes for current (`Clear`) and writes its row (`Write`): PostgreSQL's
default isolation lets two of them overlap between any two of these. `Interrupted`
is a crash or an exhausted job. `Shown` is `current_projection`.

`AuthorIdentity` has, per account, the binding, its claims, the outbox row of the registration, the
reservation under the binding's operation key and the publication of that key, reduced to what comes
back. *Actions*: `StartRegistration`, the four ends of `register_author` (`RegisterNothing`,
`RegisterWaits`, `RegisterNameless`, `Register`); a request for a claim in its three statements, which take no
lock (`Claim`, `ClaimReads`, `ClaimMarks`); `Verify`, `Deny`, `OperatorLinks` (the command);
`BranchOff`, `Merge`, `Confirm`; `_base_moved` for an author as `Abandon`, `Release`, `Restart`, three
statements with `PublisherDies` between them; `OtherCommits`. A job that has committed may run again
(`Ends`).

*Bounds.* Two accounts and two readers, two ids registered before of which one may be claimed, one
commit of others, no refresh begun after three were stamped, one failure. A CONSTRAINT keeps the states
with claims and grants or those with refreshes: they share only the ids that `register_author` reserves.
An instance without the constraint (one account, both ids claimable, no refresh begun after two; 13.2 M
states) and a variant in which a denied claim may be made again were checked with the same result, and
the theorems cover both halves together.

## 3. Runs

| Run | Question | Result |
|---|---|---|
| `outbox` | do overlapping deliveries, sweeps, webhooks and crashes break the row's rules, and is every requested job finished in the end? | holds; 157 k states, 1 min |
| `publication` | can overlapping or restarted runs merge twice, register unpublished work, flip a receipt, merge on another base; does every publication come to an end, an abandoned one with a new evaluation? | no; yes, up to exhausted jobs and hand retries under a live run; 1.1 M states, 2 min |
| `publication_crash` | is a candidate abandoned only when the base moved? | **no**: after a crash between commit and record the run mistakes its own commit |
| `allocation_safety` | are numbers unique, on the ledger, past the margin only by what the pinned commit does not show; does allocation implement `IssuedNumbers`? | holds; 2 M states, 1 min |
| `workflow` | is the state a researcher reads backed by a record, does nothing wait unattended, is nothing decided over an open review case; can tabs, uploads, confirmations and repairs overwrite or freeze what nobody saw? | yes, up to attempts that crowd each other; no, as long as no version is reused; 1.1 M states, 1 min |
| `workflow_edits` | does an acknowledged edit survive a preparation? | **no**: the candidate of a job that read the draft earlier is written over it |
| `intake` | do gates, registry checks, editor, readiness and repair agree on every way a field can be given? | yes, up to the cases the properties name; 159 k states, 2 min |
| `intake_papers` | is what counts as ready reliably extracted or confirmed? | **no**: a second preparation deletes the evidence that a source was only guessed |
| `gates_blank` | is a record that only leaves things out returned and never rejected? | **no**: a field given as null is a schema error of keyword `type`, a failure |
| `engine` | do crashes between files and git's merges leave receipts, history and releases consistent? | yes; 676 k states, 2 min |
| `identity` | does an account keep its AuthorID, and does the catalog show it? | yes; 2.1 M states, 1.5 min |
| `identity_stuck` | does a registration come to its end? | **no**: after a moved base it is enqueued under the key of a job that has succeeded |

The five violated properties are stated from the repository's own documents, docstrings and tests; each
is a finding in `PROJECT.json` with the quotation.

### Conditional properties

Some properties hold up to a case they name, because the code does go wrong in that case. Each of
these cases is a hazard in `PROJECT.json`:

- `AbandonedIsRequeued`: unless the process died between the statements of `_base_moved`
  (`publication.py:144`, `161`, `162`). What is lost then is the new evaluation.
- `FreezesWhatWasShown`, `TabsDoNotOverwrite` (`reused`): a tab whose save is followed at once by a
  preparation's write receives the version of a draft it has not seen (`views.py:231`), and a
  preparation that refreshes before a save and writes after it gives the version of the save to
  another draft (`services.py:316-319`). From then on the token no longer tells drafts apart.
- `Attended` (`twice`): when two requests store the same file at once, the later one sets PREPARING
  although the job has already succeeded (`services.py:103-106`), and nothing moves the submission
  until a file is added. An exhausted attempt counts as attended: administrators see it.
- `DecidedIsReviewed`, `Attended` (`Crowded`): when one case has been resolved twice (two attempts with a
  review) and a moved base has queued a third attempt, one may open a case while another records a
  decision (`services.py:727`), or find a case another opened and end without an effect.
  "Scholarly interpretation and disputed attribution require explicit resolution"
  (`docs/PORTAL_ACCEPTANCE.md:45`) holds up to that case.
- `RepairSuffices`: the fields the portal names miss those of five fields whose messages
  `repair_focus` does not recognise; and gate F reads the governing references only once there is a
  relations list, so a repair may uncover one more detail there.
- `ReadyIsStated`: a record file's key counts as the researcher's statement whatever its value, so a
  guess that fills a key a file leaves empty, and the same value told by another file, passes as
  confirmed (`extraction.py:317`); and a proposed source loses its uncertain evidence at the second
  preparation (`services.py:295`).
- `FormSavedIsEvaluable`: up to declared gaps and to what references name, which the editor cannot
  know; and up to a malformed `object_id` of an uploaded record file, which the form keeps
  (`forms.py:179`) and neither shows nor asks for: gate A rejects it, and no repair can change it.
- `OneRunPerReceipt`: a crashed run leaves members of its bundle under a number, and another run
  elsewhere may complete a bundle under it; git merges the files.
- `ReleasedIsKept`: unless a release was cut in a checkout that has not the latest manifest and the two
  disagree.
- `IdentityIsKept`: a grant (a verified claim, the operator's link) changes the id, and a later
  denial of another claim or a moved base can set it back to the account's own reservation.
- `RegisteredIsShown` speaks of a binding whose own commit has been refreshed: unless an older commit was stamped, or began its transaction, after the newer one's, or a fetch failed.

Attempts in `JobOutbox` are bounded by the budget only together with the disturbances: `_lease`
counts an attempt and never compares it with `max_attempts` (`tasks.py:55`), so a job that kills its
worker is started again, contrary to "bounded retries" (`tasks.py:1`); and a requeue written over a
job that stopped in between reopens it past its budget. `RetryBudget` states the bound that does
hold.

`CHECK_DEADLOCK FALSE` is set everywhere but in the outbox: publications that are all settled,
attempts that are all verified, blocked or abandoned, a submission, a work or a branch whose bounds
are spent really stop. The outbox never stops (the sweep goes on), and deadlock is checked there.

Symmetry is declared over contributors (`MCAllocation`), branches (`MCAdmissionEngine`), accounts
and readers (`MCAuthorIdentity`), and tabs, reviewers, files and conditions (`SubmissionWorkflow`),
which no action distinguishes. The runs with a temporal property (`outbox`, `publication`,
`identity_stuck`) declare none.

### Fairness

`JobsSettle` assumes that clocks advance (leases expire, backoffs elapse, dispatches age), that a
handler ends (Celery's hard time limit sees to it), that beat goes on running the sweep, and that a
message which waits while slots become free again and again is delivered (strong fairness of
`Lease`/`Refuse`: other deliveries may keep taking the slot, the queue is first in, first out).
Nothing is assumed of crashes, losses, webhooks or people, but they are bounded by
`MaxDisturbances`; with unbounded crashes the property is false for a trivial reason, and with
unboundedly many requeues written over a job that has just ended, it is false because each of them
opens the job again (`reconciliation.py:26`, `31`).
`PublicationsSettle` assumes that a run goes on, that the outbox starts an open job again and again
(what `JobsSettle` establishes, with strong fairness because another publication may occupy the
slot), that the check completes, and, when automatic merging is off, that maintainers merge.
In `AuthorIdentity`, `FairSpec` asks that a queued registration runs (`JobsSettle`) and that a
publication goes on (`PublicationsSettle`), weakly, as both are. It is what makes the
counterexample of `identity_stuck` one: with everything fair, the registration still waits.

## 4. Proofs

All theorems hold for every value of the constants under the named assumptions of the modules.

**JobOutboxProofs** (`PublishJobsAssumption`, `NoJobAssumption`, `MaxAttemptsAssumption`,
`DisturbancesAssumption`). `TypeCorrect` is inductive by itself. `OneClaimHolds` needs
`ClaimBacked`: a held claim is backed by a leased row with a live lease. That is what makes `_lease`
refuse a second worker, and every action that ends the lease also revokes the claims.
`RecoverableHolds` needs `InReach` (a row read by the sweep or by a nudge may be overwritten later
in any state, so the strengthening speaks of every row and of what the pending overwrites do to it).
`SucceededIsFinalHolds` is an action property over the same invariants.

`RetryBudgetHolds` is an account. `Chances(j)` counts what may still raise the row's attempts without
a new disturbance: what the row's own state allows (`RowChances`), a sweep that has read the row as
expired or checked it for a requeue (`Chosen`), a webhook that has read the job and will requeue
it, and every run that holds an attempt number below the budget and, when it
fails, will write `retry` (`FailingRuns`; a run may do so long after it lost the row). `InBudget`
says that attempts and chances together stay within `MaxAttempts + 2 * disturbances`. Each action
either spends a chance or is paid for by a disturbance, which buys two: the lease that expires
under a live handler leaves both the handler's own ending and the sweep's reclaim.

**PublicationProofs** (`NoOpAssumption`, `BoundsAssumption`). `OneMergeHolds` and
`RegisteredIsPublishedHolds` need `CommitsAreMerged` (what is on the default branch has a merged pull
request, and nothing undoes that) and `ConfirmsReadBack` (a run that confirms has read the files
back). For `NoStaleMergeHolds` the recorded bases have to be tied to the branches: `BranchesStand`
and `RunsStand` say that the base of a row, of a row in a run's memory, and the sha it last read
all lie on the commit the branch was cut from, and that a run between the comparison with the
default branch and the merge has that base. `AbandonedIsRequeuedHolds` needs
`AbandonedIsAttended`: after the first statement of `_base_moved` some run is at the second or the
third, unless one was lost there. `ReceiptIsFinalHolds` and `NoStaleMergeHolds` are
action properties. `NoStaleMerge` is about the base that was recorded when the run saved its branch
(`publication.py:80`, `86`), not about the one the evaluation used.

**AllocationProofs** (`SubmissionAssumption`, `HoldersAssumption`, `LimitAssumption`).
`DistinctValuesHolds` rests on `NextAbove` exceeding every member of the set it is given.
`CommittedIsOnLedgerHolds` rests on the inductive invariant `Inductive`: types, distinct values,
*honest* files (every ledger entry, pinned or prepared, under a number names its key or a
contributor: `AllHonest`), pinned bases that lie in the past of the ledger (`BaseIsPast`), carried
allocations that are filed in the candidate or already on its base (`CarriedIsFiled`), and
committed ones that are on the ledger (`CommittedIsFiled`). Without `BaseIsPast` the merge of an
attempt could be thought to remove an entry. `Inductive` was checked with TLC over all states of the
instance before it was proved.

`MarginOverrunHolds` is an action property about cardinalities. The number a reservation issues is
within the margin or follows one the portal issued (`IssuedNext`), so from the margin up to any of its
numbers the portal issued every one (`Chained`, the inductive invariant). A pinned commit that passes
the check shows none of them; they map onto the interval from the margin to the new number, which
therefore is no longer than the set of the portal's numbers that commit does not show
(`OverrunCounted`).

`IssuesOnceHolds` is the refinement: `Allocation` implements `IssuedNumbers` for every set of keys,
submissions, contributors and every limit. The initial states map to the initial state; `Reserve`
of a key without a row is `Issue` of that key, since the new number exceeds every number the
portal's rows hold; every other action leaves the numbers of the rows as they are. No strengthening
but the type invariant is needed.

**AuthorIdentityProofs** (`AccountsAssumption`, which asks for finitely many registered authors, and
`ReadersAssumption`). The invariant `Inductive` covers both composed modules. `IdentityIsKeptHolds`
needs that reservations are new (`ReservedIsNew`), that an id shown in a binding is the account's
reservation or one it was granted (`IdIsOwn`) and that no two accounts have one id
(`IdsAreDistinct`). `RegisteredIsShownHolds` needs more: a verified publication's author is on every
later commit (`PublishedIsMerged`, with `RegistryGrows`); a refresh reads the commit it was queued for
and leaves a row of it, unless a fetch was missed (`RefreshedIsRead`); `refreshed_at` follows
commits unless they were refreshed out of order (`ReadInOrder`); and then the newest row is current and no
transaction in progress is about to clear it, however the statements of two refreshes interleave
(`NewestIsCurrent`).

**SubmissionWorkflowProofs** (`ReferencesAssumption`, `ConditionsAssumption`,
`ContentAssumption`, `DecisionsAssumption`, `LimitsAssumption`). `TypeCorrect` needs that what a confirmed
submission, a repair and a review refer to exists (`RevisionStands`, `RepairStands`,
`ReviewStands`). `FreezesWhatWasShownHolds` and `TabsDoNotOverwriteHolds` rest on `VersionsRise`: as
long as no version was reused, equal versions mean equal drafts, for the row, every tab and every
revision. `StateIsBackedHolds` needs `DecisionsAreRecorded`.
`DecidedIsReviewedHolds` and `AttendedHolds` are about attempts on one revision that overlap. That
two are alive together happens only by a requeue and by a resolution (`SecondIsRequeued`,
`AliveTogether`), an attempt without a review follows cases that were opened (`CasesWereOpened`), so an
open case beside a live attempt is the crowded case (`OpenIsCrowded`); what waits in PREPARING,
SUBMITTED or EVALUATING has a job that will move it (`PreparingIsAttended`,
`SubmittedIsAttended`, `EvaluatingIsAttended`, with `UploadStands` for the gap between a file and its
job).

**GateProofs** are lemmas about the operators, for every record and every registry: what an
evaluation without details says of each field, that it stays without details in a registry that has
more, and which issues a record with such an evaluation can bring into the registry's own checks.

**IntakeProofs** (`IntakeAssumption`: the library does not hold the name given to a source not yet
added, files are named by ids (`admit.py:43`), a document says no field but its title;
`NewSourceAssumption`). `StaysAcceptedHolds` needs `Standing`: registries have unique ids and what
was accepted stays so under `Extends`. `AcceptedIsCleanHolds` then follows from `GateProofs`.
`AnswerIsFollowedHolds` needs `IdsKept`, that a draft's id is its own, a file's or an earlier
answer's. `ReadyIsStatedHolds` needs `Vouched`: every guessed value of the draft has an
uncertain row or is of the two named cases (`UncertainRows`, `Guessed`).
`FormSavedIsEvaluableHolds` needs `FormKept`: a form's record is `Whole` (no field null, undeclared or
half filled but where `Declarable`), an alien value comes from an upload (`AlienIsUploaded`), and what was
frozen is what was saved (`Frozenly`). `RepairSufficesHolds` needs `Mended`: a draft under repair
is the refused record but for the fields supplied; `SufficesFor` is then a fact about evaluations of
two such records.

**AdmissionEngineProofs** (`EngineAssumption`: works are records, proposals are of sources, edits of
governing and source records; `SeedAssumption`: the seed is a repository before its first receipt
and release that passes the checks). `TypeCorrect` rests on `TreeStands`: every file is what its
directory says. The four properties rest on one invariant, `Repository`, of three layers.
*Trees*: each tree is later than the commit it was cut from, and so is the default branch (`Later`:
receipts, archived states and manifests stay as they are, a state of an object stays as the current
one or is archived). Two trees later than one base, merged without conflict, give a tree later than
both (`MergedKeeps`); that is `StatesAreKept`. *Soundness of a tree* (`Sound`): its objects are the
seed's or have their bundle (`Accepted`), which gives `RegisteredIsAccepted`; the manifests a
manifest was cut after are there (`Closed`), and where two disagree on a record, two do of which
neither was cut after the other (`Agree`). `Agree` survives a release because a released hash is copied,
and a merge because a manifest that only one side has names nothing that only the other has; with the required
check on the merged tree it gives `ReleasedIsKept`. *Runs and stamps*: a run in the middle of its bundle
has the members it moved, one that registers has all four and has archived what it writes over
(`Running`); a stamp is the stamp of one content (`OneContent`), which gives `OneRunPerReceipt`.

**Only model-checked:** the liveness properties `JobsSettle` and `PublicationsSettle`, which are beyond
the prover. The properties that runs find violated have counterexamples and no theorem.

## 5. Not modelled

- `validators/profiles.py`, `bridges.py`, `search.py`, `sitegen.py`: functions of the registry whose
  correctness is their wording and layout.
- Parsers, keyword counting, title similarity, URL fetching, ZIP export: they are the inputs of
  `Preparation`.
- HTTP, sessions, permissions, HTML, e-mail; events and logs (written, never read back).
- Webhook signatures and delivery deduplication; token refresh in `github_app.py`.
- The sizes of fields: an operation key of a receipt has 78 characters (`evaluation.py:92`), its column 64
  (`registry_bridge/models.py:25`); operation keys are atomic here. That hazard has no property.
- GitHub's own answers where `fake_github.py` differs from them (`github_app.py:128`).
- The file lock and the empty file between creation and write within one clone.

Behaviours the models show and no property speaks of: a reservation withdrawn in
one branch and committed in another passes the ledger check; returning an object to an earlier
version makes the archive refuse (`RegisterConflict`); cycles of supersession pass the checks; a
maintainer's merge between two reads of one run makes it abandon work that is merged (`OneMerge` and
`ReceiptIsFinal` bound what follows).

## 6. Plan

1. `Admission`, an abstract specification of an admission (confirmed, decided, published or
   superseded) that the composition of workflow and publication implements.
2. Changes and removals of registered records in `Intake` (`StaysAccepted` speaks of growth only);
   the file lock.
