----------------------------- MODULE JobOutbox -----------------------------
(***************************************************************************)
(* The portal's background-job outbox: core/models.py (Job, enqueue,        *)
(* dispatch), core/tasks.py (_lease, run_job, _finish, reconcile) and the   *)
(* requeueing of publication jobs (registry_bridge/reconciliation.py,       *)
(* submissions/review_urls.py).  PostgreSQL rows are authoritative; the     *)
(* broker only delivers, and may lose or repeat a delivery.                 *)
(*                                                                         *)
(* One action is one committed database statement or transaction, together *)
(* with the broker call that follows it.  Time is abstracted to what the    *)
(* code compares: a lease is live or expired, a retry is due or not, a      *)
(* dispatch is recent or old.                                               *)
(***************************************************************************)
EXTENDS Naturals, FiniteSets

CONSTANTS
    Jobs,            \* operation keys of outbox rows
    PublishJobs,     \* those of registry_bridge.publish jobs
    Workers,         \* Celery worker slots
    NoJob,           \* an idle worker slot
    MaxAttempts,     \* PORTAL_JOB_MAX_ATTEMPTS
    MaxDisturbances  \* bound: crashes, lost messages, overruns, hints, re-requests,
                     \* requeues that another step comes between

ASSUME PublishJobsAssumption == PublishJobs \subseteq Jobs
ASSUME NoJobAssumption == NoJob \notin Jobs
ASSUME MaxAttemptsAssumption == MaxAttempts \in Nat \ {0}
ASSUME DisturbancesAssumption == MaxDisturbances \in Nat

VARIABLES
    row,          \* row[j]: the Job row
    broker,       \* keys with at least one run_job message waiting
    worker,       \* worker[w]: what the slot runs, and the attempt number it read
    requeuing,    \* nudges that passed their check and have not yet updated the row
    sweep,        \* the reconcile task: its phase, the rows it read for it, and
                  \* the publish job it has checked and not yet updated
    settled,      \* publish jobs whose publication is VERIFIED or ABANDONED
    disturbances  \* disturbances so far

vars == <<row, broker, worker, requeuing, sweep, settled, disturbances>>

-----------------------------------------------------------------------------
States      == {"absent", "queued", "leased", "succeeded", "failed", "dead"}
Finished    == {"succeeded", "dead"}
LeaseStates == {"none", "live", "expired"}
SweepPhases == {"idle", "due", "expired", "publications"}

Row == [state: States, attempts: Nat, lease: LeaseStates, due: BOOLEAN,
        dispatched: {"null", "recent", "old"}]

Slot == [job: Jobs \cup {NoJob}, attempt: Nat, held: BOOLEAN]

NoRow == [state |-> "absent", attempts |-> 0, lease |-> "none", due |-> TRUE,
          dispatched |-> "null"]

IdleSlot == [job |-> NoJob, attempt |-> 0, held |-> FALSE]

IdleSweep == [phase |-> "idle", todo |-> {}, at |-> NoJob]

Init ==
    /\ row = [j \in Jobs |-> NoRow]
    /\ broker = {}
    /\ worker = [w \in Workers |-> IdleSlot]
    /\ requeuing = {}
    /\ sweep = IdleSweep
    /\ settled = {}
    /\ disturbances = 0

-----------------------------------------------------------------------------
(* A disturbance is an event the liveness argument bounds but safety does   *)
(* not: each one costs one unit.                                            *)
Disturb ==
    /\ disturbances < MaxDisturbances
    /\ disturbances' = disturbances + 1

(* The three ways a dispatch can end: the row is stamped and the message    *)
(* sent; the process dies between the two; it dies before either.           *)
DispatchOutcomes == {"sent", "stamped", "crashed"}

Stamped(r) ==
    [r EXCEPT !.dispatched = IF @ = "null" THEN "recent" ELSE @]

(* Row j becomes r, then dispatch(j) runs.  A dispatch cut short is a       *)
(* disturbance; so is the whole step when it is not free.                   *)
SaveAndDispatch(j, r, outcome, free) ==
    /\ row' = [row EXCEPT ![j] = IF outcome = "crashed" THEN r ELSE Stamped(r)]
    /\ broker' = IF outcome = "sent" THEN broker \cup {j} ELSE broker
    /\ IF free /\ outcome = "sent" THEN UNCHANGED disturbances ELSE Disturb

(* Every claim a worker still holds on j is revoked: its lease ran out, or  *)
(* another actor moved the row under it.                                    *)
Revoked(j) ==
    [w \in Workers |-> IF worker[w].job = j
                       THEN [worker[w] EXCEPT !.held = FALSE]
                       ELSE worker[w]]

-----------------------------------------------------------------------------
(* enqueue(): a new row, or one still waiting, is dispatched after commit;  *)
(* a dead row is revived with a fresh budget; a leased or a succeeded row    *)
(* is left alone.                                                           *)
QueuedRow(r) == IF r.state = "absent" THEN [r EXCEPT !.state = "queued"] ELSE r

RevivedRow(r) ==
    [r EXCEPT !.state = "queued", !.attempts = 0, !.due = TRUE,
              !.dispatched = "null", !.lease = "none"]

Enqueue(j, outcome) ==
    /\ \/ /\ row[j].state \in {"absent", "queued", "failed"}
          /\ SaveAndDispatch(j, QueuedRow(row[j]), outcome, TRUE)
       \/ /\ row[j].state = "dead"
          /\ SaveAndDispatch(j, RevivedRow(row[j]), outcome, FALSE)
    /\ UNCHANGED <<worker, requeuing, sweep, settled>>

-----------------------------------------------------------------------------
Leasable_IgnoresLease(r) ==
    /\ r.state \in {"queued", "leased", "failed"}
    /\ ~(r.state = "failed" /\ ~r.due)

Leasable_IgnoresSuccess(r) ==
    /\ r.state \in {"queued", "leased", "failed", "succeeded"}
    /\ ~(r.state = "leased" /\ r.lease = "live")
    /\ ~(r.state = "failed" /\ ~r.due)

(* _lease(): what stops a delivery from starting the handler.               *)
Leasable(r) ==
    /\ r.state \in {"queued", "leased", "failed"}
    /\ ~(r.state = "leased" /\ r.lease = "live")
    /\ ~(r.state = "failed" /\ ~r.due)

LeasedRow(r) ==
    [r EXCEPT !.state = "leased", !.attempts = @ + 1, !.lease = "live"]

(* A worker takes a delivery and leases the row.  The broker may deliver    *)
(* the same message again.                                                  *)
Lease(w, j) ==
    /\ worker[w].job = NoJob
    /\ j \in broker
    /\ Leasable(row[j])
    /\ row' = [row EXCEPT ![j] = LeasedRow(@)]
    /\ worker' = [worker EXCEPT ![w] =
                    [job |-> j, attempt |-> row[j].attempts + 1, held |-> TRUE]]
    /\ \E again \in BOOLEAN : broker' = IF again THEN broker ELSE broker \ {j}
    /\ UNCHANGED <<requeuing, sweep, settled, disturbances>>

(* A delivery that _lease() refuses is acknowledged without effect.         *)
Refuse(w, j) ==
    /\ worker[w].job = NoJob
    /\ j \in broker
    /\ ~Leasable(row[j])
    /\ broker' = broker \ {j}
    /\ UNCHANGED <<row, worker, requeuing, sweep, settled, disturbances>>

(* run_job's three endings.  Each writes the row by primary key, whatever    *)
(* its state is by then, and judges the budget by the attempt number the     *)
(* worker read when it leased the row.                                      *)
EndedRow(r, s) == [r EXCEPT !.state = s, !.lease = "none"]

FailedRow_OffByOne(r, attempt) ==
    IF attempt > MaxAttempts
    THEN EndedRow(r, "dead")
    ELSE [EndedRow(r, "failed") EXCEPT !.due = FALSE, !.dispatched = "null"]

FailedRow(r, attempt) ==
    IF attempt >= MaxAttempts
    THEN EndedRow(r, "dead")
    ELSE [EndedRow(r, "failed") EXCEPT !.due = FALSE, !.dispatched = "null"]

End(w, r) ==
    LET j == worker[w].job
    IN  /\ row' = [row EXCEPT ![j] = r]
        /\ worker' = [Revoked(j) EXCEPT ![w] = IdleSlot]
        /\ UNCHANGED <<broker, requeuing, sweep, disturbances>>

(* The handler returns.  publish() returns only once its publication is     *)
(* VERIFIED or ABANDONED.                                                   *)
Succeed(w) ==
    /\ worker[w].job # NoJob
    /\ End(w, EndedRow(row[worker[w].job], "succeeded"))
    /\ settled' = settled \cup ({worker[w].job} \cap PublishJobs)

(* DeterministicFailure, or no handler registered: the job stops.  A        *)
(* publication whose base moved is ABANDONED on this path.                  *)
Stop(w) ==
    /\ worker[w].job # NoJob
    /\ End(w, EndedRow(row[worker[w].job], "dead"))
    /\ settled' \in {settled, settled \cup ({worker[w].job} \cap PublishJobs)}

(* Any other exception: retry with backoff, or stop when the budget is      *)
(* spent.                                                                   *)
Fail(w) ==
    /\ worker[w].job # NoJob
    /\ End(w, FailedRow(row[worker[w].job], worker[w].attempt))
    /\ UNCHANGED settled

-----------------------------------------------------------------------------
(* Time.  PORTAL_JOB_LEASE_SECONDS (600) is shorter than the time limit of   *)
(* a task (900), so a lease may run out under a live handler.               *)
LeaseExpires(j) ==
    /\ row[j].lease = "live"
    /\ row' = [row EXCEPT ![j].lease = "expired"]
    /\ worker' = Revoked(j)
    /\ IF \E w \in Workers : worker[w].job = j /\ worker[w].held
       THEN Disturb
       ELSE UNCHANGED disturbances
    /\ UNCHANGED <<broker, requeuing, sweep, settled>>

BackoffElapses(j) ==
    /\ ~row[j].due
    /\ row' = [row EXCEPT ![j].due = TRUE]
    /\ UNCHANGED <<broker, worker, requeuing, sweep, settled, disturbances>>

DispatchAges(j) ==
    /\ row[j].dispatched = "recent"
    /\ row' = [row EXCEPT ![j].dispatched = "old"]
    /\ UNCHANGED <<broker, worker, requeuing, sweep, settled, disturbances>>

(* Faults.  A worker process dies (restart, out of memory, hard time limit): *)
(* its row stays leased; late acknowledgement may redeliver the message.    *)
Crash(w) ==
    /\ worker[w].job # NoJob
    /\ Disturb
    /\ \E again \in BOOLEAN :
         broker' = IF again THEN broker \cup {worker[w].job} ELSE broker
    /\ worker' = [worker EXCEPT ![w] = IdleSlot]
    /\ UNCHANGED <<row, requeuing, sweep, settled>>

LoseMessage(j) ==
    /\ j \in broker
    /\ Disturb
    /\ broker' = broker \ {j}
    /\ UNCHANGED <<row, worker, requeuing, sweep, settled>>

-----------------------------------------------------------------------------
(* reconcile(), scheduled by beat: one sweep at a time.  Each query is read *)
(* once, before its loop; each row is then written by primary key.          *)
DueRows == {j \in Jobs : /\ row[j].state \in {"queued", "failed"}
                         /\ row[j].due
                         /\ row[j].dispatched # "recent"}

ExpiredRows_NeverRead == {}

ExpiredRows == {j \in Jobs : row[j].state = "leased" /\ row[j].lease = "expired"}

SweepDue ==
    /\ sweep.phase = "idle"
    /\ sweep' = [phase |-> "due", todo |-> DueRows, at |-> NoJob]
    /\ UNCHANGED <<row, broker, worker, requeuing, settled, disturbances>>

SweepExpired ==
    /\ sweep.phase = "due" /\ sweep.todo = {}
    /\ sweep' = [phase |-> "expired", todo |-> ExpiredRows, at |-> NoJob]
    /\ UNCHANGED <<row, broker, worker, requeuing, settled, disturbances>>

(* The publications in flight whose row was not touched for an interval.    *)
SweepPublications ==
    /\ sweep.phase = "expired" /\ sweep.todo = {}
    /\ \E stale \in SUBSET (PublishJobs \ settled) :
         sweep' = [phase |-> "publications", todo |-> stale, at |-> NoJob]
    /\ UNCHANGED <<row, broker, worker, requeuing, settled, disturbances>>

SweepEnds ==
    /\ sweep.phase = "publications" /\ sweep.todo = {}
    /\ sweep' = IdleSweep
    /\ UNCHANGED <<row, broker, worker, requeuing, settled, disturbances>>

(* The sweep goes on to the next row; a dispatch cut short ends it.         *)
NextRow(j, outcome) ==
    sweep' = IF outcome = "sent"
             THEN [sweep EXCEPT !.todo = @ \ {j}, !.at = NoJob]
             ELSE IdleSweep

SweepDispatch(j, outcome) ==
    /\ sweep.phase = "due" /\ j \in sweep.todo
    /\ SaveAndDispatch(j, row[j], outcome, TRUE)
    /\ NextRow(j, outcome)
    /\ UNCHANGED <<worker, requeuing, settled>>

ReclaimedRow(r) == [EndedRow(r, "failed") EXCEPT !.dispatched = "null"]

SweepReclaim(j, outcome) ==
    /\ sweep.phase = "expired" /\ j \in sweep.todo
    /\ SaveAndDispatch(j, ReclaimedRow(row[j]), outcome, TRUE)
    /\ worker' = Revoked(j)
    /\ NextRow(j, outcome)
    /\ UNCHANGED <<requeuing, settled>>

RequeuedRow_KeepsBackoff(r) == [r EXCEPT !.state = "queued", !.dispatched = "null"]

RequeuedRow(r) == [r EXCEPT !.state = "queued", !.due = TRUE, !.dispatched = "null"]

(* reconcile_pending_publications(): skips a row that is missing, finished  *)
(* or under a live lease.                                                   *)
SweepSkips(r) ==
    \/ r.state \in Finished \cup {"absent"}
    \/ r.state = "leased" /\ r.lease = "live"

(* The check and the update are two statements, and nothing locks the row.  *)
(* When no other step comes between them they are one step here ...         *)
SweepRequeue(j, outcome) ==
    /\ sweep.phase = "publications" /\ sweep.at = NoJob /\ j \in sweep.todo
    /\ \/ /\ SweepSkips(row[j])
          /\ outcome = "sent"
          /\ UNCHANGED <<row, broker, worker, disturbances>>
       \/ /\ ~SweepSkips(row[j])
          /\ SaveAndDispatch(j, RequeuedRow(row[j]), outcome, TRUE)
          /\ worker' = Revoked(j)
    /\ NextRow(j, outcome)
    /\ UNCHANGED <<requeuing, settled>>

(* ... and otherwise the check comes first, and the update is written to    *)
(* whatever the row has become: a job that was leased, stopped or succeeded  *)
(* in between is opened again.                                              *)
SweepPauses(j) ==
    /\ sweep.phase = "publications" /\ sweep.at = NoJob /\ j \in sweep.todo
    /\ ~SweepSkips(row[j])
    /\ Disturb
    /\ sweep' = [sweep EXCEPT !.at = j]
    /\ UNCHANGED <<row, broker, worker, requeuing, settled>>

SweepResumes(j, outcome) ==
    /\ sweep.at = j
    /\ SaveAndDispatch(j, RequeuedRow(row[j]), outcome, TRUE)
    /\ worker' = Revoked(j)
    /\ NextRow(j, outcome)
    /\ UNCHANGED <<requeuing, settled>>

SweepCrash ==
    /\ sweep.phase # "idle"
    /\ Disturb
    /\ sweep' = IdleSweep
    /\ UNCHANGED <<row, broker, worker, requeuing, settled>>

-----------------------------------------------------------------------------
NudgeCheck_AnyJob(j) ==
    /\ j \in Jobs \ (settled \cup requeuing)
    /\ row[j].state \notin Finished \cup {"absent"}
    /\ Disturb
    /\ requeuing' = requeuing \cup {j}
    /\ UNCHANGED <<row, broker, worker, sweep, settled>>

(* nudge_publication_for_branch(): a webhook reads the job, then requeues it *)
(* by primary key, even under a live lease.                                 *)
NudgeCheck(j) ==
    /\ j \in PublishJobs \ (settled \cup requeuing)
    /\ row[j].state \notin Finished \cup {"absent"}
    /\ Disturb
    /\ requeuing' = requeuing \cup {j}
    /\ UNCHANGED <<row, broker, worker, sweep, settled>>

Nudge(j, outcome) ==
    /\ j \in requeuing
    /\ requeuing' = requeuing \ {j}
    /\ SaveAndDispatch(j, RequeuedRow(row[j]), outcome, TRUE)
    /\ worker' = Revoked(j)
    /\ UNCHANGED <<sweep, settled>>

(* retry_publication(): an administrator requeues the job in any state.      *)
RetryPublication(j, outcome) ==
    /\ j \in PublishJobs
    /\ row[j].state # "absent"
    /\ SaveAndDispatch(j, RequeuedRow(row[j]), outcome, FALSE)
    /\ worker' = Revoked(j)
    /\ UNCHANGED <<requeuing, sweep, settled>>

-----------------------------------------------------------------------------
WorkerStep(w) ==
    \/ \E j \in Jobs : Lease(w, j) \/ Refuse(w, j)
    \/ Succeed(w) \/ Stop(w) \/ Fail(w)
    \/ Crash(w)

Sweep ==
    \/ SweepDue \/ SweepExpired \/ SweepPublications \/ SweepEnds \/ SweepCrash
    \/ \E j \in Jobs : SweepPauses(j)
    \/ \E j \in Jobs, o \in DispatchOutcomes :
         \/ SweepDispatch(j, o) \/ SweepReclaim(j, o)
         \/ SweepRequeue(j, o) \/ SweepResumes(j, o)

Request ==
    \E j \in Jobs, o \in DispatchOutcomes :
        Enqueue(j, o) \/ Nudge(j, o) \/ RetryPublication(j, o)

Environment ==
    \E j \in Jobs :
        LeaseExpires(j) \/ BackoffElapses(j) \/ DispatchAges(j)
          \/ LoseMessage(j) \/ NudgeCheck(j)

Next == (\E w \in Workers : WorkerStep(w)) \/ Sweep \/ Request \/ Environment

Spec == Init /\ [][Next]_vars

(* Fairness: clocks advance, a handler ends (the time limit sees to it),     *)
(* beat keeps running the sweep, and a FIFO broker delivers every message    *)
(* that waits while slots keep becoming free.  Faults, webhooks and people   *)
(* are under no obligation.                                                 *)
Fairness ==
    /\ \A w \in Workers : WF_vars(Succeed(w) \/ Stop(w) \/ Fail(w))
    /\ \A j \in Jobs :
        /\ SF_vars(\E w \in Workers : Lease(w, j) \/ Refuse(w, j))
        /\ WF_vars(LeaseExpires(j))
        /\ WF_vars(BackoffElapses(j))
        /\ WF_vars(DispatchAges(j))
        /\ WF_vars(Nudge(j, "sent"))
        /\ WF_vars(SweepDispatch(j, "sent") \/ SweepReclaim(j, "sent")
                     \/ SweepRequeue(j, "sent") \/ SweepResumes(j, "sent"))
    /\ WF_vars(SweepDue \/ SweepExpired \/ SweepPublications \/ SweepEnds)

FairSpec == Spec /\ Fairness

-----------------------------------------------------------------------------
TypeOK ==
    /\ row \in [Jobs -> Row]
    /\ broker \subseteq Jobs
    /\ worker \in [Workers -> Slot]
    /\ requeuing \subseteq PublishJobs
    /\ sweep \in [phase: SweepPhases, todo: SUBSET Jobs, at: Jobs \cup {NoJob}]
    /\ settled \subseteq PublishJobs
    /\ disturbances \in 0..MaxDisturbances

(* A delivery alone never starts a second run: at most one worker at a time *)
(* runs a job on a claim that no expiry, requeue or other worker's write    *)
(* has revoked (_lease, tasks.py:50).                                       *)
OneClaim ==
    \A v, w \in Workers :
        /\ worker[v].job = worker[w].job
        /\ worker[v].held /\ worker[w].held
        => v = w

(* No unfinished row is out of the sweep's reach: a queued row is due now,  *)
(* so the first query finds it, and a leased one carries an expiry for the  *)
(* second; a failed row becomes due (tasks.py:103 and 109).                 *)
Recoverable ==
    \A j \in Jobs :
        /\ row[j].state = "queued" => row[j].due
        /\ row[j].state = "leased" => row[j].lease # "none"

(* Failures alone never exceed the retry budget, however many workers       *)
(* overlap: each crash, overrun, hint, re-request or requeue written over a  *)
(* row that has moved on costs at most two further attempts.  Two, because  *)
(* a redelivered message may take over an expired lease just before the      *)
(* sweep, which read the expired row, reclaims the new lease with it        *)
(* (run_job, tasks.py:80; reconcile, tasks.py:109).                         *)
RetryBudget == \A j \in Jobs : row[j].attempts <= MaxAttempts + 2 * disturbances

(* Nothing is in flight that could still write row j.                       *)
Quiet(j) ==
    /\ \A w \in Workers : worker[w].job # j
    /\ j \notin requeuing
    /\ j \notin sweep.todo \cup {sweep.at}

(* Once a job has succeeded and nothing is in flight for it, no delivery,   *)
(* duplicate or sweep opens it again; only an administrator's retry of a    *)
(* publication does (run_job's promise on duplicate deliveries).            *)
SucceededIsFinal ==
    [][\A j \in Jobs \ PublishJobs :
         Quiet(j) /\ row[j].state = "succeeded" => row'[j].state = "succeeded"]_vars

(* Every job that is requested is in the end finished for good, whatever    *)
(* finite number of crashes, lost messages, overruns and overtaken requeues *)
(* happen: the sweep finds the work the broker or a worker lost.  The bound *)
(* is needed: a sweep that is overtaken each time opens a finished          *)
(* publication job each time (reconciliation.py:26 and 31).                 *)
JobsSettle ==
    \A j \in Jobs :
        row[j].state # "absent" ~> [](row[j].state \in Finished)
=============================================================================
