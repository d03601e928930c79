---------------------------- MODULE Publication ----------------------------
(***************************************************************************)
(* The protected publication sequence of registry_bridge/publication.py:    *)
(* branch -> commit -> pull request -> required check -> merge -> verify,   *)
(* run by outbox workers against GitHub (registry_bridge/fake_github.py,    *)
(* github_app.py), for publications of accepted admissions.                 *)
(*                                                                         *)
(* One action is one call to GitHub or one database statement of            *)
(* run_publication; a run works on the row it read when it started and      *)
(* writes single fields back.  A crash may come between any two of them,    *)
(* and, since a lease can run out or be requeued under a live handler       *)
(* (JobOutbox), two runs of one publication may overlap.  The publications  *)
(* are of different submissions; what other attempts of a submission do to  *)
(* the receipt number its publication carries is EvaluatedAgain and          *)
(* CommittedByAnother.                                                      *)
(*                                                                         *)
(* The default branch is the sequence of squash commits made since the      *)
(* instance began.  A commit is named by its place: at is the commit of the *)
(* default branch it stands on, ahead how many commits a publication's      *)
(* branch adds to that one.                                                 *)
(***************************************************************************)
EXTENDS Naturals, Sequences

CONSTANTS
    Ops,        \* operation keys: one publication each
    Workers,    \* worker slots
    NoOp,       \* an idle slot; the author of other writers' commits
    MaxWrites,  \* bound: commits of other writers
    MaxCommits, \* bound: commits on one publication's branch
    MaxFaults   \* bound: crashes, outages, overlaps, people's interventions,
                \*        what other attempts do to the receipt number

ASSUME NoOpAssumption == NoOp \notin Ops
ASSUME BoundsAssumption ==
    MaxWrites \in Nat /\ MaxCommits \in Nat \ {0} /\ MaxFaults \in Nat

VARIABLES
    main,         \* the default branch
    branch,       \* branch[p]: the branch of publication p
    pull,         \* pull[p]: its pull request
    checks,       \* checks[p][k]: the required check on the branch's k-th commit
    publication,  \* publication[p]: the Publication row
    job,          \* job[p]: the outbox row of its publish job
    receipt,      \* receipt[p]: Allocation.state of the receipt number it carries
    requeued,     \* publications whose evaluation was queued again
    registered,   \* publications that moved their submission to REGISTERED
    run,          \* run[w]: the run_publication call a worker is in
    retry,        \* retry[p]: the administrator's retry of p that is under way
    overtaken,    \* publications run or retried while a run was in flight
    lost,         \* publications a run abandoned and died before it requeued
    autoMerge,    \* PORTAL_AUTO_MERGE_ROUTINE
    faults        \* faults so far

github == <<main, branch, pull, checks>>
history == <<retry, overtaken, lost, autoMerge>>
tables == <<publication, job, receipt, requeued, registered, history>>
vars == <<main, branch, pull, checks, publication, job, receipt, requeued,
          registered, run, history, faults>>

-----------------------------------------------------------------------------
Sha == [at: Nat, ahead: Nat]

NoSha == [at |-> 0, ahead |-> 0]

Entry == [op: Ops \cup {NoOp}, exact: BOOLEAN]

Branch == [at: Nat, ahead: Nat, exact: BOOLEAN]

NoBranch == [at |-> 0, ahead |-> 0, exact |-> FALSE]

PullStates == {"none", "open", "closed", "merged"}

CheckStates == {"pending", "success", "failure"}

Statuses == {"queued", "branched", "pr_open", "checks_pending", "awaiting_review",
             "merged", "verified", "blocked", "abandoned"}

PublicationRow == [status: Statuses, base: Sha, head: Sha, pr: BOOLEAN]

(* "stopped" and "exhausted" are both Job.DEAD: after a                     *)
(* DeterministicFailure, and after the last failed attempt.                 *)
JobStates == {"open", "succeeded", "stopped", "exhausted"}

Steps == {"look", "create", "commit", "save", "keep", "find", "open", "note",
          "latest", "check", "merge", "merged", "verify", "confirm",
          "abandon", "withdraw", "requeue", "block", "stop", "return"}

(* A run: the row in memory, the sha it last read, the pull it last saw.    *)
Run == [op: Ops \cup {NoOp}, step: Steps \cup {"idle"}, row: PublicationRow,
        seen: Sha, pull: PullStates]

NoRetry == [step |-> "idle", status |-> "keep"]

(* retry_publication() between its read of the row, its update of the job   *)
(* and that of the row: the statement it is at, and the status it will write *)
(* to a row it read as BLOCKED.                                             *)
Retry ==
    [step: {"job"}, status: {"keep", "pr_open", "queued"}]
    \cup [step: {"row"}, status: {"pr_open", "queued"}]
    \cup {NoRetry}

NewRow == [status |-> "queued", base |-> NoSha, head |-> NoSha, pr |-> FALSE]

IdleRun == [op |-> NoOp, step |-> "idle", row |-> NewRow, seen |-> NoSha,
            pull |-> "none"]

Init ==
    /\ main = << >>
    /\ branch = [p \in Ops |-> NoBranch]
    /\ pull = [p \in Ops |-> "none"]
    /\ checks = [p \in Ops |-> [k \in 1..MaxCommits |-> "pending"]]
    /\ publication = [p \in Ops |-> NewRow]
    /\ job = [p \in Ops |-> "open"]
    /\ receipt = [p \in Ops |-> "ledger_queued"]
    /\ requeued = {}
    /\ registered = {}
    /\ retry = [p \in Ops |-> NoRetry]
    /\ overtaken = {}
    /\ lost = {}
    /\ autoMerge \in BOOLEAN
    /\ run = [w \in Workers |-> IdleRun]
    /\ faults = 0

-----------------------------------------------------------------------------
(* What GitHub answers.                                                     *)
MainSha == [at |-> Len(main) + 1, ahead |-> 0]

Tip(p) == [at |-> branch[p].at, ahead |-> branch[p].ahead]

HasBranch(p) == branch[p] # NoBranch

CheckOn(p, sha) ==
    IF sha.ahead \in 1..MaxCommits THEN checks[p][sha.ahead] ELSE "pending"

(* The rules of merge_pull: the check passed on the head, and the branch    *)
(* stands on the default branch's head (strict up-to-date rule).            *)
UpToDate_NotRequired(p) == TRUE

UpToDate(p) == branch[p].at = MainSha.at

Squash(p) ==
    /\ main' = Append(main, [op |-> p, exact |-> branch[p].exact])
    /\ pull' = [pull EXCEPT ![p] = "merged"]

(* What reading p's files back from the default branch shows: nobody but     *)
(* its own merge writes its paths.                                          *)
ReadsBack_AnyContent(p) == \E i \in 1..Len(main) : main[i].op = p

ReadsBack(p) == \E i \in 1..Len(main) : main[i] = [op |-> p, exact |-> TRUE]

-----------------------------------------------------------------------------
Fault == faults < MaxFaults /\ faults' = faults + 1

At(w, step) == run[w].step = step

(* The run goes on to another step.                                         *)
Goto(w, step) == run' = [run EXCEPT ![w].step = step]

(* _set() writes single fields, in the row and in the copy in memory; here   *)
(* the status, and the run goes on.                                         *)
SetStatus(w, status, step) ==
    /\ publication' = [publication EXCEPT ![run[w].op].status = status]
    /\ run' = [run EXCEPT ![w].row.status = status, ![w].step = step]

(* A RetryableError ends the run: the job waits for its next attempt, or     *)
(* has spent them all.                                                      *)
RetryLater(w) ==
    /\ run' = [run EXCEPT ![w] = IdleRun]
    /\ \/ job' = [job EXCEPT ![run[w].op] = "open"] /\ UNCHANGED faults
       \/ job' = [job EXCEPT ![run[w].op] = "exhausted"] /\ Fault

-----------------------------------------------------------------------------
(* A worker takes the publish job and reads its row.  A second run beside    *)
(* another one is a fault; a settled publication has nothing left to do.    *)
Start(w, p) ==
    /\ run[w] = IdleRun
    /\ job[p] = "open"
    /\ run' = [run EXCEPT ![w] =
                 [op |-> p, row |-> publication[p], seen |-> NoSha, pull |-> "none",
                  step |-> IF publication[p].status \in {"verified", "abandoned"}
                           THEN "return" ELSE "look"]]
    /\ IF \E v \in Workers : run[v].op = p
       THEN Fault /\ overtaken' = overtaken \cup {p}
       ELSE UNCHANGED <<faults, overtaken>>
    /\ UNCHANGED <<github, publication, job, receipt, requeued, registered, retry, lost, autoMerge>>

(* The heads of the default branch and of the publication's branch.  One     *)
(* step: the first is used only if there is no branch, and a commit between  *)
(* the two reads has the effect of one after both.                           *)
NextAfterLook(row, p) ==
    IF ~HasBranch(p) THEN "create"
    ELSE IF row.head = NoSha \/ Tip(p) = row.base THEN "commit"
    ELSE "keep"

Look(w) ==
    LET p == run[w].op
    IN  /\ At(w, "look")
        /\ run' = [run EXCEPT ![w].seen = IF HasBranch(p) THEN Tip(p) ELSE MainSha,
                              ![w].step = NextAfterLook(run[w].row, p)]
        /\ UNCHANGED <<github, tables, faults>>

(* create_branch: refused when another run has just created it.             *)
Create(w) ==
    LET p == run[w].op
    IN  /\ At(w, "create")
        /\ \/ /\ HasBranch(p)
              /\ Goto(w, "block")
              /\ UNCHANGED branch
           \/ /\ ~HasBranch(p)
              /\ branch' = [branch EXCEPT ![p] = [at |-> run[w].seen.at, ahead |-> 0,
                                                  exact |-> FALSE]]
              /\ Goto(w, "commit")
        /\ UNCHANGED <<main, pull, checks, tables, faults>>

(* commit_files on the sha the run saw: refused, "not a fast forward", when  *)
(* the branch has moved since.                                              *)
Commit(w) ==
    LET p == run[w].op
    IN  /\ At(w, "commit")
        /\ \/ /\ Tip(p) # run[w].seen
              /\ Goto(w, "abandon")
              /\ UNCHANGED branch
           \/ /\ Tip(p) = run[w].seen
              /\ branch[p].ahead < MaxCommits
              /\ branch' = [branch EXCEPT ![p].ahead = @ + 1, ![p].exact = TRUE]
              /\ Goto(w, "save")
        /\ UNCHANGED <<main, pull, checks, tables, faults>>

(* The branch and its two shas are recorded: the parent of the commit is     *)
(* taken for the base unless one is known.                                  *)
BaseSha(known, parent) == IF known = NoSha THEN parent ELSE known

Save(w) ==
    LET p == run[w].op
        base == BaseSha(run[w].row.base, run[w].seen)
        head == [run[w].seen EXCEPT !.ahead = @ + 1]
    IN  /\ At(w, "save")
        /\ publication' = [publication EXCEPT ![p].status = "branched",
                                              ![p].base = base, ![p].head = head]
        /\ run' = [run EXCEPT ![w].row.status = "branched", ![w].row.base = base,
                              ![w].row.head = head, ![w].step = "find"]
        /\ UNCHANGED <<github, job, receipt, requeued, registered, history, faults>>

Keep(w) ==
    /\ At(w, "keep")
    /\ publication' = [publication EXCEPT ![run[w].op].head = run[w].seen]
    /\ run' = [run EXCEPT ![w].row.head = run[w].seen, ![w].step = "find"]
    /\ UNCHANGED <<github, job, receipt, requeued, registered, history, faults>>

(* find_pull, then open_pull if there is none.                              *)
Find(w) ==
    LET p == run[w].op
    IN  /\ At(w, "find")
        /\ run' = [run EXCEPT ![w].pull = pull[p],
                              ![w].step = IF pull[p] = "none" THEN "open" ELSE "note"]
        /\ UNCHANGED <<github, tables, faults>>

(* GitHub's API refuses a second pull request for a branch.                 *)
Open(w) ==
    LET p == run[w].op
    IN  /\ At(w, "open")
        /\ \/ /\ pull[p] # "none"
              /\ Goto(w, "block")
              /\ UNCHANGED pull
           \/ /\ pull[p] = "none"
              /\ pull' = [pull EXCEPT ![p] = "open"]
              /\ run' = [run EXCEPT ![w].pull = "open", ![w].step = "note"]
        /\ UNCHANGED <<main, branch, checks, tables, faults>>

(* The pull request is recorded, and the run goes on by the state it saw.   *)
NextAfterNote_IgnoresClosed(seenPull) ==
    IF seenPull = "merged" THEN "verify" ELSE "latest"

NextAfterNote(seenPull) ==
    CASE seenPull = "merged" -> "verify"
      [] seenPull = "closed" -> "block"
      [] OTHER -> "latest"

Note(w) ==
    /\ At(w, "note")
    /\ \/ /\ ~run[w].row.pr \/ run[w].row.status = "branched"
          /\ publication' = [publication EXCEPT ![run[w].op].pr = TRUE,
                                                ![run[w].op].status = "pr_open"]
          /\ run' = [run EXCEPT ![w].row.pr = TRUE, ![w].row.status = "pr_open",
                                ![w].step = NextAfterNote(run[w].pull)]
       \/ /\ run[w].row.pr /\ run[w].row.status # "branched"
          /\ Goto(w, NextAfterNote(run[w].pull))
          /\ UNCHANGED publication
    /\ UNCHANGED <<github, job, receipt, requeued, registered, history, faults>>

(* Has the default branch left the recorded base?                           *)
Latest(w) ==
    /\ At(w, "latest")
    /\ Goto(w, IF MainSha = run[w].row.base THEN "check" ELSE "abandon")
    /\ UNCHANGED <<github, tables, faults>>

(* The required check on the recorded head.                                 *)
Check(w) ==
    LET p == run[w].op
        answer == CheckOn(p, run[w].row.head)
        waits == IF answer = "pending" THEN "checks_pending" ELSE "awaiting_review"
        known == answer = "pending" /\ run[w].row.status = waits
    IN  /\ At(w, "check")
        /\ \/ /\ answer = "pending" \/ (answer = "success" /\ ~autoMerge)
              /\ publication' = [publication EXCEPT ![p].status =
                                   IF known THEN @ ELSE waits]
              /\ RetryLater(w)
           \/ /\ answer = "failure" \/ (answer = "success" /\ autoMerge)
              /\ Goto(w, IF answer = "failure" THEN "block" ELSE "merge")
              /\ UNCHANGED <<publication, job, faults>>
        /\ UNCHANGED <<github, receipt, requeued, registered, history>>

(* merge_pull, with GitHub's refusals in its order.                         *)
Mergeable_ChecksOnly(p, head) == Tip(p) = head /\ CheckOn(p, head) = "success"

Mergeable(p, head) ==
    /\ pull[p] = "open"
    /\ Tip(p) = head
    /\ CheckOn(p, head) = "success"
    /\ UpToDate(p)

NextAfterRefusal(p, head) ==
    IF pull[p] = "open" /\ (Tip(p) # head \/ CheckOn(p, head) = "success")
    THEN "abandon"
    ELSE "block"

Merge(w) ==
    LET p == run[w].op
        head == run[w].row.head
    IN  /\ At(w, "merge")
        /\ \/ /\ Mergeable(p, head)
              /\ Squash(p)
              /\ Goto(w, "merged")
           \/ /\ ~Mergeable(p, head)
              /\ Goto(w, NextAfterRefusal(p, head))
              /\ UNCHANGED <<main, pull>>
        /\ UNCHANGED <<branch, checks, tables, faults>>

Merged(w) ==
    /\ At(w, "merged")
    /\ SetStatus(w, "merged", "verify")
    /\ UNCHANGED <<github, job, receipt, requeued, registered, history, faults>>

(* _verify(): the files are read back from the default branch ...           *)
Verify(w) ==
    /\ At(w, "verify")
    /\ Goto(w, IF ReadsBack(run[w].op) THEN "confirm" ELSE "block")
    /\ UNCHANGED <<github, tables, faults>>

(* ... and one transaction settles the publication, its receipt number and  *)
(* its submission, which another evaluation may have moved out of           *)
(* ACCEPTED_PENDING by then.                                                *)
CommittedReceipt(s) == IF s = "withdrawn" THEN s ELSE "ledger_committed"

Confirm(w) ==
    LET p == run[w].op
    IN  /\ At(w, "confirm")
        /\ SetStatus(w, "verified", "return")
        /\ receipt' = [receipt EXCEPT ![p] = CommittedReceipt(@)]
        /\ registered' \in {registered, registered \cup {p}}
        /\ UNCHANGED <<github, job, requeued, history, faults>>

(* _base_moved(): three statements, each committed by itself.               *)
Abandon(w) ==
    /\ At(w, "abandon")
    /\ SetStatus(w, "abandoned", "withdraw")
    /\ UNCHANGED <<github, job, receipt, requeued, registered, history, faults>>

WithdrawnReceipt_Always(s) == "withdrawn"

WithdrawnReceipt_WrongState(s) == IF s = "ledger_committed" THEN s ELSE "abandoned"

WithdrawnReceipt(s) == IF s = "ledger_committed" THEN s ELSE "withdrawn"

AfterWithdraw_UnlessCommitted(s) ==
    IF s = "ledger_committed" THEN "stop" ELSE "requeue"

(* The evaluation is repeated whatever became of the number.                *)
AfterWithdraw(s) == "requeue"

Withdraw(w) ==
    LET p == run[w].op
    IN  /\ At(w, "withdraw")
        /\ receipt' = [receipt EXCEPT ![p] = WithdrawnReceipt(@)]
        /\ Goto(w, AfterWithdraw(receipt[p]))
        /\ UNCHANGED <<github, publication, job, requeued, registered, history, faults>>

Requeue(w) ==
    /\ At(w, "requeue")
    /\ requeued' = requeued \cup {run[w].op}
    /\ Goto(w, "stop")
    /\ UNCHANGED <<github, publication, job, receipt, registered, history, faults>>

(* Anything that needs a person first.                                      *)
Block(w) ==
    /\ At(w, "block")
    /\ SetStatus(w, "blocked", "stop")
    /\ UNCHANGED <<github, job, receipt, requeued, registered, history, faults>>

(* run_job records how the handler ended, whatever the row says by then.    *)
Finish(w) ==
    /\ \/ /\ At(w, "stop")
          /\ job' = [job EXCEPT ![run[w].op] = "stopped"]
       \/ /\ At(w, "return")
          /\ job' = [job EXCEPT ![run[w].op] = "succeeded"]
    /\ run' = [run EXCEPT ![w] = IdleRun]
    /\ UNCHANGED <<github, publication, receipt, requeued, registered, history, faults>>

-----------------------------------------------------------------------------
(* GitHub unreachable, or its answer lost: the run ends after any call it   *)
(* makes, done or not.                                                      *)
CallSteps == {"look", "create", "commit", "save", "keep", "find", "open", "note",
              "latest", "check", "merge", "merged", "verify", "confirm"}

Unavailable(w) ==
    LET p == run[w].op
    IN  /\ run[w].step \in CallSteps
        /\ Fault
        /\ run' = [run EXCEPT ![w] = IdleRun]
        /\ \E s \in {"open", "exhausted"} : job' = [job EXCEPT ![p] = s]
        /\ UNCHANGED <<github, publication, receipt, requeued, registered, history>>

(* The worker process dies: its job is found again by the sweep.            *)
Crash(w) ==
    /\ run[w] # IdleRun
    /\ Fault
    /\ run' = [run EXCEPT ![w] = IdleRun]
    /\ lost' = IF run[w].step \in {"withdraw", "requeue"} THEN lost \cup {run[w].op} ELSE lost
    /\ UNCHANGED <<github, publication, job, receipt, requeued, registered, retry, overtaken,
                   autoMerge>>

-----------------------------------------------------------------------------
(* People and other programs.                                               *)

(* Every evaluation of the submission sets all its numbers to LEDGER_QUEUED, *)
(* withdrawn and committed ones too: the one after _base_moved, and that of  *)
(* a repair.                                                                *)
EvaluatedAgain(p) ==
    /\ Fault
    /\ receipt' = [receipt EXCEPT ![p] = "ledger_queued"]
    /\ UNCHANGED <<github, publication, job, requeued, registered, history, run>>

(* The publication of another attempt lists the number among its            *)
(* reservations, and commits it with its own.                               *)
CommittedByAnother(p) ==
    /\ Fault
    /\ receipt' = [receipt EXCEPT ![p] = CommittedReceipt(@)]
    /\ UNCHANGED <<github, publication, job, requeued, registered, history, run>>

(* retry_publication(): an administrator's request reads the row, ...       *)
RetryReads(p) ==
    /\ retry[p].step = "idle"
    /\ Fault
    /\ retry' = [retry EXCEPT ![p] =
                   [step |-> "job",
                    status |-> IF publication[p].status # "blocked" THEN "keep"
                               ELSE IF publication[p].pr THEN "pr_open" ELSE "queued"]]
    /\ UNCHANGED <<github, publication, job, receipt, requeued, registered, run,
                   overtaken, lost, autoMerge>>

(* ... opens the job again, ...                                             *)
RetryOpens(p) ==
    /\ retry[p].step = "job"
    /\ job' = [job EXCEPT ![p] = "open"]
    /\ retry' = [retry EXCEPT ![p] =
                   IF retry[p].status = "keep" THEN NoRetry
                   ELSE [step |-> "row", status |-> retry[p].status]]
    /\ overtaken' = IF \E w \in Workers : run[w].op = p
                    THEN overtaken \cup {p} ELSE overtaken
    /\ UNCHANGED <<github, publication, receipt, requeued, registered, run, lost,
                   autoMerge, faults>>

(* ... and unblocks the row, whatever a run has written to it by then.      *)
RetryUnblocks(p) ==
    /\ retry[p].step = "row"
    /\ publication' = [publication EXCEPT ![p].status = retry[p].status]
    /\ retry' = [retry EXCEPT ![p] = NoRetry]
    /\ overtaken' = IF job[p] # "open" \/ \E w \in Workers : run[w].op = p
                    THEN overtaken \cup {p} ELSE overtaken
    /\ UNCHANGED <<github, job, receipt, requeued, registered, run, lost, autoMerge, faults>>

(* Another writer advances the default branch.                              *)
OtherWrites ==
    /\ Len(SelectSeq(main, LAMBDA e : e.op = NoOp)) < MaxWrites
    /\ main' = Append(main, [op |-> NoOp, exact |-> FALSE])
    /\ UNCHANGED <<branch, pull, checks, tables, run, faults>>

(* The required check ends on a commit of the branch.                       *)
CheckCompletes(p) ==
    /\ \E k \in 1..branch[p].ahead, s \in {"success", "failure"} :
         /\ checks[p][k] = "pending"
         /\ checks' = [checks EXCEPT ![p][k] = s]
         /\ IF s = "failure" THEN Fault ELSE UNCHANGED faults
    /\ UNCHANGED <<main, branch, pull, tables, run>>

(* A maintainer merges, under the same rules.                               *)
MaintainerMerges(p) ==
    /\ Mergeable(p, Tip(p))
    /\ Squash(p)
    /\ UNCHANGED <<branch, checks, tables, run, faults>>

MaintainerCloses(p) ==
    /\ pull[p] = "open"
    /\ Fault
    /\ pull' = [pull EXCEPT ![p] = "closed"]
    /\ UNCHANGED <<main, branch, checks, tables, run>>

MaintainerReopens(p) ==
    /\ pull[p] = "closed"
    /\ pull' = [pull EXCEPT ![p] = "open"]
    /\ UNCHANGED <<main, branch, checks, tables, run, faults>>

(* A maintainer pushes a commit that changes the publication's files.       *)
MaintainerPushes(p) ==
    /\ pull[p] = "open"
    /\ branch[p].ahead < MaxCommits
    /\ Fault
    /\ branch' = [branch EXCEPT ![p].ahead = @ + 1, ![p].exact = FALSE]
    /\ UNCHANGED <<main, pull, checks, tables, run>>

-----------------------------------------------------------------------------
Progress(w) ==
    \/ Look(w) \/ Create(w) \/ Commit(w) \/ Save(w) \/ Keep(w) \/ Find(w)
    \/ Open(w) \/ Note(w) \/ Latest(w) \/ Check(w) \/ Merge(w) \/ Merged(w)
    \/ Verify(w) \/ Confirm(w) \/ Abandon(w) \/ Withdraw(w) \/ Requeue(w)
    \/ Block(w) \/ Finish(w)

Starts(p) == \E w \in Workers : Start(w, p)

Outside(p) ==
    \/ RetryReads(p) \/ RetryOpens(p) \/ RetryUnblocks(p)
    \/ EvaluatedAgain(p) \/ CommittedByAnother(p)
    \/ CheckCompletes(p) \/ MaintainerMerges(p)
    \/ MaintainerCloses(p) \/ MaintainerReopens(p) \/ MaintainerPushes(p)

Next ==
    \/ \E w \in Workers : Progress(w) \/ Unavailable(w) \/ Crash(w)
    \/ \E p \in Ops : Starts(p) \/ Outside(p)
    \/ OtherWrites

Spec == Init /\ [][Next]_vars

(* Fairness: a run goes on, the outbox brings an open job to a worker again  *)
(* and again (JobsSettle of JobOutbox), the check completes, and, where     *)
(* merging is left to them, maintainers merge.                              *)
Fairness ==
    /\ \A w \in Workers : WF_vars(Progress(w))
    /\ \A p \in Ops :
        /\ SF_vars(Starts(p))
        /\ WF_vars(CheckCompletes(p))
        /\ WF_vars(~autoMerge /\ MaintainerMerges(p))

FairSpec == Spec /\ Fairness
-----------------------------------------------------------------------------
TypeOK ==
    /\ main \in Seq(Entry)
    /\ branch \in [Ops -> Branch]
    /\ pull \in [Ops -> PullStates]
    /\ checks \in [Ops -> [1..MaxCommits -> CheckStates]]
    /\ publication \in [Ops -> PublicationRow]
    /\ job \in [Ops -> JobStates]
    /\ receipt \in [Ops -> {"ledger_queued", "ledger_committed", "withdrawn"}]
    /\ requeued \subseteq Ops
    /\ registered \subseteq Ops
    /\ retry \in [Ops -> Retry]
    /\ overtaken \subseteq Ops /\ lost \subseteq Ops /\ autoMerge \in BOOLEAN
    /\ run \in [Workers -> Run]
    /\ faults \in 0..MaxFaults

(* A publication is merged at most once, whatever runs overlap and however  *)
(* often a crash makes a run start over (publication.py:3-5).               *)
OneMerge ==
    \A i, j \in 1..Len(main) :
        main[i].op = main[j].op /\ main[i].op # NoOp => i = j

(* A submission is REGISTERED only when exactly the expected files are on   *)
(* the default branch (publication.py:5): no stale run and no edited pull   *)
(* request gets around the read-back.                                       *)
RegisteredIsPublished ==
    \A p \in registered : \E i \in 1..Len(main) : main[i].op = p /\ main[i].exact

(* What _verify and _base_moved decide about a receipt number, no run of     *)
(* this or of another attempt's publication undoes, in whichever order they *)
(* come (allocation.py:97 and 106): only a new evaluation of the submission *)
(* takes it back (evaluation.py:189).                                       *)
ReceiptIsFinal ==
    [][\A p \in Ops :
         receipt[p] # "ledger_queued" => receipt'[p] = receipt[p] \/ EvaluatedAgain(p)]_vars

(* A run merges only onto the base it recorded, although it compared the     *)
(* two some steps before: the strict up-to-date rule closes the gap         *)
(* (publication.py:108 and 128).                                            *)
NoStaleMerge ==
    [][\A w \in Workers :
         At(w, "merge") /\ run'[w].step = "merged" => run[w].row.base = MainSha]_vars

(* Every publication comes to an end: its job stops or succeeds with the     *)
(* row verified, abandoned or blocked, unless its attempts are spent, or a  *)
(* retry or a second run came while a run was still at work.                *)
PublicationsSettle ==
    \A p \in Ops :
        <>[](\/ job[p] = "exhausted" \/ p \in overtaken
             \/ /\ job[p] \in {"succeeded", "stopped"}
                /\ publication[p].status \in {"verified", "abandoned", "blocked"})

(* "Another writer advanced the base: abandon this candidate"                *)
(* (publication.py:143): a branch that holds just its publication's files    *)
(* is given up only when the default branch has left the commit under it.   *)
AbandonsOnlyMovedBase ==
    \A p \in Ops :
        publication[p].status = "abandoned" /\ branch[p].exact
            => MainSha.at > branch[p].at

(* An abandoned publication's evaluation is queued again before its job      *)
(* counts as done (docs/PORTAL_OPERATIONS.md, "Base moved"), whatever runs  *)
(* overlap; unless the run died right after it had given it up.             *)
AbandonedIsRequeued ==
    \A p \in Ops :
        /\ publication[p].status = "abandoned" /\ job[p] \in {"succeeded", "stopped"}
        /\ \A w \in Workers : run[w].op # p
        => p \in requeued \cup lost

=============================================================================
