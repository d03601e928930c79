------------------------- MODULE PublicationProofs -------------------------
(***************************************************************************)
(* Theorems about Publication, for every set of publications and workers    *)
(* and every bound.                                                         *)
(***************************************************************************)
EXTENDS Publication, TLAPS

-----------------------------------------------------------------------------
(* The inductive invariant.                                                 *)

(* A worker slot is idle or in a run of a publication.                      *)
Busy == \A w \in Workers : run[w].step = "idle" \/ run[w].op \in Ops

(* A publication whose commit is on the default branch has a merged pull    *)
(* request, and nothing undoes that.                                        *)
CommitsAreMerged ==
    \A i \in 1..Len(main) : main[i].op # NoOp => pull[main[i].op] = "merged"

(* A run that confirms has read the exact files back.                       *)
ConfirmsReadBack == \A w \in Workers : At(w, "confirm") => ReadsBack(run[w].op)

(* A pull request has a branch, and the base of a row, where one is         *)
(* recorded, is on the commit the publication's branch stands on.           *)
Rooted(p, row) == row.base = NoSha \/ (row.base.at = branch[p].at /\ HasBranch(p))

BranchesStand ==
    \A p \in Ops :
        /\ HasBranch(p) => branch[p].at # 0
        /\ pull[p] # "none" => HasBranch(p)
        /\ Rooted(p, publication[p])

(* So are the base a run has in memory and the sha it last read, from the    *)
(* creation of the branch on; and a run that passed the comparison with the *)
(* default branch has a base on the default branch.                         *)
RunsStand ==
    \A w \in Workers :
        /\ run[w].step # "idle" => Rooted(run[w].op, run[w].row)
        /\ run[w].step = "create" => run[w].seen.at # 0
        /\ run[w].step \in {"commit", "save", "keep"} => run[w].seen.at = branch[run[w].op].at
        /\ run[w].step \in {"commit", "save", "keep", "find", "open"} => HasBranch(run[w].op)
        /\ run[w].step \in {"check", "merge"} =>
              run[w].row.base # NoSha /\ run[w].row.base.ahead = 0

(* An abandoned publication's evaluation is queued again, will be by the run *)
(* that gave it up, or that run died.                                       *)
AbandonedIsAttended ==
    \A p \in Ops :
        publication[p].status = "abandoned" =>
            \/ p \in requeued \cup lost
            \/ \E w \in Workers : run[w].op = p /\ run[w].step \in {"withdraw", "requeue"}

-----------------------------------------------------------------------------
(* Types.                                                                   *)

(* What a run writes to a row, or to its own record, keeps its shape.       *)
LEMMA RunTypes ==
    /\ NoSha \in Sha
    /\ NewRow \in PublicationRow
    /\ IdleRun \in Run
    /\ \A row \in PublicationRow, s \in Statuses : [row EXCEPT !.status = s] \in PublicationRow
    /\ \A x \in Run, s \in Steps : [x EXCEPT !.step = s] \in Run
    <1>1. NoSha \in Sha
        BY DEF NoSha, Sha
    <1>2. NewRow \in PublicationRow
        BY <1>1 DEF NewRow, PublicationRow, Statuses
    <1>3. IdleRun \in Run
        BY <1>1, <1>2 DEF IdleRun, Run, PullStates
    <1>4. \A row \in PublicationRow, s \in Statuses : [row EXCEPT !.status = s] \in PublicationRow
        BY DEF PublicationRow
    <1>5. \A x \in Run, s \in Steps : [x EXCEPT !.step = s] \in Run
        BY DEF Run
    <1>6. QED
        BY <1>1, <1>2, <1>3, <1>4, <1>5

LEMMA ActiveOp ==
    ASSUME TypeOK, Busy, NEW w \in Workers, run[w].step # "idle"
    PROVE  /\ run[w].op \in Ops
           /\ run[w] \in Run
           /\ publication[run[w].op] \in PublicationRow
           /\ run[w].row \in PublicationRow
           /\ branch[run[w].op] \in Branch
           /\ pull[run[w].op] \in PullStates
    BY DEF TypeOK, Busy, Run

LEMMA FaultType ==
    ASSUME TypeOK, Fault
    PROVE  faults' \in 0..MaxFaults
    BY BoundsAssumption DEF TypeOK, Fault

(* A run that goes on stays a run of its publication.                       *)
LEMMA GotoType ==
    ASSUME TypeOK, Busy, NEW w \in Workers, run[w].step # "idle", NEW s \in Steps, Goto(w, s)
    PROVE  run' \in [Workers -> Run] /\ Busy'
    <1>1. run'[w] = [run[w] EXCEPT !.step = s] /\ run'[w] \in Run
        BY RunTypes DEF Goto, TypeOK
    <1>2. run' \in [Workers -> Run]
        BY <1>1 DEF Goto, TypeOK
    <1>3. Busy'
        BY <1>1 DEF Goto, TypeOK, Busy, Run
    <1>4. QED
        BY <1>2, <1>3

LEMMA SetStatusType ==
    ASSUME TypeOK, Busy, NEW w \in Workers, run[w].step # "idle", NEW t \in Statuses,
           NEW s \in Steps, SetStatus(w, t, s)
    PROVE  /\ publication' \in [Ops -> PublicationRow]
           /\ run' \in [Workers -> Run] /\ Busy'
    <1>1. publication' \in [Ops -> PublicationRow]
        BY RunTypes DEF SetStatus, TypeOK
    <1>2. run'[w] \in Run /\ run'[w].op = run[w].op
        <2>1. run[w] \in Run
            BY DEF TypeOK
        <2>2. run'[w] = [run[w] EXCEPT !.row = [run[w].row EXCEPT !.status = t], !.step = s]
            BY DEF SetStatus, TypeOK
        <2>3. [run[w].row EXCEPT !.status = t] \in PublicationRow
            BY <2>1, RunTypes DEF Run
        <2>4. QED
            BY <2>1, <2>2, <2>3 DEF Run
    <1>3. run' \in [Workers -> Run]
        BY <1>2 DEF SetStatus, TypeOK
    <1>4. Busy'
        BY <1>2 DEF SetStatus, TypeOK, Busy
    <1>5. QED
        BY <1>1, <1>3, <1>4

LEMMA EndType ==
    ASSUME TypeOK, Busy, NEW w \in Workers, run' = [run EXCEPT ![w] = IdleRun]
    PROVE  run' \in [Workers -> Run] /\ Busy'
    BY RunTypes DEF TypeOK, Busy, IdleRun

LEMMA RetryLaterType ==
    ASSUME TypeOK, Busy, NEW w \in Workers, RetryLater(w)
    PROVE  /\ run' \in [Workers -> Run] /\ Busy'
           /\ job' \in [Ops -> JobStates]
           /\ faults' \in 0..MaxFaults
    BY EndType, FaultType DEF RetryLater, TypeOK, JobStates

(* A step of one run that goes on keeps the runs well formed.               *)
LEMMA OneRunType ==
    ASSUME TypeOK, Busy, NEW w \in Workers, NEW x \in Run, x.op \in Ops,
           run' = [run EXCEPT ![w] = x]
    PROVE  run' \in [Workers -> Run] /\ Busy'
    <1>1. run \in [Workers -> Run]
        BY DEF TypeOK
    <1>2. QED
        BY <1>1 DEF Busy

(* Steps of a run up to the pull request.                                   *)
LEMMA LookType ==
    ASSUME TypeOK, Busy, NEW w \in Workers, Look(w)
    PROVE  TypeOK' /\ Busy'
    <1> DEFINE p == run[w].op
               sha == IF HasBranch(p) THEN Tip(p) ELSE MainSha
               next == NextAfterLook(run[w].row, p)
               x == [run[w] EXCEPT !.seen = sha, !.step = next]
    <1>1. p \in Ops /\ run[w] \in Run /\ branch[p] \in Branch
        BY ActiveOp DEF Look, At
    <1>2. sha \in Sha
        BY <1>1 DEF TypeOK, MainSha, Tip, Sha, Branch
    <1>3. next \in Steps
        BY DEF NextAfterLook, Steps
    <1> HIDE DEF sha, next
    <1>4. x \in Run /\ x.op \in Ops
        BY <1>1, <1>2, <1>3 DEF Run
    <1>5. run' = [run EXCEPT ![w] = x]
        BY DEF Look, sha, next
    <1>6. run' \in [Workers -> Run] /\ Busy'
        BY <1>4, <1>5, OneRunType
    <1>7. QED
        BY <1>6 DEF Look, TypeOK, github, tables, history

LEMMA BranchType ==
    ASSUME TypeOK, Busy, NEW w \in Workers, Create(w) \/ Commit(w)
    PROVE  TypeOK' /\ Busy'
    <1>1. /\ run[w].op \in Ops /\ run[w].seen.at \in Nat
          /\ branch[run[w].op].ahead + 1 \in Nat
          /\ branch \in [Ops -> Branch]
        BY ActiveOp DEF TypeOK, Create, Commit, At, Run, Sha, Branch
    <1>2. branch' \in [Ops -> Branch]
        <2>1. CASE Create(w)
            <3>1. [at |-> run[w].seen.at, ahead |-> 0, exact |-> FALSE] \in Branch
                BY <1>1 DEF Branch
            <3>2. QED
                BY <1>1, <2>1, <3>1 DEF Create
        <2>2. CASE Commit(w)
            BY <1>1, <2>2 DEF Commit, Branch
        <2>3. QED
            BY <2>1, <2>2
    <1>3. run' \in [Workers -> Run] /\ Busy'
        BY GotoType DEF Create, Commit, At, Steps
    <1>4. QED
        BY <1>2, <1>3 DEF Create, Commit, TypeOK, tables, history

LEMMA SaveType ==
    ASSUME TypeOK, Busy, NEW w \in Workers, Save(w) \/ Keep(w)
    PROVE  TypeOK' /\ Busy'
    <1> DEFINE p == run[w].op
               base == BaseSha(run[w].row.base, run[w].seen)
               head == [run[w].seen EXCEPT !.ahead = @ + 1]
    <1>1. /\ p \in Ops /\ run[w] \in Run /\ publication[p] \in PublicationRow
          /\ run[w].row \in PublicationRow
        BY ActiveOp DEF Save, Keep, At
    <1>2. base \in Sha /\ head \in Sha /\ run[w].seen \in Sha
        BY <1>1 DEF BaseSha, Sha, Run, PublicationRow
    <1>3. \A r \in PublicationRow, b, h \in Sha :
            /\ [r EXCEPT !.status = "branched", !.base = b, !.head = h] \in PublicationRow
            /\ [r EXCEPT !.head = h] \in PublicationRow
        BY DEF PublicationRow, Statuses
    <1>4. \A x \in Run, r \in PublicationRow :
            [x EXCEPT !.row = r, !.step = "find"] \in Run
        BY DEF Run, Steps
    <1> DEFINE saved(r) == [r EXCEPT !.status = "branched", !.base = base, !.head = head]
               kept(r) == [r EXCEPT !.head = run[w].seen]
               on(r) == [run[w] EXCEPT !.row = r, !.step = "find"]
    <1>5. \A r \in PublicationRow : saved(r) \in PublicationRow /\ kept(r) \in PublicationRow
        BY <1>2, <1>3
    <1>6. \A r \in PublicationRow : on(r) \in Run /\ on(r).op = p
        BY <1>1, <1>4 DEF Run
    <1>7. CASE Save(w)
        <2>1. /\ publication' = [publication EXCEPT ![p] = saved(publication[p])]
              /\ run' = [run EXCEPT ![w] = on(saved(run[w].row))]
            BY <1>7 DEF Save
        <2>2. publication' \in [Ops -> PublicationRow]
            BY <1>1, <1>5, <2>1 DEF TypeOK
        <2>3. on(saved(run[w].row)) \in Run /\ on(saved(run[w].row)).op \in Ops
            BY <1>1, <1>5, <1>6
        <2> HIDE DEF on
        <2>4. run' \in [Workers -> Run] /\ Busy'
            BY <2>1, <2>3, OneRunType
        <2>5. QED
            BY <1>7, <2>2, <2>4 DEF Save, TypeOK, github, history
    <1>8. CASE Keep(w)
        <2>1. /\ publication' = [publication EXCEPT ![p] = kept(publication[p])]
              /\ run' = [run EXCEPT ![w] = on(kept(run[w].row))]
            BY <1>8 DEF Keep
        <2>2. publication' \in [Ops -> PublicationRow]
            BY <1>1, <1>5, <2>1 DEF TypeOK
        <2>3. on(kept(run[w].row)) \in Run /\ on(kept(run[w].row)).op \in Ops
            BY <1>1, <1>5, <1>6
        <2> HIDE DEF on
        <2>4. run' \in [Workers -> Run] /\ Busy'
            BY <2>1, <2>3, OneRunType
        <2>5. QED
            BY <1>8, <2>2, <2>4 DEF Keep, TypeOK, github, history
    <1>9. QED
        BY <1>7, <1>8

(* From the pull request to the merge.                                      *)
LEMMA PullType ==
    ASSUME TypeOK, Busy, NEW w \in Workers, Find(w) \/ Open(w)
    PROVE  TypeOK' /\ Busy'
    <1>1. run[w] \in Run /\ run[w].op \in Ops /\ pull[run[w].op] \in PullStates
        BY ActiveOp DEF Find, Open, At
    <1>2. \A x \in Run, s \in PullStates, t \in Steps :
            [x EXCEPT !.pull = s, !.step = t] \in Run
        BY DEF Run
    <1>3. "open" \in PullStates /\ {"open", "note", "block"} \subseteq Steps
        BY DEF PullStates, Steps
    <1>4. CASE Find(w)
        <2> DEFINE next == IF pull[run[w].op] = "none" THEN "open" ELSE "note"
                   x == [run[w] EXCEPT !.pull = pull[run[w].op], !.step = next]
        <2>1. x \in Run /\ x.op \in Ops
            BY <1>1, <1>2, <1>3 DEF Run
        <2>2. run' = [run EXCEPT ![w] = x]
            BY <1>4 DEF Find
        <2>3. QED
            BY <1>4, <2>1, <2>2, OneRunType DEF Find, TypeOK, github, tables, history
    <1>5. CASE Open(w)
        <2>1. CASE UNCHANGED pull
            <3>1. CASE Goto(w, "block")
                BY <1>1, <1>3, <1>5, <2>1, <3>1, GotoType
                   DEF Open, At, TypeOK, tables, history
            <3>2. CASE ~Goto(w, "block")
                BY <1>1, <1>5, <2>1, <3>2 DEF Open, TypeOK
            <3>3. QED
                BY <3>1, <3>2
        <2>2. CASE /\ pull' = [pull EXCEPT ![run[w].op] = "open"]
                   /\ run' = [run EXCEPT ![w].pull = "open", ![w].step = "note"]
            <3> DEFINE x == [run[w] EXCEPT !.pull = "open", !.step = "note"]
            <3>1. x \in Run /\ x.op \in Ops
                BY <1>1, <1>2, <1>3 DEF Run
            <3>2. run' = [run EXCEPT ![w] = x]
                BY <2>2
            <3>3. pull' \in [Ops -> PullStates]
                BY <1>3, <2>2 DEF TypeOK
            <3>4. QED
                BY <1>5, <3>1, <3>2, <3>3, OneRunType DEF Open, TypeOK, tables, history
        <2>3. QED
            BY <1>5, <2>1, <2>2 DEF Open
    <1>6. QED
        BY <1>4, <1>5

LEMMA NoteType ==
    ASSUME TypeOK, Busy, NEW w \in Workers, Note(w)
    PROVE  TypeOK' /\ Busy'
    <1> DEFINE p == run[w].op
               noted(r) == [r EXCEPT !.pr = TRUE, !.status = "pr_open"]
               next == NextAfterNote(run[w].pull)
               x == [run[w] EXCEPT !.row = noted(run[w].row), !.step = next]
    <1>1. /\ p \in Ops /\ run[w] \in Run /\ run[w].row \in PublicationRow
          /\ publication[p] \in PublicationRow
        BY ActiveOp DEF Note, At
    <1>2. next \in Steps
        BY DEF NextAfterNote, Steps
    <1>3. \A r \in PublicationRow : noted(r) \in PublicationRow
        BY DEF PublicationRow, Statuses
    <1>4. \A y \in Run, r \in PublicationRow, t \in Steps :
            [y EXCEPT !.row = r, !.step = t] \in Run
        BY DEF Run
    <1>5. CASE Goto(w, next) /\ UNCHANGED publication
        BY <1>2, <1>5, GotoType DEF Note, At, TypeOK, github, history
    <1>6. CASE /\ publication' = [publication EXCEPT ![p].pr = TRUE, ![p].status = "pr_open"]
               /\ run' = [run EXCEPT ![w].row.pr = TRUE, ![w].row.status = "pr_open",
                                     ![w].step = next]
        <2>1. x \in Run /\ x.op \in Ops
            BY <1>1, <1>2, <1>3, <1>4 DEF Run
        <2>2. /\ run' = [run EXCEPT ![w] = x]
              /\ publication' = [publication EXCEPT ![p] = noted(publication[p])]
            BY <1>6
        <2>3. publication' \in [Ops -> PublicationRow]
            BY <1>1, <1>3, <2>2 DEF TypeOK
        <2> HIDE DEF x
        <2>4. run' \in [Workers -> Run] /\ Busy'
            BY <2>1, <2>2, OneRunType
        <2>5. QED
            BY <2>3, <2>4 DEF Note, TypeOK, github, history
    <1>7. QED
        BY <1>5, <1>6 DEF Note

LEMMA CheckType ==
    ASSUME TypeOK, Busy, NEW w \in Workers, Latest(w) \/ Check(w)
    PROVE  TypeOK' /\ Busy'
    <1>1. /\ run[w].op \in Ops /\ publication[run[w].op] \in PublicationRow
          /\ run[w].step # "idle"
        BY ActiveOp DEF Latest, Check, At
    <1>2. {"check", "abandon", "block", "merge"} \subseteq Steps
        BY DEF Steps
    <1>3. CASE Latest(w)
        BY <1>1, <1>2, <1>3, GotoType DEF Latest, TypeOK, github, tables, history
    <1>4. CASE Check(w)
        <2>1. CASE \E s \in {"block", "merge"} :
                     Goto(w, s) /\ UNCHANGED <<publication, job, faults>>
            BY <1>1, <1>2, <1>4, <2>1, GotoType DEF Check, TypeOK, github, history
        <2>2. CASE /\ \E s \in Statuses :
                        publication' = [publication EXCEPT ![run[w].op].status = s]
                   /\ RetryLater(w)
            <3>1. publication' \in [Ops -> PublicationRow]
                BY <1>1, <2>2, RunTypes DEF TypeOK
            <3>2. QED
                BY <1>4, <2>2, <3>1, RetryLaterType DEF Check, TypeOK, github, history
        <2>3. /\ publication[run[w].op].status \in Statuses
              /\ {"checks_pending", "awaiting_review"} \subseteq Statuses
            BY <1>1 DEF PublicationRow, Statuses
        <2>4. QED
            BY <1>4, <2>1, <2>2, <2>3 DEF Check
    <1>5. QED
        BY <1>3, <1>4

LEMMA SquashType ==
    ASSUME TypeOK, NEW p \in Ops, Squash(p)
    PROVE  main' \in Seq(Entry) /\ pull' \in [Ops -> PullStates]
    <1>1. main \in Seq(Entry) /\ branch[p] \in Branch /\ pull \in [Ops -> PullStates]
        BY DEF TypeOK
    <1>2. [op |-> p, exact |-> branch[p].exact] \in Entry
        BY <1>1 DEF Entry, Branch
    <1>3. QED
        BY <1>1, <1>2 DEF Squash, PullStates

LEMMA MergeType ==
    ASSUME TypeOK, Busy, NEW w \in Workers, Merge(w) \/ Merged(w)
    PROVE  TypeOK' /\ Busy'
    <1>1. run[w].op \in Ops /\ run[w].step # "idle"
        BY ActiveOp DEF Merge, Merged, At
    <1>2. CASE Merge(w)
        <2>1. "merged" \in Steps /\ NextAfterRefusal(run[w].op, run[w].row.head) \in Steps
            BY DEF NextAfterRefusal, Steps
        <2>2. run' \in [Workers -> Run] /\ Busy'
            BY <1>1, <1>2, <2>1, GotoType DEF Merge
        <2>3. main' \in Seq(Entry) /\ pull' \in [Ops -> PullStates]
            BY <1>1, <1>2, SquashType DEF Merge, TypeOK
        <2>4. QED
            BY <1>2, <2>2, <2>3 DEF Merge, TypeOK, tables, history
    <1>3. CASE Merged(w)
        <2>1. "merged" \in Statuses /\ "verify" \in Steps
            BY DEF Statuses, Steps
        <2>2. QED
            BY <1>1, <1>3, <2>1, SetStatusType DEF Merged, TypeOK, github, history
    <1>4. QED
        BY <1>2, <1>3

(* From the read-back to the end of the job.                                *)
LEMMA ConfirmType ==
    ASSUME TypeOK, Busy, NEW w \in Workers, Verify(w) \/ Confirm(w)
    PROVE  TypeOK' /\ Busy'
    <1>1. run[w].op \in Ops /\ run[w].step # "idle"
        BY ActiveOp DEF Verify, Confirm, At
    <1>2. CASE Verify(w)
        BY <1>1, <1>2, GotoType DEF Verify, Steps, TypeOK, github, tables, history
    <1>3. CASE Confirm(w)
        <2>1. "verified" \in Statuses /\ "return" \in Steps
            BY DEF Statuses, Steps
        <2>2. receipt' \in [Ops -> {"ledger_queued", "ledger_committed", "withdrawn"}]
            BY <1>1, <1>3 DEF Confirm, CommittedReceipt, TypeOK
        <2>3. registered' \subseteq Ops
            BY <1>1, <1>3 DEF Confirm, TypeOK
        <2>4. QED
            BY <1>1, <1>3, <2>1, <2>2, <2>3, SetStatusType DEF Confirm, TypeOK, github, history
    <1>4. QED
        BY <1>2, <1>3

LEMMA GiveUpType ==
    ASSUME TypeOK, Busy, NEW w \in Workers,
           Abandon(w) \/ Withdraw(w) \/ Requeue(w) \/ Block(w) \/ Finish(w)
    PROVE  TypeOK' /\ Busy'
    <1>1. run[w].op \in Ops /\ run[w].step # "idle"
        BY ActiveOp DEF Abandon, Withdraw, Requeue, Block, Finish, At
    <1>2. /\ {"abandoned", "blocked"} \subseteq Statuses
          /\ {"withdraw", "stop"} \subseteq Steps
          /\ AfterWithdraw(receipt[run[w].op]) \in Steps
        BY DEF Statuses, Steps, AfterWithdraw
    <1>3. CASE Abandon(w)
        BY <1>1, <1>2, <1>3, SetStatusType DEF Abandon, TypeOK, github, history
    <1>4. CASE Withdraw(w)
        <2>1. receipt' \in [Ops -> {"ledger_queued", "ledger_committed", "withdrawn"}]
            BY <1>1, <1>4 DEF Withdraw, WithdrawnReceipt, TypeOK
        <2>2. QED
            BY <1>1, <1>2, <1>4, <2>1, GotoType DEF Withdraw, TypeOK, github, history
    <1>5. CASE Requeue(w)
        BY <1>1, <1>2, <1>5, GotoType DEF Requeue, TypeOK, github, history
    <1>6. CASE Block(w)
        BY <1>1, <1>2, <1>6, SetStatusType DEF Block, TypeOK, github, history
    <1>7. CASE Finish(w)
        <2>1. job' \in [Ops -> JobStates]
            BY <1>1, <1>7 DEF Finish, TypeOK, JobStates
        <2>2. QED
            BY <1>7, <2>1, EndType DEF Finish, TypeOK, github, history
    <1>8. QED
        BY <1>3, <1>4, <1>5, <1>6, <1>7

(* Faults of a run, and what people and other programs do.                  *)
LEMMA FaultsType ==
    ASSUME TypeOK, Busy, NEW w \in Workers, Unavailable(w) \/ Crash(w)
    PROVE  TypeOK' /\ Busy'
    <1>1. Fault /\ run' = [run EXCEPT ![w] = IdleRun]
        BY DEF Unavailable, Crash
    <1>2. run' \in [Workers -> Run] /\ Busy' /\ faults' \in 0..MaxFaults
        BY <1>1, EndType, FaultType
    <1>3. CASE Unavailable(w)
        <2>1. job' \in [Ops -> JobStates]
            BY <1>3 DEF Unavailable, TypeOK, JobStates
        <2>2. QED
            BY <1>2, <1>3, <2>1 DEF Unavailable, TypeOK, github, history
    <1>4. CASE Crash(w)
        <2>1. lost' \subseteq Ops
            BY <1>4 DEF Crash, TypeOK, Busy
        <2>2. QED
            BY <1>2, <1>4, <2>1 DEF Crash, TypeOK, github
    <1>5. QED
        BY <1>3, <1>4

LEMMA StartType ==
    ASSUME TypeOK, Busy, NEW w \in Workers, NEW p \in Ops, Start(w, p)
    PROVE  TypeOK' /\ Busy'
    <1> DEFINE x == [op |-> p, row |-> publication[p], seen |-> NoSha, pull |-> "none",
                     step |-> IF publication[p].status \in {"verified", "abandoned"}
                              THEN "return" ELSE "look"]
    <1>1. publication[p] \in PublicationRow
        BY DEF TypeOK
    <1>2. x \in Run /\ x.op \in Ops
        BY <1>1, RunTypes DEF Run, Steps, PullStates
    <1>3. run' = [run EXCEPT ![w] = x]
        BY DEF Start
    <1> HIDE DEF x
    <1>4. run' \in [Workers -> Run] /\ Busy'
        BY <1>2, <1>3, OneRunType
    <1>5. overtaken' \subseteq Ops /\ faults' \in 0..MaxFaults
        BY FaultType DEF Start, TypeOK
    <1>6. QED
        BY <1>4, <1>5 DEF Start, TypeOK, github

LEMMA OtherWritesShape ==
    ASSUME OtherWrites
    PROVE  /\ main' = Append(main, [op |-> NoOp, exact |-> FALSE])
           /\ UNCHANGED <<branch, pull, checks, tables, run, faults>>
    BY DEF OtherWrites

LEMMA RetryType ==
    ASSUME TypeOK, Busy, NEW p \in Ops, RetryReads(p) \/ RetryOpens(p) \/ RetryUnblocks(p)
    PROVE  TypeOK' /\ Busy'
    <1>1. /\ retry \in [Ops -> Retry] /\ retry[p] \in Retry /\ NoRetry \in Retry
          /\ publication \in [Ops -> PublicationRow]
        BY DEF TypeOK, Retry
    <1>2. CASE RetryReads(p)
        <2>1. \A s \in {"keep", "pr_open", "queued"} : [step |-> "job", status |-> s] \in Retry
            BY DEF Retry
        <2>2. retry' \in [Ops -> Retry]
            BY <1>1, <1>2, <2>1 DEF RetryReads
        <2>3. QED
            BY <1>2, <2>2, FaultType DEF RetryReads, TypeOK, Busy, github
    <1>3. CASE RetryOpens(p)
        <2>1. retry[p].status # "keep" => [step |-> "row", status |-> retry[p].status] \in Retry
            BY <1>1, <1>3 DEF RetryOpens, Retry, NoRetry
        <2>2. retry' \in [Ops -> Retry]
            BY <1>1, <1>3, <2>1 DEF RetryOpens
        <2>3. overtaken' \subseteq Ops /\ job' \in [Ops -> JobStates]
            BY <1>3 DEF RetryOpens, TypeOK, JobStates
        <2>4. QED
            BY <1>3, <2>2, <2>3 DEF RetryOpens, TypeOK, Busy, github
    <1>4. CASE RetryUnblocks(p)
        <2>1. retry[p].status \in Statuses
            BY <1>1, <1>4 DEF RetryUnblocks, Retry, NoRetry, Statuses
        <2>2. publication' \in [Ops -> PublicationRow]
            BY <1>1, <1>4, <2>1, RunTypes DEF RetryUnblocks
        <2>3. retry' \in [Ops -> Retry] /\ overtaken' \subseteq Ops
            BY <1>1, <1>4 DEF RetryUnblocks, TypeOK
        <2>4. QED
            BY <1>4, <2>2, <2>3 DEF RetryUnblocks, TypeOK, Busy, github
    <1>5. QED
        BY <1>2, <1>3, <1>4

LEMMA OtherAttemptsType ==
    ASSUME TypeOK, Busy, NEW p \in Ops, EvaluatedAgain(p) \/ CommittedByAnother(p)
    PROVE  TypeOK' /\ Busy'
    <1>1. receipt' \in [Ops -> {"ledger_queued", "ledger_committed", "withdrawn"}]
        BY DEF EvaluatedAgain, CommittedByAnother, CommittedReceipt, TypeOK
    <1>2. QED
        BY <1>1, FaultType DEF EvaluatedAgain, CommittedByAnother, TypeOK, Busy, github, history

LEMMA OutsideType ==
    ASSUME TypeOK, Busy, (\E p \in Ops : Outside(p)) \/ OtherWrites
    PROVE  TypeOK' /\ Busy'
    <1>1. ASSUME NEW p \in Ops, RetryReads(p) \/ RetryOpens(p) \/ RetryUnblocks(p)
                                \/ EvaluatedAgain(p) \/ CommittedByAnother(p)
          PROVE  TypeOK' /\ Busy'
        BY <1>1, RetryType, OtherAttemptsType
    <1>2. ASSUME NEW p \in Ops, CheckCompletes(p) PROVE TypeOK' /\ Busy'
        <2>1. checks' \in [Ops -> [1..MaxCommits -> CheckStates]]
            <3>1. PICK k \in 1..branch[p].ahead, s \in {"success", "failure"} :
                    checks' = [checks EXCEPT ![p][k] = s]
                BY <1>2 DEF CheckCompletes
            <3>2. checks[p] \in [1..MaxCommits -> CheckStates] /\ s \in CheckStates
                BY DEF TypeOK, CheckStates
            <3>3. [checks[p] EXCEPT ![k] = s] \in [1..MaxCommits -> CheckStates]
                BY <3>2
            <3>4. QED
                BY <3>1, <3>3 DEF TypeOK
        <2>2. faults' \in 0..MaxFaults
            BY <1>2, FaultType DEF CheckCompletes, TypeOK
        <2>3. QED
            BY <1>2, <2>1, <2>2 DEF CheckCompletes, TypeOK, Busy, tables, history
    <1>3. ASSUME NEW p \in Ops, MaintainerMerges(p) PROVE TypeOK' /\ Busy'
        BY <1>3, SquashType DEF MaintainerMerges, TypeOK, Busy, tables, history
    <1>4. ASSUME NEW p \in Ops, MaintainerCloses(p) \/ MaintainerReopens(p)
          PROVE  TypeOK' /\ Busy'
        <2>1. pull' \in [Ops -> PullStates]
            BY <1>4 DEF MaintainerCloses, MaintainerReopens, TypeOK, PullStates
        <2>2. faults' \in 0..MaxFaults
            BY <1>4, FaultType DEF MaintainerCloses, MaintainerReopens, TypeOK
        <2>3. QED
            BY <1>4, <2>1, <2>2
            DEF MaintainerCloses, MaintainerReopens, TypeOK, Busy, tables, history
    <1>5. ASSUME NEW p \in Ops, MaintainerPushes(p) PROVE TypeOK' /\ Busy'
        <2>1. branch \in [Ops -> Branch] /\ branch[p].ahead + 1 \in Nat
            BY DEF TypeOK, Branch
        <2>2. branch' \in [Ops -> Branch]
            BY <1>5, <2>1 DEF MaintainerPushes, Branch
        <2>3. QED
            BY <1>5, <2>2, FaultType DEF MaintainerPushes, TypeOK, Busy, tables, history
    <1>6. CASE OtherWrites
        <2>1. [op |-> NoOp, exact |-> FALSE] \in Entry
            BY DEF Entry
        <2>2. main' \in Seq(Entry)
            <3>1. main \in Seq(Entry) /\ main' = Append(main, [op |-> NoOp, exact |-> FALSE])
                BY <1>6, OtherWritesShape DEF TypeOK
            <3>2. QED
                BY <2>1, <3>1
        <2>3. QED
            BY <1>6, <2>2, OtherWritesShape DEF TypeOK, Busy, tables, history
    <1>7. QED
        BY <1>1, <1>2, <1>3, <1>4, <1>5, <1>6 DEF Outside

LEMMA InitType ==
    ASSUME Init
    PROVE  TypeOK /\ Busy
    <1>1. main \in Seq(Entry)
        BY DEF Init
    <1>2. branch \in [Ops -> Branch]
        BY DEF Init, NoBranch, Branch
    <1>3. publication \in [Ops -> PublicationRow] /\ run \in [Workers -> Run]
        BY RunTypes DEF Init
    <1>4. /\ pull \in [Ops -> PullStates]
          /\ checks \in [Ops -> [1..MaxCommits -> CheckStates]]
          /\ job \in [Ops -> JobStates]
          /\ faults \in 0..MaxFaults
        BY BoundsAssumption DEF Init, PullStates, CheckStates, JobStates
    <1>5. retry \in [Ops -> Retry]
        BY DEF Init, Retry
    <1>6. Busy
        BY DEF Init, Busy, IdleRun
    <1>7. QED
        BY <1>1, <1>2, <1>3, <1>4, <1>5, <1>6 DEF Init, TypeOK

LEMMA NextType ==
    ASSUME TypeOK, Busy, [Next]_vars
    PROVE  TypeOK' /\ Busy'
    <1>1. CASE UNCHANGED vars
        BY <1>1 DEF vars, history, TypeOK, Busy
    <1>2. ASSUME NEW w \in Workers, Progress(w) PROVE TypeOK' /\ Busy'
        BY <1>2, LookType, BranchType, SaveType, PullType, NoteType, CheckType, MergeType,
           ConfirmType, GiveUpType DEF Progress
    <1>3. ASSUME NEW w \in Workers, Unavailable(w) \/ Crash(w) PROVE TypeOK' /\ Busy'
        BY <1>3, FaultsType
    <1>4. ASSUME NEW p \in Ops, Starts(p) PROVE TypeOK' /\ Busy'
        BY <1>4, StartType DEF Starts
    <1>5. CASE (\E p \in Ops : Outside(p)) \/ OtherWrites
        BY <1>5, OutsideType
    <1>6. QED
        BY <1>1, <1>2, <1>3, <1>4, <1>5 DEF Next

(* Type correctness: the default branch, branches, pull requests, rows, jobs *)
(* and runs keep their shapes, and a run that is at work has a publication. *)
THEOREM TypeCorrect == Spec => [](TypeOK /\ Busy)
    <1>1. Init => TypeOK /\ Busy
        BY InitType
    <1>2. TypeOK /\ Busy /\ [Next]_vars => (TypeOK /\ Busy)'
        BY NextType
    <1>3. QED
        BY <1>1, <1>2, PTL DEF Spec

-----------------------------------------------------------------------------
(* Who changes what.                                                        *)

(* A run changes only by a step of its own.                                 *)
LEMMA OwnSteps ==
    ASSUME TypeOK, [Next]_vars, NEW v \in Workers, run'[v] # run[v]
    PROVE  Progress(v) \/ Unavailable(v) \/ Crash(v) \/ \E p \in Ops : Start(v, p)
    <1>0. run \in [Workers -> Run]
        BY DEF TypeOK
    <1>1. ASSUME NEW w \in Workers, w # v, Progress(w) PROVE run'[v] = run[v]
        <2>1. CASE Look(w) \/ Create(w) \/ Commit(w) \/ Save(w) \/ Keep(w) \/ Find(w)
            BY <1>0, <1>1, <2>1 DEF Look, Create, Commit, Save, Keep, Find, Goto
        <2>2. CASE Open(w) \/ Note(w) \/ Latest(w) \/ Check(w) \/ Merge(w) \/ Merged(w)
            BY <1>0, <1>1, <2>2
            DEF Open, Note, Latest, Check, Merge, Merged, Goto, SetStatus, RetryLater
        <2>3. CASE Verify(w) \/ Confirm(w) \/ Abandon(w) \/ Withdraw(w) \/ Requeue(w)
                   \/ Block(w) \/ Finish(w)
            BY <1>0, <1>1, <2>3
            DEF Verify, Confirm, Abandon, Withdraw, Requeue, Block, Finish, Goto, SetStatus
        <2>4. QED
            BY <1>1, <2>1, <2>2, <2>3 DEF Progress
    <1>2. ASSUME NEW w \in Workers, w # v, Unavailable(w) \/ Crash(w) PROVE run'[v] = run[v]
        BY <1>0, <1>2 DEF Unavailable, Crash
    <1>3. ASSUME NEW w \in Workers, NEW p \in Ops, w # v, Start(w, p) PROVE run'[v] = run[v]
        BY <1>0, <1>3 DEF Start
    <1>4. ASSUME NEW p \in Ops, Outside(p) PROVE run'[v] = run[v]
        BY <1>4 DEF Outside, RetryReads, RetryOpens, RetryUnblocks, EvaluatedAgain, CommittedByAnother,
                    CheckCompletes, MaintainerMerges,
                    MaintainerCloses, MaintainerReopens, MaintainerPushes
    <1>5. CASE OtherWrites \/ UNCHANGED vars
        BY <1>5, OtherWritesShape DEF vars
    <1>6. QED
        BY <1>1, <1>2, <1>3, <1>4, <1>5 DEF Next, Starts

LEMMA ActiveSteps ==
    ASSUME NEW w \in Workers, Progress(w)
    PROVE  run[w].step # "idle"
    <1>1. CASE Look(w) \/ Create(w) \/ Commit(w) \/ Save(w) \/ Keep(w) \/ Find(w) \/ Open(w)
        BY <1>1 DEF Look, Create, Commit, Save, Keep, Find, Open, At
    <1>2. CASE Note(w) \/ Latest(w) \/ Check(w) \/ Merge(w) \/ Merged(w) \/ Verify(w)
        BY <1>2 DEF Note, Latest, Check, Merge, Merged, Verify, At
    <1>3. CASE Confirm(w) \/ Abandon(w) \/ Withdraw(w) \/ Requeue(w) \/ Block(w) \/ Finish(w)
        BY <1>3 DEF Confirm, Abandon, Withdraw, Requeue, Block, Finish, At
    <1>4. QED
        BY <1>1, <1>2, <1>3 DEF Progress

(* The order of a run's steps.                                              *)
Follows(s) ==
    CASE s = "look" -> {"create", "commit", "keep"}
      [] s = "create" -> {"commit", "block"}
      [] s = "commit" -> {"save", "abandon"}
      [] s \in {"save", "keep"} -> {"find"}
      [] s = "find" -> {"open", "note"}
      [] s = "open" -> {"note", "block"}
      [] s = "note" -> {"latest", "verify", "block"}
      [] s = "latest" -> {"check", "abandon"}
      [] s = "check" -> {"merge", "block"}
      [] s = "merge" -> {"merged", "abandon", "block"}
      [] s = "merged" -> {"verify"}
      [] s = "verify" -> {"confirm", "block"}
      [] s = "confirm" -> {"return"}
      [] s = "abandon" -> {"withdraw"}
      [] s = "withdraw" -> {"requeue"}
      [] s \in {"requeue", "block"} -> {"stop"}
      [] OTHER -> {}

LEMMA RunFlow ==
    ASSUME TypeOK, NEW w \in Workers, Progress(w)
    PROVE  \/ run'[w] = IdleRun
           \/ run'[w].op = run[w].op /\ run'[w].step \in Follows(run[w].step)
    <1>1. run \in [Workers -> Run]
        BY DEF TypeOK
    <1>2. \A s, t : /\ Goto(w, s) => run'[w].op = run[w].op /\ run'[w].step = s
                    /\ SetStatus(w, t, s) => run'[w].op = run[w].op /\ run'[w].step = s
                    /\ RetryLater(w) => run'[w] = IdleRun
        BY <1>1 DEF Goto, SetStatus, RetryLater, Run
    <1> USE DEF At, Follows
    <1>3. CASE Look(w) \/ Create(w) \/ Commit(w)
        <2>1. CASE Look(w)
            <3>1. /\ run'[w].op = run[w].op
                  /\ run'[w].step = NextAfterLook(run[w].row, run[w].op)
                BY <1>1, <2>1 DEF Look, Run
            <3>2. QED
                BY <2>1, <3>1 DEF Look, NextAfterLook
        <2>2. CASE Create(w) \/ Commit(w)
            BY <1>2, <2>2 DEF Create, Commit
        <2>3. QED
            BY <1>3, <2>1, <2>2
    <1>4. CASE Save(w) \/ Keep(w) \/ Find(w)
        BY <1>1, <1>4 DEF Save, Keep, Find, Run
    <1>5. CASE Open(w) \/ Note(w)
        <2>1. run'[w].op = run[w].op
            BY <1>1, <1>2, <1>5, SMTT(60) DEF Open, Note, Run
        <2>2. CASE Open(w)
            BY <1>1, <1>2, <2>1, <2>2 DEF Open, Run
        <2>3. CASE Note(w)
            <3>1. run'[w].step = NextAfterNote(run[w].pull)
                <4>1. \/ Goto(w, NextAfterNote(run[w].pull))
                      \/ run' = [run EXCEPT ![w].row.pr = TRUE, ![w].row.status = "pr_open",
                                            ![w].step = NextAfterNote(run[w].pull)]
                    BY <2>3 DEF Note
                <4>2. QED
                    BY <1>1, <1>2, <4>1 DEF Goto, Run
            <3>2. NextAfterNote(run[w].pull) \in {"latest", "verify", "block"}
                BY DEF NextAfterNote
            <3>3. QED
                BY <2>1, <2>3, <3>1, <3>2 DEF Note
        <2>4. QED
            BY <1>5, <2>2, <2>3
    <1>6. CASE Latest(w) \/ Check(w) \/ Merge(w) \/ Merged(w)
        BY <1>2, <1>6 DEF Latest, Check, Merge, NextAfterRefusal, Merged
    <1>7. CASE Verify(w) \/ Confirm(w) \/ Abandon(w) \/ Withdraw(w) \/ Requeue(w) \/ Block(w)
        BY <1>2, <1>7 DEF Verify, Confirm, Abandon, Withdraw, AfterWithdraw, Requeue, Block
    <1>8. CASE Finish(w)
        BY <1>1, <1>8 DEF Finish
    <1>9. QED
        BY <1>3, <1>4, <1>5, <1>6, <1>7, <1>8 DEF Progress

(* A run that takes up a step came there from the step before.              *)
LEMMA RunArrives ==
    ASSUME TypeOK, [Next]_vars, NEW v \in Workers, run'[v] # run[v]
    PROVE  \/ run'[v] = IdleRun
           \/ \E p \in Ops : Start(v, p) /\ run'[v].step \in {"look", "return"}
           \/ /\ Progress(v) /\ run'[v].op = run[v].op
              /\ run'[v].step \in Follows(run[v].step)
    <1>1. CASE Progress(v)
        BY <1>1, RunFlow
    <1>2. CASE Unavailable(v) \/ Crash(v)
        BY <1>2 DEF Unavailable, Crash, TypeOK
    <1>3. ASSUME NEW p \in Ops, Start(v, p) PROVE run'[v].step \in {"look", "return"}
        BY <1>3 DEF Start, TypeOK
    <1>4. QED
        BY <1>1, <1>2, <1>3, OwnSteps

(* The default branch and the pull requests change by a merge of an open     *)
(* pull request, by a commit of another writer, or by opening or closing a  *)
(* pull request that is not merged.                                         *)
LEMMA PullSteps ==
    ASSUME TypeOK, Busy, [Next]_vars
    PROVE  \/ UNCHANGED <<main, pull>>
           \/ \E p \in Ops : pull[p] = "open" /\ Squash(p)
           \/ main' = Append(main, [op |-> NoOp, exact |-> FALSE]) /\ UNCHANGED pull
           \/ /\ UNCHANGED main
              /\ \E p \in Ops, s \in {"open", "closed"} :
                   pull[p] # "merged" /\ pull' = [pull EXCEPT ![p] = s]
    <1>1. ASSUME NEW w \in Workers, Open(w)
          PROVE  \/ UNCHANGED <<main, pull>>
                 \/ /\ UNCHANGED main
                    /\ \E p \in Ops, s \in {"open", "closed"} :
                         pull[p] # "merged" /\ pull' = [pull EXCEPT ![p] = s]
        <2>1. run[w].op \in Ops
            BY <1>1, ActiveOp DEF Open, At
        <2>2. QED
            BY <1>1, <2>1 DEF Open
    <1>2. ASSUME NEW w \in Workers, Merge(w)
          PROVE  \/ UNCHANGED <<main, pull>>
                 \/ \E p \in Ops : pull[p] = "open" /\ Squash(p)
        <2>1. run[w].op \in Ops
            BY <1>2, ActiveOp DEF Merge, At
        <2>2. QED
            BY <1>2, <2>1 DEF Merge, Mergeable
    <1>3. ASSUME NEW w \in Workers, Progress(w), ~Open(w), ~Merge(w)
          PROVE  UNCHANGED <<main, pull>>
        BY <1>3
        DEF Progress, Look, Create, Commit, Save, Keep, Find, Note, Latest, Check,
            Merged, Verify, Confirm, Abandon, Withdraw, Requeue, Block, Finish, github
    <1>4. ASSUME NEW w \in Workers, Unavailable(w) \/ Crash(w) \/ \E p \in Ops : Start(w, p)
          PROVE  UNCHANGED <<main, pull>>
        BY <1>4 DEF Unavailable, Crash, Start, github
    <1>5. ASSUME NEW p \in Ops, ~MaintainerMerges(p), ~MaintainerCloses(p),
                 ~MaintainerReopens(p), Outside(p)
          PROVE  UNCHANGED <<main, pull>>
        BY <1>5 DEF Outside, RetryReads, RetryOpens, RetryUnblocks, EvaluatedAgain,
                    CommittedByAnother, CheckCompletes, MaintainerPushes, github
    <1>6. ASSUME NEW p \in Ops, MaintainerMerges(p)
          PROVE  pull[p] = "open" /\ Squash(p)
        BY <1>6 DEF MaintainerMerges, Mergeable
    <1>7. ASSUME NEW p \in Ops, MaintainerCloses(p) \/ MaintainerReopens(p)
          PROVE  /\ UNCHANGED main
                 /\ \E s \in {"open", "closed"} :
                       pull[p] # "merged" /\ pull' = [pull EXCEPT ![p] = s]
        BY <1>7 DEF MaintainerCloses, MaintainerReopens
    <1>8. CASE OtherWrites \/ UNCHANGED vars
        BY <1>8, OtherWritesShape DEF vars
    <1>9. QED
        BY <1>1, <1>2, <1>3, <1>4, <1>5, <1>6, <1>7, <1>8 DEF Next, Starts, Outside

(* Commits stay where they are.                                             *)
LEMMA MainGrows ==
    ASSUME TypeOK, Busy, [Next]_vars
    PROVE  /\ Len(main') \in Nat /\ Len(main) \in Nat /\ Len(main) <= Len(main')
           /\ \A i \in 1..Len(main) : main'[i] = main[i]
    <1>1. main \in Seq(Entry) /\ main' \in Seq(Entry)
        BY NextType DEF TypeOK
    <1>2. UNCHANGED main \/ \E e : main' = Append(main, e)
        BY PullSteps DEF Squash
    <1>3. QED
        BY <1>1, <1>2

(* Only the run that confirms registers; it, the run that abandons and other *)
(* attempts of the submission decide about the number.                      *)
LEMMA DecidingSteps ==
    ASSUME [Next]_vars
    PROVE  /\ \/ UNCHANGED receipt
              \/ \E w \in Workers : Confirm(w) \/ Withdraw(w)
              \/ \E p \in Ops : EvaluatedAgain(p) \/ CommittedByAnother(p)
           /\ UNCHANGED registered \/ \E w \in Workers : Confirm(w)
    <1>1. ASSUME NEW w \in Workers, Progress(w), ~Confirm(w), ~Withdraw(w)
          PROVE  UNCHANGED <<receipt, registered>>
        BY <1>1
        DEF Progress, Look, Create, Commit, Save, Keep, Find, Open, Note, Latest, Check,
            Merge, Merged, Verify, Abandon, Requeue, Block, Finish, tables
    <1>2. ASSUME NEW w \in Workers, Withdraw(w) PROVE UNCHANGED registered
        BY <1>2 DEF Withdraw
    <1>3. ASSUME NEW w \in Workers, Unavailable(w) \/ Crash(w) \/ \E p \in Ops : Start(w, p)
          PROVE  UNCHANGED <<receipt, registered>>
        BY <1>3 DEF Unavailable, Crash, Start
    <1>4. ASSUME NEW p \in Ops, Outside(p)
          PROVE  /\ UNCHANGED registered
                 /\ UNCHANGED receipt \/ EvaluatedAgain(p) \/ CommittedByAnother(p)
        BY <1>4 DEF Outside, RetryReads, RetryOpens, RetryUnblocks, EvaluatedAgain,
                    CommittedByAnother, CheckCompletes, MaintainerMerges,
                    MaintainerCloses, MaintainerReopens, MaintainerPushes, tables
    <1>5. CASE OtherWrites \/ UNCHANGED vars
        BY <1>5, OtherWritesShape DEF vars, tables
    <1>6. QED
        BY <1>1, <1>2, <1>3, <1>4, <1>5 DEF Next, Starts

-----------------------------------------------------------------------------
(* Merged once, registered when published.                                  *)

LEMMA MergeStays ==
    ASSUME TypeOK, Busy, CommitsAreMerged, OneMerge, [Next]_vars
    PROVE  CommitsAreMerged' /\ OneMerge'
    <1>1. main \in Seq(Entry) /\ main' \in Seq(Entry) /\ pull \in [Ops -> PullStates]
        BY NextType DEF TypeOK
    <1>2. \A i \in 1..Len(main) : main[i].op \in Ops \cup {NoOp}
        <2>1. \A i \in 1..Len(main) : main[i] \in Entry
            BY <1>1
        <2>2. QED
            BY <2>1 DEF Entry
    <1>3. CASE UNCHANGED <<main, pull>>
        BY <1>3 DEF CommitsAreMerged, OneMerge
    <1>4. ASSUME NEW p \in Ops, pull[p] = "open", Squash(p)
          PROVE  CommitsAreMerged' /\ OneMerge'
        <2> DEFINE n == Len(main) + 1
        <2>1. /\ Len(main') = n /\ main'[n].op = p
              /\ \A i \in 1..n : i # n => i \in 1..Len(main) /\ main'[i] = main[i]
            BY <1>1, <1>4 DEF Squash
        <2>2. \A i \in 1..Len(main) : main[i].op # p
            BY <1>4, NoOpAssumption DEF CommitsAreMerged
        <2>3. pull' = [pull EXCEPT ![p] = "merged"]
            BY <1>4 DEF Squash
        <2> HIDE DEF n
        <2>4. CommitsAreMerged'
            <3> SUFFICES ASSUME NEW i \in 1..n, main'[i].op # NoOp
                         PROVE  pull'[main'[i].op] = "merged"
                BY <2>1 DEF CommitsAreMerged
            <3>1. CASE i = n
                BY <1>1, <2>1, <2>3, <3>1
            <3>2. CASE i # n
                BY <1>1, <1>2, <2>1, <2>3, <3>2 DEF CommitsAreMerged
            <3>3. QED
                BY <3>1, <3>2
        <2>5. OneMerge'
            BY <2>1, <2>2 DEF OneMerge
        <2>6. QED
            BY <2>4, <2>5
    <1>5. CASE main' = Append(main, [op |-> NoOp, exact |-> FALSE]) /\ UNCHANGED pull
        <2>1. /\ Len(main') = Len(main) + 1 /\ main'[Len(main) + 1].op = NoOp
              /\ \A i \in 1..Len(main) : main'[i] = main[i]
              /\ \A i \in 1..(Len(main) + 1) : i # Len(main) + 1 => i \in 1..Len(main)
            BY <1>1, <1>5
        <2>2. QED
            BY <1>5, <2>1 DEF CommitsAreMerged, OneMerge
    <1>6. ASSUME UNCHANGED main, NEW p \in Ops, NEW s \in {"open", "closed"},
                 pull[p] # "merged", pull' = [pull EXCEPT ![p] = s]
          PROVE  CommitsAreMerged' /\ OneMerge'
        BY <1>1, <1>2, <1>6 DEF CommitsAreMerged, OneMerge
    <1>7. QED
        BY <1>3, <1>4, <1>5, <1>6, PullSteps

LEMMA ConfirmsStay ==
    ASSUME TypeOK, Busy, ConfirmsReadBack, [Next]_vars
    PROVE  ConfirmsReadBack'
    <1>1. \A p : ReadsBack(p) => ReadsBack(p)'
        BY MainGrows DEF ReadsBack
    <1>2. ASSUME NEW v \in Workers, run'[v].step = "confirm" PROVE ReadsBack(run'[v].op)
        <2>1. CASE run'[v] = run[v]
            BY <1>2, <2>1 DEF ConfirmsReadBack, At
        <2>2. CASE run'[v] # run[v]
            <3>1. Progress(v) /\ run'[v].op = run[v].op /\ "confirm" \in Follows(run[v].step)
                BY <1>2, <2>2, RunArrives DEF IdleRun
            <3>2. run[v].step = "verify"
                BY <3>1 DEF Follows
            <3>3. Verify(v)
                BY <3>1, <3>2
                DEF Progress, Look, Create, Commit, Save, Keep, Find, Open, Note, Latest,
                    Check, Merge, Merged, Confirm, Abandon, Withdraw, Requeue, Block,
                    Finish, At
            <3>4. QED
                BY <1>2, <3>1, <3>3 DEF Verify, Goto, TypeOK, Run
        <2>3. QED
            BY <2>1, <2>2
    <1>3. QED
        BY <1>1, <1>2 DEF ConfirmsReadBack, At

LEMMA RegisteredStays ==
    ASSUME TypeOK, Busy, ConfirmsReadBack, RegisteredIsPublished, [Next]_vars
    PROVE  RegisteredIsPublished'
    <1> DEFINE Published(p) == \E i \in 1..Len(main) : main[i].op = p /\ main[i].exact
    <1>1. \A p \in Ops : Published(p) => Published(p)'
        BY MainGrows
    <1>2. ASSUME NEW w \in Workers, Confirm(w) PROVE Published(run[w].op)
        <2>1. ReadsBack(run[w].op)
            BY <1>2 DEF Confirm, At, ConfirmsReadBack
        <2>2. PICK i \in 1..Len(main) : main[i] = [op |-> run[w].op, exact |-> TRUE]
            BY <2>1 DEF ReadsBack
        <2>3. main[i].op = run[w].op /\ main[i].exact
            BY <2>2
        <2>4. QED
            BY <2>3
    <1>3. ASSUME NEW p \in Ops, p \in registered' PROVE Published(p)
        <2>1. CASE p \in registered
            BY <2>1 DEF RegisteredIsPublished
        <2>2. CASE p \notin registered
            <3>1. PICK w \in Workers : Confirm(w)
                BY <1>3, <2>2, DecidingSteps
            <3>2. run[w].op = p
                BY <1>3, <2>2, <3>1 DEF Confirm
            <3>3. QED
                BY <1>2, <3>1, <3>2
        <2>3. QED
            BY <2>1, <2>2
    <1>4. registered' \subseteq Ops
        BY NextType DEF TypeOK
    <1>5. QED
        BY <1>1, <1>3, <1>4 DEF RegisteredIsPublished

(* A publication is merged at most once, whatever crashes and overlapping    *)
(* runs do: its first commit closes its pull request for good, and nothing  *)
(* merges a pull request that is not open.                                  *)
THEOREM OneMergeHolds == Spec => []OneMerge
    <1> DEFINE Inv == TypeOK /\ Busy /\ CommitsAreMerged /\ OneMerge
    <1>1. Init => Inv
        <2>1. Init => CommitsAreMerged /\ OneMerge
            BY DEF Init, CommitsAreMerged, OneMerge
        <2>2. QED
            BY <2>1, InitType
    <1>2. Inv /\ [Next]_vars => Inv'
        BY NextType, MergeStays
    <1>3. Inv => OneMerge
        OBVIOUS
    <1>4. QED
        BY <1>1, <1>2, <1>3, PTL DEF Spec

(* Nothing is REGISTERED unless the default branch has exactly the expected  *)
(* files: every run that confirms has read them back, and commits stay.     *)
THEOREM RegisteredIsPublishedHolds == Spec => []RegisteredIsPublished
    <1> DEFINE Inv == TypeOK /\ Busy /\ ConfirmsReadBack /\ RegisteredIsPublished
    <1>1. Init => Inv
        <2>1. Init => ConfirmsReadBack /\ RegisteredIsPublished
            BY DEF Init, ConfirmsReadBack, RegisteredIsPublished, At, IdleRun
        <2>2. QED
            BY <2>1, InitType
    <1>2. Inv /\ [Next]_vars => Inv'
        BY NextType, ConfirmsStay, RegisteredStays
    <1>3. Inv => RegisteredIsPublished
        OBVIOUS
    <1>4. QED
        BY <1>1, <1>2, <1>3, PTL DEF Spec

(* What a run decides about the receipt number, no run of this or of another *)
(* attempt's publication writes over: only a new evaluation does.           *)
THEOREM ReceiptIsFinalHolds == Spec => ReceiptIsFinal
    <1> DEFINE Final == \A p \in Ops :
                          receipt[p] # "ledger_queued" => receipt'[p] = receipt[p] \/ EvaluatedAgain(p)
    <1>1. TypeOK /\ Busy /\ [Next]_vars => Final
        <2> SUFFICES ASSUME TypeOK, Busy, [Next]_vars, NEW p \in Ops,
                            receipt[p] # "ledger_queued", ~EvaluatedAgain(p)
                     PROVE  receipt'[p] = receipt[p]
            OBVIOUS
        <2>1. ASSUME NEW w \in Workers, Confirm(w) PROVE receipt'[p] = receipt[p]
            BY <2>1 DEF Confirm, CommittedReceipt, TypeOK
        <2>2. ASSUME NEW w \in Workers, Withdraw(w) PROVE receipt'[p] = receipt[p]
            BY <2>2 DEF Withdraw, WithdrawnReceipt, TypeOK
        <2>3. ASSUME NEW q \in Ops, EvaluatedAgain(q) PROVE receipt'[p] = receipt[p]
            BY <2>3 DEF EvaluatedAgain, TypeOK
        <2>4. ASSUME NEW q \in Ops, CommittedByAnother(q) PROVE receipt'[p] = receipt[p]
            BY <2>4 DEF CommittedByAnother, CommittedReceipt, TypeOK
        <2>5. QED
            BY <2>1, <2>2, <2>3, <2>4, DecidingSteps
    <1>2. QED
        BY <1>1, TypeCorrect, PTL DEF Spec, ReceiptIsFinal

-----------------------------------------------------------------------------
(* No stale merge.                                                          *)

(* A branch, once it is there, stays on its commit of the default branch.    *)
LEMMA BranchesStay ==
    ASSUME TypeOK, Busy, BranchesStand, [Next]_vars, NEW p \in Ops, HasBranch(p)
    PROVE  HasBranch(p)' /\ branch'[p].at = branch[p].at
    <1>1. branch \in [Ops -> Branch] /\ branch[p].at \in Nat \ {0}
        BY DEF TypeOK, Branch, BranchesStand
    <1>2. NoBranch.at = 0
        BY DEF NoBranch
    <1>3. SUFFICES branch'[p].at = branch[p].at
        BY <1>1, <1>2 DEF HasBranch
    <1>4. ASSUME NEW w \in Workers, Progress(w) PROVE branch'[p].at = branch[p].at
        <2>1. CASE Create(w)
            BY <1>1, <2>1 DEF Create
        <2>2. CASE Commit(w)
            BY <1>1, <2>2 DEF Commit, Branch
        <2>3. CASE ~Create(w) /\ ~Commit(w)
            BY <1>4, <2>3
            DEF Progress, Look, Save, Keep, Find, Open, Note, Latest, Check, Merge,
                Merged, Verify, Confirm, Abandon, Withdraw, Requeue, Block, Finish, github
        <2>4. QED
            BY <2>1, <2>2, <2>3
    <1>5. ASSUME NEW w \in Workers, Unavailable(w) \/ Crash(w) \/ \E q \in Ops : Start(w, q)
          PROVE  branch'[p].at = branch[p].at
        BY <1>5 DEF Unavailable, Crash, Start, github
    <1>6. ASSUME NEW q \in Ops, MaintainerPushes(q) PROVE branch'[p].at = branch[p].at
        BY <1>1, <1>6 DEF MaintainerPushes, Branch
    <1>7. ASSUME NEW q \in Ops, Outside(q), ~MaintainerPushes(q)
          PROVE  branch'[p].at = branch[p].at
        BY <1>7 DEF Outside, RetryReads, RetryOpens, RetryUnblocks, EvaluatedAgain, CommittedByAnother,
                    CheckCompletes, MaintainerMerges,
                    MaintainerCloses, MaintainerReopens, github
    <1>8. CASE OtherWrites \/ UNCHANGED vars
        BY <1>8, OtherWritesShape DEF vars
    <1>9. QED
        BY <1>4, <1>5, <1>6, <1>7, <1>8 DEF Next, Starts

(* Only Save records a base.                                                *)
LEMMA BaseSteps ==
    ASSUME TypeOK, Busy, [Next]_vars, NEW p \in Ops
    PROVE  \/ publication'[p].base = publication[p].base
           \/ \E w \in Workers :
                 /\ Save(w) /\ run[w].op = p
                 /\ publication'[p].base = BaseSha(run[w].row.base, run[w].seen)
    <1>1. publication \in [Ops -> PublicationRow]
        BY DEF TypeOK
    <1> USE DEF PublicationRow
    <1>2. ASSUME NEW w \in Workers, Save(w)
          PROVE  \/ publication'[p].base = publication[p].base
                 \/ /\ run[w].op = p
                    /\ publication'[p].base = BaseSha(run[w].row.base, run[w].seen)
        BY <1>1, <1>2 DEF Save
    <1>3. ASSUME NEW w \in Workers, Progress(w), ~Save(w)
          PROVE  publication'[p].base = publication[p].base
        <2>1. CASE Keep(w) \/ Note(w) \/ Check(w)
            BY <1>1, <2>1 DEF Keep, Note, Check
        <2>2. CASE Merged(w) \/ Confirm(w) \/ Abandon(w) \/ Block(w)
            <3>1. \A t, s : SetStatus(w, t, s) => publication'[p].base = publication[p].base
                BY <1>1 DEF SetStatus
            <3>2. QED
                BY <2>2, <3>1 DEF Merged, Confirm, Abandon, Block
        <2>3. CASE Look(w) \/ Create(w) \/ Commit(w) \/ Find(w) \/ Open(w) \/ Latest(w)
                   \/ Merge(w) \/ Verify(w) \/ Withdraw(w) \/ Requeue(w) \/ Finish(w)
            BY <2>3 DEF Look, Create, Commit, Find, Open, Latest, Merge, Verify, Withdraw,
                        Requeue, Finish, tables
        <2>4. QED
            BY <1>3, <2>1, <2>2, <2>3 DEF Progress
    <1>4. ASSUME NEW w \in Workers, Unavailable(w) \/ Crash(w) \/ \E q \in Ops : Start(w, q)
          PROVE  publication'[p].base = publication[p].base
        BY <1>4 DEF Unavailable, Crash, Start
    <1>5. ASSUME NEW q \in Ops, Outside(q) PROVE publication'[p].base = publication[p].base
        <2>1. CASE RetryUnblocks(q)
            BY <1>1, <2>1 DEF RetryUnblocks
        <2>2. CASE ~RetryUnblocks(q)
            BY <1>5, <2>2 DEF Outside, RetryReads, RetryOpens, EvaluatedAgain,
                              CommittedByAnother, CheckCompletes, MaintainerMerges, MaintainerCloses,
                              MaintainerReopens, MaintainerPushes, tables
        <2>3. QED
            BY <2>1, <2>2
    <1>6. CASE OtherWrites \/ UNCHANGED vars
        BY <1>6, OtherWritesShape DEF vars, tables
    <1>7. QED
        BY <1>2, <1>3, <1>4, <1>5, <1>6 DEF Next, Starts

(* A branch is created where the run that creates it saw the default branch. *)
LEMMA NewBranches ==
    ASSUME TypeOK, Busy, BranchesStand, RunsStand, [Next]_vars, NEW p \in Ops,
           ~HasBranch(p), HasBranch(p)'
    PROVE  branch'[p].at # 0
    <1>1. branch \in [Ops -> Branch]
        BY DEF TypeOK
    <1>2. branch'[p] # branch[p]
        BY DEF HasBranch
    <1>3. ASSUME NEW w \in Workers, Progress(w) PROVE Create(w)
        <2>1. ~Commit(w)
            <3>1. Commit(w) => HasBranch(run[w].op)
                BY DEF Commit, At, RunsStand
            <3>2. QED
                BY <1>1, <1>2, <3>1 DEF Commit
        <2>2. QED
            BY <1>2, <1>3, <2>1
            DEF Progress, Look, Save, Keep, Find, Open, Note, Latest, Check, Merge,
                Merged, Verify, Confirm, Abandon, Withdraw, Requeue, Block, Finish, github
    <1>4. ASSUME NEW w \in Workers, Create(w) PROVE branch'[p].at # 0
        BY <1>1, <1>2, <1>4 DEF Create, At, RunsStand
    <1>5. \A w \in Workers : ~Unavailable(w) /\ ~Crash(w) /\ \A q \in Ops : ~Start(w, q)
        BY <1>2 DEF Unavailable, Crash, Start, github
    <1>6. ASSUME NEW q \in Ops, Outside(q) PROVE FALSE
        <2>1. ~MaintainerPushes(q)
            <3>1. MaintainerPushes(q) => HasBranch(q)
                BY DEF MaintainerPushes, BranchesStand
            <3>2. MaintainerPushes(q) => q = p
                BY <1>1, <1>2 DEF MaintainerPushes
            <3>3. QED
                BY <3>1, <3>2
        <2>2. QED
            BY <1>2, <1>6, <2>1
            DEF Outside, RetryReads, RetryOpens, RetryUnblocks, EvaluatedAgain, CommittedByAnother,
                    CheckCompletes, MaintainerMerges,
                MaintainerCloses, MaintainerReopens, github
    <1>7. ~OtherWrites /\ ~UNCHANGED vars
        BY <1>2, OtherWritesShape DEF vars
    <1>8. QED
        BY <1>3, <1>4, <1>5, <1>6, <1>7 DEF Next, Starts

(* Only a run that has made sure of its branch opens a pull request.         *)
LEMMA NewPulls ==
    ASSUME TypeOK, Busy, [Next]_vars, NEW p \in Ops, pull[p] = "none", pull'[p] # "none"
    PROVE  \E w \in Workers : Open(w) /\ run[w].op = p
    <1>1. pull \in [Ops -> PullStates]
        BY DEF TypeOK
    <1>2. ASSUME NEW w \in Workers, Progress(w) PROVE Open(w) /\ run[w].op = p
        <2>1. ~Merge(w)
            BY <1>1 DEF Merge, Mergeable, Squash
        <2>2. Open(w)
            BY <1>2, <2>1
            DEF Progress, Look, Create, Commit, Save, Keep, Find, Note, Latest, Check,
                Merged, Verify, Confirm, Abandon, Withdraw, Requeue, Block, Finish, github
        <2>3. QED
            BY <1>1, <2>2 DEF Open
    <1>3. \A w \in Workers : ~Unavailable(w) /\ ~Crash(w) /\ \A q \in Ops : ~Start(w, q)
        BY DEF Unavailable, Crash, Start, github
    <1>4. ASSUME NEW q \in Ops, Outside(q) PROVE FALSE
        <2>1. ~MaintainerMerges(q) /\ ~MaintainerCloses(q) /\ ~MaintainerReopens(q)
            BY <1>1 DEF MaintainerMerges, Mergeable, Squash, MaintainerCloses, MaintainerReopens
        <2>2. QED
            BY <1>4, <2>1 DEF Outside, RetryReads, RetryOpens, RetryUnblocks, EvaluatedAgain, CommittedByAnother,
                    CheckCompletes, MaintainerPushes, github
    <1>5. ~OtherWrites /\ ~UNCHANGED vars
        BY OtherWritesShape DEF vars
    <1>6. QED
        BY <1>2, <1>3, <1>4, <1>5 DEF Next, Starts

LEMMA BranchesStandStays ==
    ASSUME TypeOK, Busy, BranchesStand, RunsStand, [Next]_vars
    PROVE  BranchesStand'
    <1> SUFFICES ASSUME NEW p \in Ops
                 PROVE  /\ HasBranch(p)' => branch'[p].at # 0
                        /\ pull'[p] # "none" => HasBranch(p)'
                        /\ \/ publication'[p].base = NoSha
                           \/ publication'[p].base.at = branch'[p].at /\ HasBranch(p)'
        BY DEF BranchesStand, Rooted
    <1>1. HasBranch(p)' => branch'[p].at # 0
        BY BranchesStay, NewBranches DEF BranchesStand
    <1>2. pull'[p] # "none" => HasBranch(p)'
        <2>1. pull[p] # "none" => HasBranch(p)
            BY DEF BranchesStand
        <2>2. ASSUME NEW w \in Workers, Open(w), run[w].op = p PROVE HasBranch(p)
            BY <2>2 DEF Open, At, RunsStand
        <2>3. QED
            BY <2>1, <2>2, NewPulls, BranchesStay
    <1>3. \/ publication'[p].base = NoSha
          \/ publication'[p].base.at = branch'[p].at /\ HasBranch(p)'
        <2>1. CASE publication'[p].base = publication[p].base
            BY <2>1, BranchesStay DEF BranchesStand, Rooted
        <2>2. ASSUME NEW w \in Workers, Save(w), run[w].op = p,
                     publication'[p].base = BaseSha(run[w].row.base, run[w].seen)
              PROVE  publication'[p].base.at = branch'[p].at /\ HasBranch(p)'
            <3>1. /\ HasBranch(p) /\ run[w].seen.at = branch[p].at
                  /\ run[w].row.base # NoSha => run[w].row.base.at = branch[p].at
                BY <2>2 DEF Save, At, RunsStand, Rooted
            <3>2. QED
                BY <2>2, <3>1, BranchesStay DEF BaseSha
        <2>3. QED
            BY <2>1, <2>2, BaseSteps
    <1>4. QED
        BY <1>1, <1>2, <1>3

(* What RunsStand says of a run r, of its sha and its branch.                *)
Stands(r) ==
    /\ r.step # "idle" => Rooted(r.op, r.row)
    /\ r.step = "create" => r.seen.at # 0
    /\ r.step \in {"commit", "save", "keep"} => r.seen.at = branch[r.op].at
    /\ r.step \in {"commit", "save", "keep", "find", "open"} => HasBranch(r.op)
    /\ r.step \in {"check", "merge"} => r.row.base # NoSha /\ r.row.base.ahead = 0

LEMMA StandsStays ==
    ASSUME TypeOK, Busy, BranchesStand, [Next]_vars, NEW w \in Workers, Stands(run[w]),
           run[w].step # "idle", NEW p \in Ops, run[w].op = p
    PROVE  /\ \/ run[w].row.base = NoSha
              \/ run[w].row.base.at = branch'[p].at /\ HasBranch(p)'
           /\ HasBranch(p) => HasBranch(p)' /\ branch'[p].at = branch[p].at
           /\ run[w].step \in {"commit", "save", "keep"} => run[w].seen.at = branch'[p].at
           /\ run[w].step \in {"commit", "save", "keep", "find", "open"} => HasBranch(p)'
    BY BranchesStay DEF Stands, Rooted

LEMMA ProgressStands ==
    ASSUME TypeOK, Busy, BranchesStand, [Next]_vars, NEW w \in Workers, Stands(run[w]),
           Progress(w), run'[w] # IdleRun, NEW p \in Ops, run[w].op = p
    PROVE  Stands(run[w])'
    <1> DEFINE r == run'[w]
    <1>0. /\ run \in [Workers -> Run] /\ run[w] \in Run /\ run[w].row \in PublicationRow
          /\ run[w].step # "idle"
        BY ActiveSteps DEF TypeOK, Run
    <1>1. r.op = p /\ r.step \in Follows(run[w].step)
        BY RunFlow
    <1>2. /\ \/ run[w].row.base = NoSha
             \/ run[w].row.base.at = branch'[p].at /\ HasBranch(p)'
          /\ HasBranch(p) => HasBranch(p)' /\ branch'[p].at = branch[p].at
        BY <1>0, StandsStays
    <1>3. SUFFICES /\ \/ r.row.base = NoSha
                      \/ r.row.base.at = branch'[p].at /\ HasBranch(p)'
                   /\ r.step = "create" => r.seen.at # 0
                   /\ r.step \in {"commit", "save", "keep"} => r.seen.at = branch'[p].at
                   /\ r.step \in {"commit", "save", "keep", "find", "open"} => HasBranch(p)'
                   /\ r.step \in {"check", "merge"} => r.row.base # NoSha /\ r.row.base.ahead = 0
        BY <1>1 DEF Stands, Rooted
    <1>4. CASE Look(w)
        <2>1. /\ r.row = run[w].row
              /\ r.seen = IF HasBranch(p) THEN Tip(p) ELSE MainSha
              /\ r.step = NextAfterLook(run[w].row, p)
            BY <1>0, <1>4 DEF Look, Run
        <2>2. r.step = "create" => r.seen.at # 0
            BY <2>1 DEF NextAfterLook, MainSha, TypeOK
        <2>3. r.step \in {"commit", "save", "keep"} => HasBranch(p) /\ r.seen.at = branch[p].at
            BY <2>1 DEF NextAfterLook, Tip
        <2>4. r.step \in {"create", "commit", "keep"}
            BY <2>1 DEF NextAfterLook
        <2>5. QED
            BY <1>2, <2>1, <2>2, <2>3, <2>4
    <1>5. CASE Create(w)
        <2>1. r.row = run[w].row /\ r.seen = run[w].seen
            BY <1>0, <1>5 DEF Create, Goto, Run
        <2>2. CASE r.step = "block"
            BY <1>2, <2>1, <2>2
        <2>3. CASE r.step # "block"
            <3>1. branch' = [branch EXCEPT ![p] = [at |-> run[w].seen.at, ahead |-> 0,
                                                   exact |-> FALSE]]
                BY <1>0, <1>5, <2>3 DEF Create, Goto, Run
            <3>2. branch'[p].at = run[w].seen.at /\ run[w].seen.at # 0
                BY <1>2, <1>5, <3>1 DEF TypeOK, Create, At, Stands
            <3>3. HasBranch(p)'
                <4>1. NoBranch.at = 0
                    BY DEF NoBranch
                <4>2. QED
                    BY <3>2, <4>1 DEF HasBranch
            <3>4. r.step = "commit"
                BY <1>1, <1>5, <2>3 DEF Create, At, Follows
            <3>5. QED
                BY <1>2, <2>1, <3>2, <3>3, <3>4
        <2>4. QED
            BY <2>2, <2>3
    <1>6. CASE Commit(w)
        <2>1. r.row = run[w].row /\ r.seen = run[w].seen /\ r.step \in {"abandon", "save"}
            BY <1>0, <1>6 DEF Commit, Goto, Run
        <2>2. HasBranch(p) /\ run[w].seen.at = branch[p].at
            BY <1>6 DEF Commit, At, Stands
        <2>3. QED
            BY <1>2, <2>1, <2>2
    <1>7. CASE Save(w)
        <2>1. r.row.base = BaseSha(run[w].row.base, run[w].seen) /\ r.step = "find"
            BY <1>0, <1>7 DEF Save, Run, PublicationRow
        <2>2. HasBranch(p) /\ run[w].seen.at = branch[p].at
            BY <1>7 DEF Save, At, Stands
        <2>3. QED
            BY <1>2, <2>1, <2>2 DEF BaseSha
    <1>8. CASE Keep(w)
        <2>1. r.row.base = run[w].row.base /\ r.step = "find"
            BY <1>0, <1>8 DEF Keep, Run, PublicationRow
        <2>2. HasBranch(p)
            BY <1>8 DEF Keep, At, Stands
        <2>3. QED
            BY <1>2, <2>1, <2>2
    <1>9. CASE Find(w) \/ Open(w)
        <2>1. r.row = run[w].row /\ r.step \in {"open", "note", "block"}
            BY <1>0, <1>9 DEF Find, Open, Goto, Run
        <2>2. HasBranch(p)
            BY <1>9 DEF Find, Open, At, Stands
        <2>3. QED
            BY <1>2, <2>1, <2>2
    <1>10. CASE Note(w)
        <2>1. r.row.base = run[w].row.base
            BY <1>0, <1>10 DEF Note, Goto, Run, PublicationRow
        <2>2. r.step \in {"latest", "verify", "block"}
            BY <1>1, <1>10 DEF Note, At, Follows
        <2>3. QED
            BY <1>2, <2>1, <2>2
    <1>11. CASE Latest(w)
        <2>1. r.row = run[w].row /\ r.step = IF MainSha = run[w].row.base THEN "check" ELSE "abandon"
            BY <1>0, <1>11 DEF Latest, Goto, Run
        <2>2. MainSha.ahead = 0 /\ MainSha # NoSha
            BY DEF MainSha, NoSha, TypeOK
        <2>3. QED
            BY <1>2, <2>1, <2>2
    <1>12. CASE Check(w)
        <2>1. r.row = run[w].row /\ r.step \in {"block", "merge"}
            <3>1. ~RetryLater(w)
                BY <1>0 DEF RetryLater
            <3>2. QED
                BY <1>0, <1>12, <3>1 DEF Check, Goto, Run
        <2>2. run[w].row.base # NoSha /\ run[w].row.base.ahead = 0
            BY <1>12 DEF Check, At, Stands
        <2>3. QED
            BY <1>2, <2>1, <2>2
    <1>13. CASE Merge(w) \/ Verify(w) \/ Withdraw(w) \/ Requeue(w)
        <2>1. r.row = run[w].row
            BY <1>0, <1>13 DEF Merge, Verify, Withdraw, Requeue, Goto, Run
        <2>2. r.step \in {"merged", "abandon", "block", "confirm", "requeue", "stop"}
            BY <1>1, <1>13 DEF Merge, Verify, Withdraw, Requeue, At, Follows
        <2>3. QED
            BY <1>2, <2>1, <2>2
    <1>14. CASE Merged(w) \/ Confirm(w) \/ Abandon(w) \/ Block(w)
        <2>1. r.row.base = run[w].row.base
            BY <1>0, <1>14 DEF Merged, Confirm, Abandon, Block, SetStatus, Run, PublicationRow
        <2>2. r.step \in {"verify", "return", "withdraw", "stop"}
            BY <1>1, <1>14 DEF Merged, Confirm, Abandon, Block, At, Follows
        <2>3. QED
            BY <1>2, <2>1, <2>2
    <1>15. ~Finish(w)
        BY <1>0 DEF Finish
    <1>16. QED
        BY <1>4, <1>5, <1>6, <1>7, <1>8, <1>9, <1>10, <1>11, <1>12, <1>13, <1>14, <1>15
        DEF Progress

LEMMA RunsStandStays ==
    ASSUME TypeOK, Busy, BranchesStand, RunsStand, [Next]_vars
    PROVE  RunsStand'
    <1>1. \A w \in Workers : Stands(run[w])
        BY DEF RunsStand, Stands
    <1>2. SUFFICES ASSUME NEW w \in Workers PROVE Stands(run[w])'
        BY DEF RunsStand, Stands
    <1>3. ASSUME run'[w] = IdleRun PROVE Stands(run[w])'
        BY <1>3 DEF Stands, Rooted, IdleRun, NewRow
    <1>4. CASE run'[w] = run[w]
        <2>1. CASE run[w].step = "idle"
            BY <1>4, <2>1 DEF Stands
        <2>2. CASE run[w].step # "idle"
            <3>1. PICK p \in Ops : run[w].op = p
                BY <2>2 DEF Busy
            <3>2. QED
                BY <1>1, <1>4, <2>2, <3>1, StandsStays DEF Stands, Rooted
        <2>3. QED
            BY <2>1, <2>2
    <1>5. ASSUME NEW p \in Ops, Start(w, p) PROVE Stands(run[w])'
        <2>1. /\ run'[w].op = p /\ run'[w].row = publication[p]
              /\ run'[w].step \in {"look", "return"}
            BY <1>5 DEF Start, TypeOK
        <2>2. UNCHANGED branch
            BY <1>5 DEF Start, github
        <2>3. QED
            BY <2>1, <2>2 DEF Stands, Rooted, HasBranch, BranchesStand
    <1>6. ASSUME Progress(w), run'[w] # IdleRun PROVE Stands(run[w])'
        BY <1>1, <1>6, ActiveSteps, ProgressStands DEF Busy
    <1>7. QED
        BY <1>3, <1>4, <1>5, <1>6, RunArrives

LEMMA StandInit ==
    ASSUME Init
    PROVE  BranchesStand /\ RunsStand
    BY DEF Init, BranchesStand, RunsStand, Rooted, HasBranch, NewRow, IdleRun

(* A run merges only onto the base it recorded: between its own comparison   *)
(* and the merge the default branch may move, but then the branch, which    *)
(* never leaves the commit it was made on, is behind and GitHub refuses.    *)
THEOREM NoStaleMergeHolds == Spec => NoStaleMerge
    <1> DEFINE Inv == TypeOK /\ Busy /\ BranchesStand /\ RunsStand
               Fresh == \A w \in Workers :
                          At(w, "merge") /\ run'[w].step = "merged" => run[w].row.base = MainSha
    <1>1. Init => Inv
        BY InitType, StandInit
    <1>2. Inv /\ [Next]_vars => Inv'
        BY NextType, BranchesStandStays, RunsStandStays
    <1>3. Inv /\ [Next]_vars => Fresh
        <2> SUFFICES ASSUME Inv, [Next]_vars, NEW w \in Workers, run[w].step = "merge",
                            run'[w].step = "merged"
                     PROVE  run[w].row.base = MainSha
            BY DEF At
        <2>1. PICK p \in Ops : run[w].op = p
            BY DEF Busy
        <2>2. Merge(w)
            <3>1. run'[w] # IdleRun /\ run'[w] # run[w] /\ run'[w].step \notin {"look", "return"}
                BY DEF IdleRun
            <3>2. Progress(w)
                BY <3>1, RunArrives
            <3>3. QED
                BY <3>2 DEF Progress, Look, Create, Commit, Save, Keep, Find, Open, Note, Latest,
                            Check, Merged, Verify, Confirm, Abandon, Withdraw, Requeue, Block,
                            Finish, At
        <2>3. Mergeable(p, run[w].row.head)
            <3>1. Goto(w, NextAfterRefusal(p, run[w].row.head)) =>
                    run'[w].step = NextAfterRefusal(p, run[w].row.head)
                BY DEF Goto, TypeOK, Run
            <3>2. NextAfterRefusal(p, run[w].row.head) # "merged"
                BY DEF NextAfterRefusal
            <3>3. QED
                BY <2>1, <2>2, <3>1, <3>2 DEF Merge
        <2>4. branch[p].at = Len(main) + 1
            BY <2>3 DEF Mergeable, UpToDate, MainSha
        <2>5. /\ run[w].row.base \in Sha /\ run[w].row.base.ahead = 0
              /\ run[w].row.base.at = branch[p].at
            BY <2>1 DEF TypeOK, Run, PublicationRow, RunsStand, Rooted
        <2>6. QED
            BY <2>4, <2>5 DEF Sha, MainSha
    <1>4. QED
        BY <1>1, <1>2, <1>3, PTL DEF Spec, NoStaleMerge

-----------------------------------------------------------------------------
(* Abandoned publications.                                                  *)

(* Only a run that then has its reservations to withdraw abandons.           *)
LEMMA AbandoningSteps ==
    ASSUME TypeOK, Busy, [Next]_vars, NEW p \in Ops,
           publication[p].status # "abandoned", publication'[p].status = "abandoned"
    PROVE  \E w \in Workers : run'[w].op = p /\ run'[w].step = "withdraw"
    <1>0. publication \in [Ops -> PublicationRow] /\ run \in [Workers -> Run]
        BY DEF TypeOK
    <1> USE DEF PublicationRow
    <1>1. ASSUME NEW w \in Workers, Progress(w)
          PROVE  run'[w].op = p /\ run'[w].step = "withdraw"
        <2>1. \A t, s : SetStatus(w, t, s) =>
                  /\ t = "abandoned" /\ run[w].op = p
                  /\ run'[w].op = run[w].op /\ run'[w].step = s
            BY <1>0 DEF SetStatus, Run
        <2>2. ~Merged(w) /\ ~Confirm(w) /\ ~Block(w)
            BY <2>1 DEF Merged, Confirm, Block
        <2>3. ~Save(w) /\ ~Keep(w) /\ ~Note(w)
            BY <1>0 DEF Save, Keep, Note
        <2>4. ~Check(w)
            BY <1>0 DEF Check
        <2>5. Abandon(w)
            BY <1>1, <2>2, <2>3, <2>4
            DEF Progress, Look, Create, Commit, Find, Open, Latest, Merge, Verify, Withdraw,
                Requeue, Finish, tables
        <2>6. QED
            BY <2>1, <2>5 DEF Abandon
    <1>2. \A w \in Workers : ~Unavailable(w) /\ ~Crash(w) /\ \A q \in Ops : ~Start(w, q)
        BY DEF Unavailable, Crash, Start
    <1>3. ASSUME NEW q \in Ops, Outside(q) PROVE FALSE
        <2>1. ~RetryUnblocks(q)
            <3>1. retry[q].status # "abandoned"
                BY DEF TypeOK, Retry, NoRetry
            <3>2. QED
                BY <1>0, <3>1 DEF RetryUnblocks
        <2>2. QED
            BY <1>3, <2>1 DEF Outside, RetryReads, RetryOpens, EvaluatedAgain,
                              CommittedByAnother, CheckCompletes, MaintainerMerges, MaintainerCloses,
                              MaintainerReopens, MaintainerPushes, tables
    <1>4. ~OtherWrites /\ ~UNCHANGED vars
        BY OtherWritesShape DEF vars, tables
    <1>5. QED
        BY <1>1, <1>2, <1>3, <1>4 DEF Next, Starts

(* What was queued again, or lost, stays so.                                *)
LEMMA AttendedGrows ==
    ASSUME [Next]_vars
    PROVE  requeued \subseteq requeued' /\ lost \subseteq lost'
    <1>1. ASSUME NEW w \in Workers, Progress(w)
          PROVE  requeued \subseteq requeued' /\ UNCHANGED lost
        <2>1. CASE Requeue(w)
            BY <2>1 DEF Requeue, history
        <2>2. CASE ~Requeue(w)
            BY <1>1, <2>2
            DEF Progress, Look, Create, Commit, Save, Keep, Find, Open, Note, Latest, Check, Merge,
                Merged, Verify, Confirm, Abandon, Withdraw, Block, Finish, tables, history
        <2>3. QED
            BY <2>1, <2>2
    <1>2. ASSUME NEW w \in Workers, Unavailable(w) \/ Crash(w) \/ \E p \in Ops : Start(w, p)
          PROVE  UNCHANGED requeued /\ lost \subseteq lost'
        BY <1>2 DEF Unavailable, Crash, Start, history
    <1>3. ASSUME NEW p \in Ops, Outside(p) PROVE UNCHANGED <<requeued, lost>>
        BY <1>3 DEF Outside, RetryReads, RetryOpens, RetryUnblocks, EvaluatedAgain, CommittedByAnother,
                    CheckCompletes, MaintainerMerges,
                    MaintainerCloses, MaintainerReopens, MaintainerPushes, tables, history
    <1>4. CASE OtherWrites \/ UNCHANGED vars
        BY <1>4, OtherWritesShape DEF vars, tables, history
    <1>5. QED
        BY <1>1, <1>2, <1>3, <1>4 DEF Next, Starts

LEMMA AttendedStays ==
    ASSUME TypeOK, Busy, AbandonedIsAttended, [Next]_vars
    PROVE  AbandonedIsAttended'
    <1> SUFFICES ASSUME NEW p \in Ops, publication'[p].status = "abandoned"
                 PROVE  \/ p \in requeued' \cup lost'
                        \/ \E w \in Workers :
                              run'[w].op = p /\ run'[w].step \in {"withdraw", "requeue"}
        BY DEF AbandonedIsAttended
    <1>1. CASE publication[p].status # "abandoned"
        BY <1>1, AbandoningSteps
    <1>2. CASE p \in requeued \cup lost
        BY <1>2, AttendedGrows
    <1>3. CASE publication[p].status = "abandoned" /\ p \notin requeued \cup lost
        <2>1. PICK w \in Workers : run[w].op = p /\ run[w].step \in {"withdraw", "requeue"}
            BY <1>3 DEF AbandonedIsAttended
        <2>2. run[w].step \notin CallSteps /\ run[w] # IdleRun
            BY <2>1 DEF CallSteps, IdleRun
        <2>3. CASE run'[w] = run[w]
            BY <2>1, <2>3
        <2>4. CASE Crash(w)
            BY <2>1, <2>4 DEF Crash
        <2>5. ~Unavailable(w) /\ \A q \in Ops : ~Start(w, q)
            BY <2>2 DEF Unavailable, Start
        <2>6. CASE Progress(w)
            <3>1. Withdraw(w) \/ Requeue(w)
                BY <2>1, <2>6 DEF Progress, Look, Create, Commit, Save, Keep, Find, Open, Note,
                                  Latest, Check, Merge, Merged, Verify, Confirm, Abandon,
                                  Block, Finish, At
            <3>2. CASE Withdraw(w)
                <4>1. run'[w].op = p /\ run'[w].step = "requeue"
                    BY <2>1, <3>2 DEF Withdraw, AfterWithdraw, Goto, TypeOK, Run
                <4>2. QED
                    BY <4>1
            <3>3. CASE Requeue(w)
                BY <2>1, <3>3 DEF Requeue
            <3>4. QED
                BY <3>1, <3>2, <3>3
        <2>7. QED
            BY <2>3, <2>4, <2>5, <2>6, OwnSteps
    <1>4. QED
        BY <1>1, <1>2, <1>3

(* When no run of an abandoned publication is left, its evaluation has been  *)
(* queued again, or the run that abandoned it has died before it could:     *)
(* between the two statements there is always a run that will.              *)
THEOREM AbandonedIsRequeuedHolds == Spec => []AbandonedIsRequeued
    <1> DEFINE Inv == TypeOK /\ Busy /\ AbandonedIsAttended
    <1>1. Init => Inv
        <2>1. Init => AbandonedIsAttended
            BY DEF Init, AbandonedIsAttended, NewRow
        <2>2. QED
            BY <2>1, InitType
    <1>2. Inv /\ [Next]_vars => Inv'
        BY NextType, AttendedStays
    <1>3. Inv => AbandonedIsRequeued
        BY DEF AbandonedIsAttended, AbandonedIsRequeued
    <1>4. QED
        BY <1>1, <1>2, <1>3, PTL DEF Spec
=============================================================================
