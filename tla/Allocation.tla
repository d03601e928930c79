----------------------------- MODULE Allocation -----------------------------
(***************************************************************************)
(* Identifier allocation in one namespace.  The portal reserves numbers in  *)
(* its own table (registry_bridge/allocation.py, reserve_identifier), above *)
(* both that table and a pinned commit of the registry                      *)
(* (validators/allocation.py, next_free).  Evaluations carry the ledger     *)
(* entries of their submission to the default branch                        *)
(* (registry_bridge/evaluation.py, evaluate_worker.py), where they meet     *)
(* those of contributors who reserve in clones of their own                 *)
(* (validators/reserve.py).                                                 *)
(*                                                                         *)
(* A key is the operation key of an evaluation attempt, which reserves its  *)
(* receipt number; attempts of one submission share its allocations.  What  *)
(* already uses a number is abstracted to the ledger on the default branch: *)
(* each number used there has an entry.                                     *)
(***************************************************************************)
EXTENDS Naturals, FiniteSets

CONSTANTS
    Keys,          \* operation keys of the portal
    Submissions,   \* submissions
    SubmissionOf,  \* the submission of each key
    Contributors,  \* direct contributors, one operation each
    Nobody,        \* holder of an unused number
    Limit,         \* Namespace.limit
    Margin,        \* EXHAUSTION_MARGIN
    Top            \* bound: highest number of the instance

ASSUME SubmissionAssumption == SubmissionOf \in [Keys -> Submissions]
ASSUME HoldersAssumption ==
    Keys \cap Contributors = {} /\ Nobody \notin Keys \cup Contributors
ASSUME LimitAssumption ==
    Limit \in Nat /\ Margin \in Nat /\ Top \in Nat /\ Margin <= Limit

VARIABLES
    ledger,       \* the reservation ledger on the default branch
    allocation,   \* allocation[k]: the Allocation row of k
    attempt,      \* attempt[k]: where the evaluation and publication of k are
    contributor   \* contributor[c]: the number c reserved in its clone, or 0

vars == <<ledger, allocation, attempt, contributor>>

-----------------------------------------------------------------------------
Values == 1..Top

Holders == Keys \cup Contributors

Entry == [op: Holders \cup {Nobody},
          state: {"absent", "reserved", "published", "withdrawn"}]

NoEntry == [op |-> Nobody, state |-> "absent"]

Ledger == [Values -> Entry]

EmptyLedger == [v \in Values |-> NoEntry]

AllocationStates == {"none", "local", "ledger_queued", "ledger_committed", "withdrawn"}

Row == [value: 0..Top, state: AllocationStates]

Phases == {"idle", "pinned", "reserved", "prepared", "queued", "merged", "verified",
           "blocked", "abandoned"}

(* base: the pinned commit; files: the ledger files of the candidate that   *)
(* differ from it; carried: the keys whose allocations the attempt read.    *)
Attempt == [phase: Phases, base: Ledger, files: Ledger, carried: SUBSET Keys]

NewAttempt == [phase |-> "idle", base |-> EmptyLedger, files |-> EmptyLedger,
               carried |-> {}]

Init ==
    /\ ledger = EmptyLedger
    /\ allocation = [k \in Keys |-> [value |-> 0, state |-> "none"]]
    /\ attempt = [k \in Keys |-> NewAttempt]
    /\ contributor = [c \in Contributors |-> 0]

-----------------------------------------------------------------------------
(* The lowest number above every number of a set.                           *)
NextAbove(S) ==
    CHOOSE n \in 1..(Top + 1) : (\A m \in S : m < n) /\ (n = 1 \/ n - 1 \in S)

Used(l) == {v \in Values : l[v] # NoEntry}

(* next_free(): raises NamespaceExhausted within the margin of the limit.   *)
Exhausted_Never(l) == FALSE

Exhausted(l) == NextAbove(Used(l)) > Limit - Margin

NextFree(l) == NextAbove(Used(l))

HighestLocal_SkipsWithdrawn ==
    {allocation[k].value : k \in {j \in Keys : allocation[j].state # "withdrawn"}}

(* Every number the portal ever issued counts, withdrawn ones too.          *)
HighestLocal == {allocation[k].value : k \in Keys}

Larger(m, n) == IF m > n THEN m ELSE n

-----------------------------------------------------------------------------
(* An evaluation starts, or starts over after a crash, and pins the default *)
(* branch it has fetched.                                                   *)
Pin(k) ==
    /\ attempt[k].phase \in {"idle", "pinned", "reserved", "prepared"}
    /\ attempt' = [attempt EXCEPT ![k] = [NewAttempt EXCEPT !.phase = "pinned",
                                                            !.base = ledger]]
    /\ UNCHANGED <<ledger, allocation, contributor>>

Issued(k) == allocation[k].value # 0

(* reserve_identifier(), one transaction under the namespace lock.          *)
Reserve(k) ==
    LET number == Larger(NextFree(attempt[k].base), NextAbove(HighestLocal))
    IN  /\ attempt[k].phase = "pinned"
        /\ \/ Issued(k) /\ UNCHANGED allocation
           \/ /\ ~Issued(k)
              /\ ~Exhausted(attempt[k].base)
              /\ number <= Top
              /\ allocation' = [allocation EXCEPT ![k] =
                                  [value |-> number, state |-> "local"]]
        /\ attempt' = [attempt EXCEPT ![k].phase = "reserved"]
        /\ UNCHANGED <<ledger, contributor>>

LedgerEntry_RawState(j) == [op |-> j, state |-> allocation[j].state]

(* The allocations of k's submission, and the ledger entry of each: withdrawn *)
(* or reserved.                                                             *)
AllocationsOf(k) ==
    {j \in Keys : SubmissionOf[j] = SubmissionOf[k] /\ allocation[j].value # 0}

LedgerEntry(j) ==
    [op |-> j,
     state |-> IF allocation[j].state = "withdrawn" THEN "withdrawn" ELSE "reserved"]

(* _publish_ledger_states(): the attempt's own receipt now exists.          *)
PublishedEntry(k, v, e) ==
    IF v = allocation[k].value /\ e.state = "reserved"
    THEN [e EXCEPT !.state = "published"]
    ELSE e

(* The candidate's entry of v: a ledger file the base already has is kept.  *)
CandidateEntry(k, v) ==
    LET own == {j \in AllocationsOf(k) : allocation[j].value = v}
    IN  PublishedEntry(k, v,
            IF attempt[k].base[v] = NoEntry /\ own # {}
            THEN LedgerEntry(CHOOSE j \in own : TRUE)
            ELSE attempt[k].base[v])

(* The candidate is built in an isolated checkout; what differs from its     *)
(* base is what will be published.                                          *)
Prepare(k) ==
    /\ attempt[k].phase = "reserved"
    /\ attempt' = [attempt EXCEPT
         ![k].phase = "prepared",
         ![k].carried = AllocationsOf(k),
         ![k].files = [v \in Values |-> IF CandidateEntry(k, v) = attempt[k].base[v]
                                        THEN NoEntry
                                        ELSE CandidateEntry(k, v)]]
    /\ UNCHANGED <<ledger, allocation, contributor>>

(* The transaction that records the attempt and queues its publication:      *)
(* every allocation it carries becomes LEDGER_QUEUED, whatever it was.      *)
Queue(k) ==
    /\ attempt[k].phase = "prepared"
    /\ allocation' = [j \in Keys |-> IF j \in attempt[k].carried
                                     THEN [allocation[j] EXCEPT !.state = "ledger_queued"]
                                     ELSE allocation[j]]
    /\ attempt' = [attempt EXCEPT ![k].phase = "queued"]
    /\ UNCHANGED <<ledger, contributor>>

(* The publication is merged: its files stand over those of the default     *)
(* branch.                                                                  *)
Merge(k) ==
    /\ attempt[k].phase = "queued"
    /\ ledger' = [v \in Values |-> IF attempt[k].files[v] # NoEntry
                                   THEN attempt[k].files[v]
                                   ELSE ledger[v]]
    /\ attempt' = [attempt EXCEPT ![k].phase = "merged"]
    /\ UNCHANGED <<allocation, contributor>>

ReadsBack(k) ==
    \A v \in Values : attempt[k].files[v] # NoEntry => ledger[v] = attempt[k].files[v]

Committed_WholeSubmission(k) == AllocationsOf(k)

Committed(k) == attempt[k].carried

(* _verify() and mark_committed().                                          *)
Verify(k) ==
    /\ attempt[k].phase = "merged"
    /\ IF ReadsBack(k)
       THEN /\ allocation' =
                 [j \in Keys |-> IF j \in Committed(k) /\ allocation[j].state # "withdrawn"
                                 THEN [allocation[j] EXCEPT !.state = "ledger_committed"]
                                 ELSE allocation[j]]
            /\ attempt' = [attempt EXCEPT ![k].phase = "verified"]
       ELSE /\ attempt' = [attempt EXCEPT ![k].phase = "blocked"]
            /\ UNCHANGED allocation
    /\ UNCHANGED <<ledger, contributor>>

(* _base_moved(): withdraw_value().  It may come after the merge: a          *)
(* maintainer's merge of this pull request moves the base too.              *)
Abandon(k) ==
    /\ attempt[k].phase \in {"queued", "merged"}
    /\ allocation' = [allocation EXCEPT ![k].state =
                        IF @ = "ledger_committed" THEN @ ELSE "withdrawn"]
    /\ attempt' = [attempt EXCEPT ![k].phase = "abandoned"]
    /\ UNCHANGED <<ledger, contributor>>

-----------------------------------------------------------------------------
(* A contributor reserves in an up-to-date clone, and again if the number    *)
(* was taken before the pull request landed; a ledger file that exists on    *)
(* the default branch conflicts with theirs.                                *)
ContributorReserves(c) ==
    /\ contributor[c] # 0 => /\ ledger[contributor[c]] # NoEntry
                             /\ ledger[contributor[c]].op # c
    /\ ~Exhausted(ledger)
    /\ NextFree(ledger) <= Top
    /\ contributor' = [contributor EXCEPT ![c] = NextFree(ledger)]
    /\ UNCHANGED <<ledger, allocation, attempt>>

ContributorLands(c) ==
    /\ contributor[c] # 0
    /\ ledger[contributor[c]] = NoEntry
    /\ ledger' = [ledger EXCEPT ![contributor[c]] = [op |-> c, state |-> "reserved"]]
    /\ UNCHANGED <<allocation, attempt, contributor>>

-----------------------------------------------------------------------------
Portal(k) ==
    \/ Pin(k) \/ Reserve(k) \/ Prepare(k) \/ Queue(k)
    \/ Merge(k) \/ Verify(k) \/ Abandon(k)

Direct(c) == ContributorReserves(c) \/ ContributorLands(c)

Next == (\E k \in Keys : Portal(k)) \/ (\E c \in Contributors : Direct(c))

Spec == Init /\ [][Next]_vars

-----------------------------------------------------------------------------
TypeOK ==
    /\ ledger \in Ledger
    /\ allocation \in [Keys -> Row]
    /\ attempt \in [Keys -> Attempt]
    /\ contributor \in [Contributors -> 0..Top]

(* No number is issued to two operations of the portal, withdrawn or not,    *)
(* however old the commits they pinned: the unique constraint of the table  *)
(* never fires, and no number is recycled (allocation.py:38-61).            *)
DistinctValues ==
    \A j, k \in Keys :
        allocation[j].value = allocation[k].value /\ allocation[j].value # 0 => j = k

(* An allocation counted as committed has its entry on the default branch,   *)
(* under its own operation key or under that of a contributor who took the  *)
(* number, never under another key of the portal.                           *)
CommittedIsOnLedger ==
    \A k \in Keys :
        allocation[k].state = "ledger_committed"
            => ledger[allocation[k].value].op \in {k} \cup Contributors

(* next_free() checks the exhaustion margin against the commit an attempt    *)
(* pinned only (allocation.py:177), and the portal counts on from its own   *)
(* numbers: a number is issued past the margin by at most the number of     *)
(* those which that commit does not show yet.                               *)
Unseen(k) ==
    {j \in Keys : allocation[j].value # 0 /\ attempt[k].base[allocation[j].value] = NoEntry}

MarginOverrun ==
    [][\A k \in Keys :
         allocation[k].value = 0 /\ allocation'[k].value # 0
             => allocation'[k].value <= Limit - Margin + Cardinality(Unseen(k))]_vars

(* Whatever commits its evaluations pinned and however they ended, the       *)
(* portal issues numbers as IssuedNumbers says: each once, above all that   *)
(* it issued before, to one operation for good (allocation.py:38-61).       *)
IssuedTo == [k \in Keys |-> allocation[k].value]

Issuing == INSTANCE IssuedNumbers WITH
             Operations <- Keys, Numbers <- Values, issued <- IssuedTo

IssuesOnce == Issuing!Spec

=============================================================================
