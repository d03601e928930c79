----------------------------- MODULE Projection -----------------------------
(***************************************************************************)
(* The public catalog's projection of the committed registry                *)
(* (portal/catalog/projection.py): a refresh job, or an operator's          *)
(* reindex_registry, reads one commit of the default branch through the     *)
(* portal's clone and makes its rows the current ones in one transaction.   *)
(*                                                                         *)
(* A transaction sees what was committed when its statement began: two      *)
(* refreshes may each miss the other's row, and leave two current ones.     *)
(***************************************************************************)
EXTENDS Naturals, Sequences, FiniteSets, FiniteSetsExt

CONSTANTS
    Readers,    \* processes that refresh
    MaxReads,   \* bound: no refresh begins after this many were stamped
    MaxFailures \* bound: crashes, failed fetches, exhausted jobs

ASSUME ReadersAssumption == MaxReads \in Nat /\ MaxFailures \in Nat

VARIABLES
    main,       \* main[k]: the authors registered as of commit k
    fetched,    \* the commit the portal's clone has fetched
    snapshot,   \* snapshot[k]: its ProjectionSnapshot row
    refresh,    \* refresh[k]: the job that commit k's verification queued
    reader,     \* reader[w]: the refresh a process is in
    stamps,     \* refreshes stamped: the clock of refreshed_at
    disordered, \* an older commit was stamped, or cleared the rows, after a newer one
    missed,     \* a fetch failed, and the clone's commit was read instead
    failures

registry == <<main, fetched>>
projected == <<snapshot, stamps, disordered, missed>>

NoRead == [step |-> "idle", sha |-> 0, time |-> 0, job |-> 0, old |-> {}]

Row == [current: BOOLEAN, time: Nat]

ProjectionInit(authors) ==
    /\ main = <<authors>> /\ fetched = 1
    /\ snapshot = <<[current |-> TRUE, time |-> 0]>>
    /\ refresh = << "none" >>
    /\ reader = [w \in Readers |-> NoRead] /\ stamps = 0
    /\ disordered = FALSE /\ missed = FALSE /\ failures = 0

ProjectionTypeOK ==
    /\ DOMAIN snapshot \subseteq DOMAIN main /\ DOMAIN refresh = DOMAIN main
    /\ fetched \in DOMAIN main
    /\ \A k \in DOMAIN snapshot : snapshot[k] \in Row
    /\ \A k \in DOMAIN refresh : refresh[k] \in {"none", "queued", "succeeded", "dead"}
    /\ \A w \in Readers : reader[w].step \in {"idle", "read", "stamped", "cleared"}
    /\ failures \in 0..MaxFailures

Fail == failures < MaxFailures /\ failures' = failures + 1

(* The default branch advances, and a refresh of its new commit is queued or *)
(* not yet.                                                                 *)
Advance(authors, job) ==
    /\ main' = Append(main, authors)
    /\ refresh' = Append(refresh, job)

-----------------------------------------------------------------------------
(* refresh_projection: the commit's checkout, fetched first when the clone   *)
(* does not have it; a fetch that fails is not noticed.                     *)
Read(w, sha, head, job) ==
    /\ reader[w] = NoRead /\ stamps < MaxReads
    /\ reader' = [reader EXCEPT ![w] = [step |-> "read", sha |-> sha, time |-> 0,
                                        job |-> job, old |-> {}]]
    /\ fetched' = head
    /\ UNCHANGED <<stamps, disordered>>

Refresh(w, k) ==
    /\ refresh[k] = "queued" /\ \A v \in Readers : reader[v].job # k
    /\ \/ Read(w, k, IF k <= fetched THEN fetched ELSE Len(main), k) /\ UNCHANGED <<missed, failures>>
       \/ k > fetched /\ Read(w, fetched, fetched, k) /\ missed' = TRUE /\ Fail
    /\ UNCHANGED <<main, snapshot, refresh>>

Reindex(w) ==
    /\ Read(w, Len(main), Len(main), 0)
    /\ UNCHANGED <<main, snapshot, refresh, missed, failures>>

(* Everything is rebuilt from the checkout; then refreshed_at is taken.      *)
Stamped(v) == reader[v].step \in {"stamped", "cleared"}

Stamp(w) ==
    /\ reader[w].step = "read"
    /\ reader' = [reader EXCEPT ![w].step = "stamped", ![w].time = stamps + 1]
    /\ stamps' = stamps + 1
    /\ disordered' = (disordered \/ (\E k \in DOMAIN snapshot : k > reader[w].sha)
                                 \/ (\E v \in Readers : Stamped(v) /\ reader[v].sha > reader[w].sha))
    /\ UNCHANGED <<registry, snapshot, refresh, missed, failures>>

(* The transaction's first statements: what it takes for current.            *)
Clear(w) ==
    /\ reader[w].step = "stamped"
    /\ reader' = [reader EXCEPT ![w].step = "cleared",
                                ![w].old = {k \in DOMAIN snapshot : snapshot[k].current}]
    /\ disordered' = (disordered \/ \E k \in DOMAIN snapshot : k > reader[w].sha)
    /\ UNCHANGED <<registry, snapshot, stamps, missed, refresh, failures>>

(* ... and its last one, with the commit; then the job is recorded.          *)
Finished(job) == IF job = 0 THEN refresh ELSE [refresh EXCEPT ![job] = "succeeded"]

Write(w) ==
    LET r == reader[w]
    IN  /\ r.step = "cleared"
        /\ snapshot' = [k \in DOMAIN snapshot \cup {r.sha} |->
                          IF k = r.sha THEN [current |-> TRUE, time |-> r.time]
                          ELSE IF k \in r.old THEN [snapshot[k] EXCEPT !.current = FALSE]
                          ELSE snapshot[k]]
        /\ refresh' = Finished(r.job)
        /\ reader' = [reader EXCEPT ![w] = NoRead]
        /\ UNCHANGED <<registry, stamps, disordered, missed, failures>>

(* The process dies before it commits; its job runs again or is exhausted.   *)
Interrupted(w) ==
    /\ reader[w] # NoRead /\ Fail
    /\ reader' = [reader EXCEPT ![w] = NoRead]
    /\ \/ refresh' = refresh
       \/ reader[w].job # 0 /\ refresh' = [refresh EXCEPT ![reader[w].job] = "dead"]
    /\ UNCHANGED <<registry, projected>>

ProjectionNext ==
    \E w \in Readers :
        \/ \E k \in DOMAIN refresh : Refresh(w, k)
        \/ Reindex(w)
        \/ Stamp(w)
        \/ Clear(w)
        \/ Write(w)
        \/ Interrupted(w)

(* current_projection: of the rows marked current the one stamped last.      *)
Shown_First ==
    LET current == {k \in DOMAIN snapshot : snapshot[k].current}
    IN  CHOOSE k \in current : \A j \in current : snapshot[j].time >= snapshot[k].time

Shown ==
    LET current == {k \in DOMAIN snapshot : snapshot[k].current}
    IN  CHOOSE k \in current : \A j \in current : snapshot[j].time <= snapshot[k].time

=============================================================================
