-------------------------- MODULE JobOutboxProofs --------------------------
(***************************************************************************)
(* Theorems about JobOutbox, for any set of jobs and workers, any retry     *)
(* budget and any number of disturbances.                                   *)
(***************************************************************************)
EXTENDS JobOutbox, FiniteSetTheorems, TLAPS

(* The shape of a row after each of the writes the code makes to it.        *)
LEMMA RowTypes ==
    ASSUME NEW r \in Row, NEW n \in Nat
    PROVE  /\ Stamped(r) \in Row
           /\ QueuedRow(r) \in Row
           /\ RevivedRow(r) \in Row
           /\ LeasedRow(r) \in Row
           /\ EndedRow(r, "succeeded") \in Row
           /\ EndedRow(r, "dead") \in Row
           /\ FailedRow(r, n) \in Row
           /\ ReclaimedRow(r) \in Row
           /\ RequeuedRow(r) \in Row
    <1> USE DEF Row, States, LeaseStates
    <1>1. \A x \in Row : Stamped(x) \in Row
        BY DEF Stamped
    <1>2. QueuedRow(r) \in Row
        BY DEF QueuedRow
    <1>3. RevivedRow(r) \in Row
        BY DEF RevivedRow
    <1>4. LeasedRow(r) \in Row
        <2>1. r.attempts + 1 \in Nat
            OBVIOUS
        <2>2. \A k \in Nat : [r EXCEPT !.state = "leased", !.attempts = k,
                                      !.lease = "live"] \in Row
            OBVIOUS
        <2>3. QED
            BY <2>1, <2>2 DEF LeasedRow
    <1>5. /\ EndedRow(r, "succeeded") \in Row
          /\ EndedRow(r, "dead") \in Row
          /\ EndedRow(r, "failed") \in Row
        BY DEF EndedRow
    <1>6. FailedRow(r, n) \in Row
        <2>1. \A x \in Row : [x EXCEPT !.due = FALSE, !.dispatched = "null"] \in Row
            OBVIOUS
        <2>2. [EndedRow(r, "failed") EXCEPT !.due = FALSE, !.dispatched = "null"] \in Row
            BY <1>5, <2>1, Zenon
        <2>3. CASE n >= MaxAttempts
            BY <1>5, <2>3, Zenon DEF FailedRow
        <2>4. CASE ~(n >= MaxAttempts)
            BY <2>2, <2>4, Zenon DEF FailedRow
        <2>5. QED
            BY <2>3, <2>4
    <1>7. ReclaimedRow(r) \in Row
        BY <1>5 DEF ReclaimedRow
    <1>8. RequeuedRow(r) \in Row
        BY DEF RequeuedRow
    <1>9. QED
        BY <1>1, <1>2, <1>3, <1>4, <1>5, <1>6, <1>7, <1>8

LEMMA RevokedType ==
    ASSUME TypeOK, NEW j
    PROVE  Revoked(j) \in [Workers -> Slot]
    BY DEF TypeOK, Revoked, Slot

LEMMA DisturbType ==
    ASSUME TypeOK, Disturb
    PROVE  disturbances' \in 0..MaxDisturbances
    BY DisturbancesAssumption DEF TypeOK, Disturb

(* Saving a well-formed row and dispatching it keeps the types of the row   *)
(* table, the broker and the disturbance count.                             *)
LEMMA SaveAndDispatchType ==
    ASSUME TypeOK, NEW j \in Jobs, NEW r \in Row, NEW o, NEW free \in BOOLEAN,
           SaveAndDispatch(j, r, o, free)
    PROVE  /\ row' \in [Jobs -> Row]
           /\ broker' \subseteq Jobs
           /\ disturbances' \in 0..MaxDisturbances
    <1>1. Stamped(r) \in Row
        BY RowTypes, 0 \in Nat
    <1>2. row' \in [Jobs -> Row]
        BY <1>1 DEF SaveAndDispatch, TypeOK
    <1>3. broker' \subseteq Jobs
        BY DEF SaveAndDispatch, TypeOK
    <1>4. disturbances' \in 0..MaxDisturbances
        BY DisturbType DEF SaveAndDispatch, TypeOK
    <1>5. QED
        BY <1>2, <1>3, <1>4

(* A handler's ending keeps every type when the row it writes is well       *)
(* formed.                                                                  *)
LEMMA EndType ==
    ASSUME TypeOK, NEW w \in Workers, worker[w].job \in Jobs, NEW r \in Row,
           End(w, r)
    PROVE  /\ row' \in [Jobs -> Row]
           /\ worker' \in [Workers -> Slot]
           /\ UNCHANGED <<broker, requeuing, sweep, disturbances>>
    <1>1. row' \in [Jobs -> Row]
        BY DEF End, TypeOK
    <1>2. IdleSlot \in Slot
        BY DEF IdleSlot, Slot
    <1>3. worker' \in [Workers -> Slot]
        BY <1>2, RevokedType DEF End
    <1>4. QED
        BY <1>1, <1>3 DEF End

LEMMA WorkerStepType ==
    ASSUME TypeOK, NEW w \in Workers, WorkerStep(w)
    PROVE  TypeOK'
    <1> USE DEF TypeOK
    <1>1. \A v \in Workers : worker[v].job # NoJob => worker[v].job \in Jobs
        BY DEF Slot
    <1>2. ASSUME NEW j \in Jobs, Lease(w, j) PROVE TypeOK'
        <2>1. row[j] \in Row /\ row[j].attempts \in Nat
            BY DEF Row
        <2>2. [job |-> j, attempt |-> row[j].attempts + 1, held |-> TRUE] \in Slot
            BY <2>1 DEF Slot
        <2>3. LeasedRow(row[j]) \in Row
            BY <2>1, RowTypes, 0 \in Nat
        <2>4. QED
            BY <1>2, <2>2, <2>3 DEF Lease
    <1>3. ASSUME NEW j \in Jobs, Refuse(w, j) PROVE TypeOK'
        BY <1>3 DEF Refuse
    <1>4. CASE Succeed(w)
        <2>1. EndedRow(row[worker[w].job], "succeeded") \in Row
            BY <1>1, <1>4, RowTypes, 0 \in Nat DEF Succeed
        <2>2. QED
            BY <1>1, <1>4, <2>1, EndType DEF Succeed
    <1>5. CASE Stop(w)
        <2>1. EndedRow(row[worker[w].job], "dead") \in Row
            BY <1>1, <1>5, RowTypes, 0 \in Nat DEF Stop
        <2>2. QED
            BY <1>1, <1>5, <2>1, EndType DEF Stop
    <1>6. CASE Fail(w)
        <2>1. worker[w].attempt \in Nat
            BY DEF Slot
        <2>2. FailedRow(row[worker[w].job], worker[w].attempt) \in Row
            BY <1>1, <1>6, <2>1, RowTypes DEF Fail
        <2>3. QED
            BY <1>1, <1>6, <2>2, EndType DEF Fail
    <1>7. CASE Crash(w)
        <2>1. IdleSlot \in Slot
            BY DEF IdleSlot, Slot
        <2>2. QED
            BY <1>1, <1>7, <2>1, DisturbType DEF Crash
    <1>8. QED
        BY <1>2, <1>3, <1>4, <1>5, <1>6, <1>7 DEF WorkerStep

LEMMA SweepType ==
    ASSUME TypeOK, Sweep
    PROVE  TypeOK'
    <1> USE DEF TypeOK
    <1>1. IdleSweep \in [phase: SweepPhases, todo: SUBSET Jobs, at: Jobs \cup {NoJob}]
        BY DEF IdleSweep, SweepPhases
    <1>2. ASSUME NEW j \in Jobs, NEW o \in DispatchOutcomes, NextRow(j, o)
          PROVE  sweep' \in [phase: SweepPhases, todo: SUBSET Jobs, at: Jobs \cup {NoJob}]
        BY <1>1, <1>2 DEF NextRow
    <1>3. CASE SweepDue
        BY <1>3 DEF SweepDue, SweepPhases, DueRows, IdleSweep
    <1>4. CASE SweepExpired
        BY <1>4 DEF SweepExpired, SweepPhases, ExpiredRows, IdleSweep
    <1>5. CASE SweepPublications
        <2>1. PICK stale \in SUBSET (PublishJobs \ settled) :
                sweep' = [phase |-> "publications", todo |-> stale, at |-> NoJob]
            BY <1>5 DEF SweepPublications
        <2>2. stale \subseteq Jobs
            BY <2>1, PublishJobsAssumption
        <2>3. sweep' \in [phase: SweepPhases, todo: SUBSET Jobs, at: Jobs \cup {NoJob}]
            BY <2>1, <2>2 DEF SweepPhases, IdleSweep
        <2>4. QED
            BY <1>5, <2>3 DEF SweepPublications
    <1>6. CASE SweepEnds
        BY <1>1, <1>6 DEF SweepEnds
    <1>7. CASE SweepCrash
        BY <1>1, <1>7, DisturbType DEF SweepCrash
    <1>8. ASSUME NEW j \in Jobs, NEW o \in DispatchOutcomes, SweepDispatch(j, o)
          PROVE  TypeOK'
        BY <1>2, <1>8, SaveAndDispatchType DEF SweepDispatch
    <1>9. ASSUME NEW j \in Jobs, NEW o \in DispatchOutcomes, SweepReclaim(j, o)
          PROVE  TypeOK'
        <2>1. ReclaimedRow(row[j]) \in Row
            BY RowTypes, 0 \in Nat
        <2>2. QED
            BY <1>2, <1>9, <2>1, SaveAndDispatchType, RevokedType DEF SweepReclaim
    <1>10. ASSUME NEW j \in Jobs, NEW o \in DispatchOutcomes, SweepRequeue(j, o)
           PROVE  TypeOK'
        <2>1. RequeuedRow(row[j]) \in Row
            BY RowTypes, 0 \in Nat
        <2>2. sweep' \in [phase: SweepPhases, todo: SUBSET Jobs, at: Jobs \cup {NoJob}]
            BY <1>2, <1>10 DEF SweepRequeue
        <2>3. CASE SweepSkips(row[j]) /\ UNCHANGED <<row, broker, worker, disturbances>>
            BY <1>10, <2>2, <2>3 DEF SweepRequeue
        <2>4. CASE /\ SaveAndDispatch(j, RequeuedRow(row[j]), o, TRUE)
                   /\ worker' = Revoked(j)
            BY <1>10, <2>1, <2>2, <2>4, SaveAndDispatchType, RevokedType DEF SweepRequeue
        <2>5. QED
            BY <1>10, <2>3, <2>4 DEF SweepRequeue
    <1>11. ASSUME NEW j \in Jobs, SweepPauses(j) PROVE TypeOK'
        BY <1>11, DisturbType DEF SweepPauses
    <1>12. ASSUME NEW j \in Jobs, NEW o \in DispatchOutcomes, SweepResumes(j, o)
           PROVE  TypeOK'
        <2>1. RequeuedRow(row[j]) \in Row
            BY RowTypes, 0 \in Nat
        <2>2. QED
            BY <1>2, <1>12, <2>1, SaveAndDispatchType, RevokedType DEF SweepResumes
    <1>13. QED
        BY <1>3, <1>4, <1>5, <1>6, <1>7, <1>8, <1>9, <1>10, <1>11, <1>12 DEF Sweep

LEMMA RequestType ==
    ASSUME TypeOK, Request
    PROVE  TypeOK'
    <1> USE DEF TypeOK
    <1>1. \A j \in Jobs : /\ QueuedRow(row[j]) \in Row
                          /\ RevivedRow(row[j]) \in Row
                          /\ RequeuedRow(row[j]) \in Row
        BY RowTypes, 0 \in Nat
    <1>2. ASSUME NEW j \in Jobs, NEW o \in DispatchOutcomes, Enqueue(j, o)
          PROVE  TypeOK'
        BY <1>1, <1>2, SaveAndDispatchType DEF Enqueue
    <1>3. ASSUME NEW j \in Jobs, NEW o \in DispatchOutcomes, Nudge(j, o)
          PROVE  TypeOK'
        BY <1>1, <1>3, SaveAndDispatchType, RevokedType DEF Nudge
    <1>4. ASSUME NEW j \in Jobs, NEW o \in DispatchOutcomes, RetryPublication(j, o)
          PROVE  TypeOK'
        BY <1>1, <1>4, SaveAndDispatchType, RevokedType DEF RetryPublication
    <1>5. QED
        BY <1>2, <1>3, <1>4 DEF Request

LEMMA EnvironmentType ==
    ASSUME TypeOK, Environment
    PROVE  TypeOK'
    <1> USE DEF TypeOK
    <1>1. ASSUME NEW j \in Jobs, LeaseExpires(j) PROVE TypeOK'
        <2>1. row' \in [Jobs -> Row]
            BY <1>1 DEF LeaseExpires, Row, LeaseStates
        <2>2. QED
            BY <1>1, <2>1, RevokedType, DisturbType DEF LeaseExpires
    <1>2. ASSUME NEW j \in Jobs, BackoffElapses(j) PROVE TypeOK'
        <2>1. row' \in [Jobs -> Row]
            BY <1>2 DEF BackoffElapses, Row
        <2>2. QED
            BY <1>2, <2>1 DEF BackoffElapses
    <1>3. ASSUME NEW j \in Jobs, DispatchAges(j) PROVE TypeOK'
        <2>1. row' \in [Jobs -> Row]
            BY <1>3 DEF DispatchAges, Row
        <2>2. QED
            BY <1>3, <2>1 DEF DispatchAges
    <1>4. ASSUME NEW j \in Jobs, LoseMessage(j) PROVE TypeOK'
        BY <1>4, DisturbType DEF LoseMessage
    <1>5. ASSUME NEW j \in Jobs, NudgeCheck(j) PROVE TypeOK'
        BY <1>5, DisturbType DEF NudgeCheck
    <1>6. QED
        BY <1>1, <1>2, <1>3, <1>4, <1>5 DEF Environment

(* Type correctness: every row, slot and sweep keeps its shape.             *)
THEOREM TypeCorrect == Spec => []TypeOK
    <1>1. Init => TypeOK
        BY DisturbancesAssumption
        DEF Init, TypeOK, NoRow, Row, States, LeaseStates, IdleSlot, Slot,
            IdleSweep, SweepPhases
    <1>2. TypeOK /\ [Next]_vars => TypeOK'
        <2>1. ASSUME TypeOK, Next PROVE TypeOK'
            BY <2>1, WorkerStepType, SweepType, RequestType, EnvironmentType DEF Next
        <2>2. ASSUME TypeOK, UNCHANGED vars PROVE TypeOK'
            BY <2>2 DEF vars, TypeOK
        <2>3. QED
            BY <2>1, <2>2
    <1>3. QED
        BY <1>1, <1>2, PTL DEF Spec

-----------------------------------------------------------------------------
(* The strengthening OneClaim needs: a claim that is still held is backed   *)
(* by a live lease on the row.                                              *)
ClaimBacked ==
    \A w \in Workers :
        worker[w].held =>
            /\ worker[w].job \in Jobs
            /\ row[worker[w].job].state = "leased"
            /\ row[worker[w].job].lease = "live"

ClaimInv == TypeOK /\ ClaimBacked /\ OneClaim

LEMMA RevokedClaims ==
    ASSUME TypeOK, NEW j, NEW w \in Workers
    PROVE  /\ Revoked(j)[w].job = worker[w].job
           /\ Revoked(j)[w].held => worker[w].held /\ worker[w].job # j
    BY DEF Revoked, TypeOK, Slot

(* A step that grants no claim, and that leaves the state and the lease of  *)
(* the row under every claim that survives it, keeps the invariant.         *)
LEMMA ClaimsKept ==
    ASSUME ClaimInv, TypeOK',
           \A w \in Workers : worker'[w].held =>
               /\ worker[w].held
               /\ worker'[w].job = worker[w].job
               /\ row'[worker[w].job].state = row[worker[w].job].state
               /\ row'[worker[w].job].lease = row[worker[w].job].lease
    PROVE  ClaimInv'
    <1>1. ClaimBacked'
        BY DEF ClaimInv, ClaimBacked
    <1>2. OneClaim'
        BY DEF ClaimInv, OneClaim
    <1>3. QED
        BY <1>1, <1>2 DEF ClaimInv

(* A step that writes row j alone and revokes the claims on j.              *)
LEMMA ClaimsRevoked ==
    ASSUME ClaimInv, TypeOK', NEW j \in Jobs, worker' = Revoked(j),
           \A k \in Jobs \ {j} : row'[k] = row[k]
    PROVE  ClaimInv'
    <1>1. TypeOK
        BY DEF ClaimInv
    <1>2. ASSUME NEW w \in Workers, worker'[w].held
          PROVE  /\ worker[w].held
                 /\ worker'[w].job = worker[w].job
                 /\ row'[worker[w].job] = row[worker[w].job]
        <2>1. worker[w].held /\ worker'[w].job = worker[w].job /\ worker[w].job # j
            BY <1>1, <1>2, RevokedClaims
        <2>2. worker[w].job \in Jobs
            BY <2>1 DEF ClaimInv, ClaimBacked
        <2>3. QED
            BY <2>1, <2>2
    <1>3. QED
        BY <1>2, ClaimsKept

(* A step that writes row j alone while no claim on j is held.              *)
LEMMA ClaimsElsewhere ==
    ASSUME ClaimInv, TypeOK', NEW j \in Jobs, worker' = worker,
           \A w \in Workers : worker[w].held => worker[w].job # j,
           \A k \in Jobs \ {j} : row'[k] = row[k]
    PROVE  ClaimInv'
    <1>1. ASSUME NEW w \in Workers, worker'[w].held
          PROVE  /\ worker[w].held
                 /\ worker'[w].job = worker[w].job
                 /\ row'[worker[w].job] = row[worker[w].job]
        BY <1>1 DEF ClaimInv, ClaimBacked
    <1>2. QED
        BY <1>1, ClaimsKept

(* A step that writes neither the rows nor the slots.                       *)
LEMMA ClaimsUntouched ==
    ASSUME ClaimInv, TypeOK', row' = row, worker' = worker
    PROVE  ClaimInv'
    BY ClaimsKept

LEMMA SavedRows ==
    ASSUME TypeOK, NEW j \in Jobs, NEW r, NEW o, NEW free, SaveAndDispatch(j, r, o, free)
    PROVE  /\ \A k \in Jobs \ {j} : row'[k] = row[k]
           /\ row'[j] = r \/ row'[j] = Stamped(r)
    BY DEF TypeOK, SaveAndDispatch

(* Lease() grants a claim only on a row that carries none.                  *)
LEMMA LeaseClaim ==
    ASSUME ClaimInv, TypeOK', NEW w \in Workers, NEW j \in Jobs, Lease(w, j)
    PROVE  ClaimInv'
    <1>1. TypeOK
        BY DEF ClaimInv
    <1>2. \A v \in Workers : worker[v].held => worker[v].job # j
        BY DEF ClaimInv, ClaimBacked, Lease, Leasable
    <1>3. /\ worker'[w].job = j
          /\ \A v \in Workers \ {w} : worker'[v] = worker[v]
        BY <1>1 DEF Lease, TypeOK
    <1>4. /\ row'[j].state = "leased" /\ row'[j].lease = "live"
          /\ \A k \in Jobs \ {j} : row'[k] = row[k]
        BY <1>1 DEF Lease, LeasedRow, TypeOK, Row
    <1>5. ClaimBacked'
        <2>1. SUFFICES ASSUME NEW v \in Workers, worker'[v].held
                       PROVE  /\ worker'[v].job \in Jobs
                              /\ row'[worker'[v].job].state = "leased"
                              /\ row'[worker'[v].job].lease = "live"
            BY DEF ClaimBacked
        <2>2. CASE v = w
            BY <1>3, <1>4, <2>2
        <2>3. CASE v # w
            BY <1>2, <1>3, <1>4, <2>1, <2>3 DEF ClaimInv, ClaimBacked
        <2>4. QED
            BY <2>2, <2>3
    <1>6. OneClaim'
        <2>1. SUFFICES ASSUME NEW u \in Workers, NEW v \in Workers,
                              worker'[u].job = worker'[v].job,
                              worker'[u].held, worker'[v].held
                       PROVE  u = v
            BY DEF OneClaim
        <2>2. CASE u # w /\ v # w
            BY <1>3, <2>1, <2>2 DEF ClaimInv, OneClaim
        <2>3. CASE u = w /\ v # w
            BY <1>2, <1>3, <2>1, <2>3
        <2>4. CASE u # w /\ v = w
            BY <1>2, <1>3, <2>1, <2>4
        <2>5. QED
            BY <2>2, <2>3, <2>4
    <1>7. QED
        BY <1>5, <1>6 DEF ClaimInv

(* An ending writes one row and revokes the other claims on it.             *)
LEMMA EndClaim ==
    ASSUME ClaimInv, TypeOK', NEW w \in Workers, worker[w].job \in Jobs, NEW r,
           End(w, r)
    PROVE  ClaimInv'
    <1> DEFINE j == worker[w].job
    <1>1. TypeOK
        BY DEF ClaimInv
    <1>2. ASSUME NEW v \in Workers, worker'[v].held
          PROVE  /\ worker[v].held
                 /\ worker'[v].job = worker[v].job
                 /\ row'[worker[v].job] = row[worker[v].job]
        <2>1. worker' = [Revoked(j) EXCEPT ![w] = IdleSlot]
            BY DEF End
        <2>2. Revoked(j) \in [Workers -> Slot]
            BY <1>1, RevokedType
        <2>3. v # w
            BY <1>2, <2>1, <2>2 DEF IdleSlot
        <2>4. worker'[v] = Revoked(j)[v]
            BY <2>1, <2>2, <2>3
        <2>5. worker[v].held /\ worker'[v].job = worker[v].job /\ worker[v].job # j
            BY <1>1, <1>2, <2>4, RevokedClaims
        <2>6. row' = [row EXCEPT ![j] = r]
            BY DEF End
        <2>7. worker[v].job \in Jobs
            BY <2>5 DEF ClaimInv, ClaimBacked
        <2>8. QED
            BY <1>1, <2>5, <2>6, <2>7 DEF TypeOK
    <1>3. QED
        BY <1>2, ClaimsKept

LEMMA WorkerStepClaim ==
    ASSUME ClaimInv, TypeOK', NEW w \in Workers, WorkerStep(w)
    PROVE  ClaimInv'
    <1>1. TypeOK /\ (worker[w].job # NoJob => worker[w].job \in Jobs)
        BY DEF ClaimInv, TypeOK, Slot
    <1>2. ASSUME NEW j \in Jobs, Lease(w, j) PROVE ClaimInv'
        BY <1>2, LeaseClaim
    <1>3. ASSUME NEW j \in Jobs, Refuse(w, j) PROVE ClaimInv'
        BY <1>3, ClaimsUntouched DEF Refuse
    <1>4. CASE Succeed(w)
        BY <1>1, <1>4, EndClaim DEF Succeed
    <1>5. CASE Stop(w)
        BY <1>1, <1>5, EndClaim DEF Stop
    <1>6. CASE Fail(w)
        BY <1>1, <1>6, EndClaim DEF Fail
    <1>7. CASE Crash(w)
        <2>1. ASSUME NEW v \in Workers, worker'[v].held
              PROVE  worker[v].held /\ worker'[v].job = worker[v].job
            BY <1>1, <1>7, <2>1 DEF Crash, IdleSlot, TypeOK
        <2>2. row' = row
            BY <1>7 DEF Crash
        <2>3. QED
            BY <2>1, <2>2, ClaimsKept
    <1>8. QED
        BY <1>2, <1>3, <1>4, <1>5, <1>6, <1>7 DEF WorkerStep

(* A dispatch that leaves state and lease alone disturbs no claim.          *)
LEMMA RestampClaim ==
    ASSUME ClaimInv, TypeOK', NEW j \in Jobs, NEW o, NEW free,
           SaveAndDispatch(j, row[j], o, free), worker' = worker
    PROVE  ClaimInv'
    <1>1. TypeOK
        BY DEF ClaimInv
    <1>2. \A k \in Jobs : row'[k].state = row[k].state /\ row'[k].lease = row[k].lease
        BY <1>1, SavedRows DEF TypeOK, Row, Stamped
    <1>3. ASSUME NEW w \in Workers, worker'[w].held
          PROVE  worker[w].held /\ worker[w].job \in Jobs
        BY <1>3 DEF ClaimInv, ClaimBacked
    <1>4. QED
        BY <1>2, <1>3, ClaimsKept

LEMMA SweepClaim ==
    ASSUME ClaimInv, TypeOK', Sweep
    PROVE  ClaimInv'
    <1>1. TypeOK
        BY DEF ClaimInv
    <1>2. CASE SweepDue \/ SweepExpired \/ SweepPublications \/ SweepEnds \/ SweepCrash
        BY <1>2, ClaimsUntouched
        DEF SweepDue, SweepExpired, SweepPublications, SweepEnds, SweepCrash
    <1>3. ASSUME NEW j \in Jobs, NEW o \in DispatchOutcomes, SweepDispatch(j, o)
          PROVE  ClaimInv'
        BY <1>3, RestampClaim DEF SweepDispatch
    <1>4. ASSUME NEW j \in Jobs, NEW o \in DispatchOutcomes, SweepReclaim(j, o)
          PROVE  ClaimInv'
        BY <1>1, <1>4, SavedRows, ClaimsRevoked DEF SweepReclaim
    <1>5. ASSUME NEW j \in Jobs, NEW o \in DispatchOutcomes, SweepRequeue(j, o)
          PROVE  ClaimInv'
        <2>1. CASE UNCHANGED <<row, worker>>
            BY <2>1, ClaimsUntouched
        <2>2. CASE /\ SaveAndDispatch(j, RequeuedRow(row[j]), o, TRUE)
                   /\ worker' = Revoked(j)
            BY <1>1, <2>2, SavedRows, ClaimsRevoked
        <2>3. QED
            BY <1>5, <2>1, <2>2 DEF SweepRequeue
    <1>6. ASSUME NEW j \in Jobs, SweepPauses(j) PROVE ClaimInv'
        BY <1>6, ClaimsUntouched DEF SweepPauses
    <1>7. ASSUME NEW j \in Jobs, NEW o \in DispatchOutcomes, SweepResumes(j, o)
          PROVE  ClaimInv'
        BY <1>1, <1>7, SavedRows, ClaimsRevoked DEF SweepResumes
    <1>8. QED
        BY <1>2, <1>3, <1>4, <1>5, <1>6, <1>7 DEF Sweep

LEMMA RequestClaim ==
    ASSUME ClaimInv, TypeOK', Request
    PROVE  ClaimInv'
    <1>1. TypeOK
        BY DEF ClaimInv
    <1>2. ASSUME NEW j \in Jobs, NEW o \in DispatchOutcomes, Enqueue(j, o)
          PROVE  ClaimInv'
        <2>1. \A w \in Workers : worker[w].held => worker[w].job # j
            BY <1>2 DEF ClaimInv, ClaimBacked, Enqueue
        <2>2. \A k \in Jobs \ {j} : row'[k] = row[k]
            BY <1>1, <1>2, SavedRows DEF Enqueue
        <2>3. QED
            BY <1>2, <2>1, <2>2, ClaimsElsewhere DEF Enqueue
    <1>3. ASSUME NEW j \in Jobs, NEW o \in DispatchOutcomes,
                 Nudge(j, o) \/ RetryPublication(j, o)
          PROVE  ClaimInv'
        BY <1>1, <1>3, SavedRows, ClaimsRevoked DEF Nudge, RetryPublication
    <1>4. QED
        BY <1>2, <1>3 DEF Request

LEMMA EnvironmentClaim ==
    ASSUME ClaimInv, TypeOK', Environment
    PROVE  ClaimInv'
    <1>1. TypeOK
        BY DEF ClaimInv
    <1>2. ASSUME NEW j \in Jobs, LeaseExpires(j) PROVE ClaimInv'
        BY <1>1, <1>2, ClaimsRevoked DEF LeaseExpires, TypeOK
    <1>3. ASSUME NEW j \in Jobs, BackoffElapses(j) \/ DispatchAges(j) PROVE ClaimInv'
        <2>1. \A k \in Jobs : row'[k].state = row[k].state /\ row'[k].lease = row[k].lease
            BY <1>1, <1>3 DEF BackoffElapses, DispatchAges, TypeOK, Row
        <2>2. worker' = worker
            BY <1>3 DEF BackoffElapses, DispatchAges
        <2>3. \A w \in Workers : worker[w].held => worker[w].job \in Jobs
            BY DEF ClaimInv, ClaimBacked
        <2>4. QED
            BY <2>1, <2>2, <2>3, ClaimsKept
    <1>4. ASSUME NEW j \in Jobs, LoseMessage(j) \/ NudgeCheck(j) PROVE ClaimInv'
        BY <1>4, ClaimsUntouched DEF LoseMessage, NudgeCheck
    <1>5. QED
        BY <1>2, <1>3, <1>4 DEF Environment

(* At most one worker runs a job on a claim nobody has revoked: a delivery, *)
(* however often repeated, starts no second run under a live lease.         *)
THEOREM OneClaimHolds == Spec => []OneClaim
    <1>1. Init => ClaimBacked /\ OneClaim
        BY DEF Init, ClaimBacked, OneClaim, IdleSlot
    <1>2. ClaimInv /\ TypeOK' /\ [Next]_vars => ClaimInv'
        <2>1. ASSUME ClaimInv, TypeOK', Next PROVE ClaimInv'
            BY <2>1, WorkerStepClaim, SweepClaim, RequestClaim, EnvironmentClaim
            DEF Next
        <2>2. ASSUME ClaimInv, TypeOK', UNCHANGED vars PROVE ClaimInv'
            BY <2>2, ClaimsUntouched DEF vars
        <2>3. QED
            BY <2>1, <2>2
    <1>3. ClaimInv => OneClaim
        BY DEF ClaimInv
    <1>4. Init /\ TypeOK => ClaimInv
        BY <1>1 DEF ClaimInv
    <1>5. QED
        BY <1>2, <1>3, <1>4, TypeCorrect, PTL DEF Spec

-----------------------------------------------------------------------------
(* Recoverable, strengthened: a row that does not exist yet will be due     *)
(* when enqueue() creates it.                                               *)
InReach(r) ==
    /\ r.state \in {"absent", "queued"} => r.due
    /\ r.state = "leased" => r.lease # "none"

ReachInv == TypeOK /\ \A j \in Jobs : InReach(row[j])

(* Every write of the code keeps a row within reach.                        *)
LEMMA WritesInReach ==
    ASSUME NEW r \in Row, InReach(r), NEW n \in Nat
    PROVE  /\ InReach(Stamped(r))
           /\ InReach(QueuedRow(r)) /\ InReach(Stamped(QueuedRow(r)))
           /\ InReach(RevivedRow(r)) /\ InReach(Stamped(RevivedRow(r)))
           /\ InReach(LeasedRow(r))
           /\ InReach(EndedRow(r, "succeeded")) /\ InReach(EndedRow(r, "dead"))
           /\ InReach(FailedRow(r, n))
           /\ InReach(ReclaimedRow(r)) /\ InReach(Stamped(ReclaimedRow(r)))
           /\ InReach(RequeuedRow(r)) /\ InReach(Stamped(RequeuedRow(r)))
    <1> USE DEF Row, InReach
    <1>1. \A x \in Row : InReach(x) => InReach(Stamped(x))
        BY DEF Stamped
    <1>2. InReach(QueuedRow(r))
        BY DEF QueuedRow
    <1>3. InReach(RevivedRow(r))
        BY DEF RevivedRow
    <1>4. InReach(LeasedRow(r))
        BY DEF LeasedRow
    <1>5. /\ InReach(EndedRow(r, "succeeded")) /\ InReach(EndedRow(r, "dead"))
          /\ EndedRow(r, "failed").state = "failed"
        BY DEF EndedRow
    <1>6. InReach(FailedRow(r, n))
        <2>1. CASE n >= MaxAttempts
            BY <1>5, <2>1 DEF FailedRow
        <2>2. CASE ~(n >= MaxAttempts)
            <3>1. FailedRow(r, n).state = "failed"
                BY <2>2 DEF FailedRow, EndedRow
            <3>2. QED
                BY <3>1
        <2>3. QED
            BY <2>1, <2>2
    <1>7. InReach(ReclaimedRow(r))
        BY DEF ReclaimedRow, EndedRow
    <1>8. InReach(RequeuedRow(r))
        BY DEF RequeuedRow
    <1>9. /\ QueuedRow(r) \in Row /\ RevivedRow(r) \in Row
          /\ ReclaimedRow(r) \in Row /\ RequeuedRow(r) \in Row
        BY RowTypes
    <1> HIDE DEF Row, InReach
    <1>10. InReach(Stamped(QueuedRow(r))) /\ InReach(Stamped(RevivedRow(r)))
        BY <1>1, <1>2, <1>3, <1>9
    <1>11. InReach(Stamped(ReclaimedRow(r))) /\ InReach(Stamped(RequeuedRow(r)))
        BY <1>1, <1>7, <1>8, <1>9
    <1>12. QED
        BY <1>1, <1>2, <1>3, <1>4, <1>5, <1>6, <1>7, <1>8, <1>10, <1>11

(* Every unfinished job stays within the reach of the sweep.                *)
THEOREM RecoverableHolds == Spec => []Recoverable
    <1>1. Init /\ TypeOK => ReachInv
        BY DEF Init, ReachInv, InReach, NoRow
    <1>2. ReachInv /\ TypeOK' /\ [Next]_vars => ReachInv'
        <2>1. SUFFICES ASSUME ReachInv, TypeOK', [Next]_vars, NEW k \in Jobs
                       PROVE  InReach(row'[k])
            BY DEF ReachInv
        <2>2. /\ TypeOK
              /\ row[k] \in Row
              /\ InReach(row[k])
            BY <2>1 DEF ReachInv, TypeOK
        <2>3. row'[k] = row[k] => InReach(row'[k])
            BY <2>2
        <2>4. \A w \in Workers : worker[w].attempt \in Nat
            BY <2>2 DEF TypeOK, Slot
        <2>5. ASSUME NEW w \in Workers, WorkerStep(w) PROVE InReach(row'[k])
            <3>1. CASE \E j \in Jobs : Lease(w, j)
                <4>1. row'[k] = row[k] \/ row'[k] = LeasedRow(row[k])
                    BY <2>2, <3>1 DEF Lease, TypeOK
                <4>2. QED
                    BY <2>2, <2>3, <4>1, WritesInReach, 0 \in Nat
            <3>2. CASE Succeed(w) \/ Stop(w) \/ Fail(w)
                <4>1. \/ row'[k] = row[k]
                      \/ row'[k] = EndedRow(row[k], "succeeded")
                      \/ row'[k] = EndedRow(row[k], "dead")
                      \/ row'[k] = FailedRow(row[k], worker[w].attempt)
                    BY <2>2, <3>2 DEF Succeed, Stop, Fail, End, TypeOK
                <4>2. QED
                    BY <2>2, <2>3, <2>4, <4>1, WritesInReach
            <3>3. CASE (\E j \in Jobs : Refuse(w, j)) \/ Crash(w)
                BY <2>3, <3>3 DEF Refuse, Crash
            <3>4. QED
                BY <2>5, <3>1, <3>2, <3>3 DEF WorkerStep
        <2>6. CASE Sweep
            <3>1. \/ row'[k] = row[k]
                  \/ row'[k] = Stamped(row[k])
                  \/ row'[k] \in {ReclaimedRow(row[k]), Stamped(ReclaimedRow(row[k]))}
                  \/ row'[k] \in {RequeuedRow(row[k]), Stamped(RequeuedRow(row[k]))}
                BY <2>2, <2>6, SavedRows
                DEF Sweep, SweepDue, SweepExpired, SweepPublications, SweepEnds,
                    SweepCrash, SweepDispatch, SweepReclaim, SweepRequeue, SweepPauses,
                    SweepResumes
            <3>2. QED
                BY <2>2, <2>3, <3>1, WritesInReach, 0 \in Nat
        <2>7. CASE Request
            <3>1. \/ row'[k] = row[k]
                  \/ row'[k] \in {QueuedRow(row[k]), Stamped(QueuedRow(row[k]))}
                  \/ row'[k] \in {RevivedRow(row[k]), Stamped(RevivedRow(row[k]))}
                  \/ row'[k] \in {RequeuedRow(row[k]), Stamped(RequeuedRow(row[k]))}
                BY <2>2, <2>7, SavedRows
                DEF Request, Enqueue, Nudge, RetryPublication
            <3>2. QED
                BY <2>2, <2>3, <3>1, WritesInReach, 0 \in Nat
        <2>8. CASE Environment
            <3>1. ASSUME NEW j \in Jobs, LeaseExpires(j) PROVE InReach(row'[k])
                BY <2>2, <3>1 DEF LeaseExpires, TypeOK, Row, InReach
            <3>2. ASSUME NEW j \in Jobs, BackoffElapses(j) \/ DispatchAges(j)
                  PROVE  InReach(row'[k])
                BY <2>2, <3>2 DEF BackoffElapses, DispatchAges, TypeOK, Row, InReach
            <3>3. ASSUME NEW j \in Jobs, LoseMessage(j) \/ NudgeCheck(j)
                  PROVE  InReach(row'[k])
                BY <2>3, <3>3 DEF LoseMessage, NudgeCheck
            <3>4. QED
                BY <2>8, <3>1, <3>2, <3>3 DEF Environment
        <2>9. CASE UNCHANGED vars
            BY <2>3, <2>9 DEF vars
        <2>10. QED
            BY <2>1, <2>5, <2>6, <2>7, <2>8, <2>9 DEF Next
    <1>3. ReachInv => Recoverable
        BY DEF ReachInv, InReach, Recoverable
    <1>4. QED
        BY <1>1, <1>2, <1>3, TypeCorrect, PTL DEF Spec

-----------------------------------------------------------------------------
(* A succeeded job that nothing in flight can write stays succeeded: no     *)
(* delivery, duplicate or sweep opens it again.                             *)
THEOREM SucceededIsFinalHolds == Spec => SucceededIsFinal
    <1>1. TypeOK /\ [Next]_vars =>
            [\A j \in Jobs \ PublishJobs :
               Quiet(j) /\ row[j].state = "succeeded" => row'[j].state = "succeeded"]_vars
        <2>1. SUFFICES ASSUME TypeOK, Next, NEW k \in Jobs \ PublishJobs,
                              Quiet(k), row[k].state = "succeeded"
                       PROVE  row'[k].state = "succeeded"
            OBVIOUS
        <2>2. row'[k] = row[k] => row'[k].state = "succeeded"
            BY <2>1
        <2>3. ASSUME NEW w \in Workers, WorkerStep(w)
              PROVE  row'[k] = row[k]
            BY <2>1, <2>3
            DEF WorkerStep, Lease, Leasable, Refuse, Succeed, Stop, Fail, End, Crash,
                Quiet, TypeOK
        <2>4. CASE Sweep
            BY <2>1, <2>2, <2>4, SavedRows
            DEF Sweep, SweepDue, SweepExpired, SweepPublications, SweepEnds,
                SweepCrash, SweepDispatch, SweepReclaim, SweepRequeue, SweepPauses,
                SweepResumes, Quiet
        <2>5. ASSUME NEW j \in Jobs, NEW o \in DispatchOutcomes,
                     Enqueue(j, o) \/ Nudge(j, o) \/ RetryPublication(j, o)
              PROVE  row'[k] = row[k]
            BY <2>1, <2>5, SavedRows DEF Enqueue, Nudge, RetryPublication, Quiet
        <2>6. ASSUME NEW j \in Jobs,
                     LeaseExpires(j) \/ BackoffElapses(j) \/ DispatchAges(j)
                       \/ LoseMessage(j) \/ NudgeCheck(j)
              PROVE  row'[k].state = row[k].state
            BY <2>1, <2>6
            DEF LeaseExpires, BackoffElapses, DispatchAges, LoseMessage, NudgeCheck,
                TypeOK, Row
        <2>7. QED
            BY <2>1, <2>2, <2>3, <2>4, <2>5, <2>6 DEF Next, Request, Environment
    <1>2. QED
        BY <1>1, TypeCorrect, PTL DEF Spec, SucceededIsFinal

-----------------------------------------------------------------------------
(* The account behind RetryBudget.  The runs of job j whose failure opens   *)
(* the row again, ...                                                       *)
FailingRuns(j) == {w \in Workers : worker[w].job = j /\ worker[w].attempt < MaxAttempts}

Held(j) == \E w \in Workers : worker[w].job = j /\ worker[w].held

(* ... the sweep that has read the row as expired, or has checked the        *)
(* publish job and will requeue it whatever it has become, ...              *)
Chosen(j) ==
    \/ sweep.phase = "expired" /\ j \in sweep.todo
    \/ sweep.at = j

Count(condition) == IF condition THEN 1 ELSE 0

(* ... and the row itself: one lease if it waits for one, two if it is       *)
(* leased and its worker is gone, since a delivery may take the lease over  *)
(* and a sweep may still reclaim it.                                        *)
RowChances(j) ==
    IF row[j].state \in {"absent", "queued", "failed"} THEN 1 + Count(Chosen(j))
    ELSE IF row[j].state = "leased" /\ ~Held(j) THEN 2
    ELSE Count(Chosen(j))

(* The leases that may still come for job j with no further disturbance, a   *)
(* run that fails and is leased again counting as one.                      *)
Chances(j) == RowChances(j) + Count(j \in requeuing) + Cardinality(FailingRuns(j))

InBudget(j) ==
    /\ IsFiniteSet(FailingRuns(j))
    /\ Chances(j) <= 1 + 2 * disturbances
    /\ row[j].attempts + Chances(j) <= MaxAttempts + 2 * disturbances

BudgetInv == ClaimInv /\ \A j \in Jobs : InBudget(j)

LEMMA ChancesTypes ==
    ASSUME TypeOK, NEW j \in Jobs, IsFiniteSet(FailingRuns(j))
    PROVE  /\ RowChances(j) \in 0..2
           /\ Count(Chosen(j)) \in 0..1 /\ RowChances(j) >= Count(Chosen(j))
           /\ Count(j \in requeuing) \in 0..1
           /\ Cardinality(FailingRuns(j)) \in Nat
           /\ Chances(j) \in Nat
           /\ row[j].attempts \in Nat /\ disturbances \in Nat
    <1>1. /\ RowChances(j) \in 0..2
          /\ Count(Chosen(j)) \in 0..1 /\ RowChances(j) >= Count(Chosen(j))
          /\ Count(j \in requeuing) \in 0..1
        BY DEF RowChances, Count
    <1>2. Cardinality(FailingRuns(j)) \in Nat
        BY FS_CardinalityType
    <1>3. row[j].attempts \in Nat /\ disturbances \in Nat
        BY DisturbancesAssumption DEF TypeOK, Row
    <1>4. QED
        BY <1>1, <1>2, <1>3 DEF Chances

(* A step that opens no more chances than its disturbances pay for.          *)
LEMMA BudgetKept ==
    ASSUME TypeOK, TypeOK', NEW j \in Jobs, InBudget(j), IsFiniteSet(FailingRuns(j))',
           row'[j].attempts <= row[j].attempts, disturbances <= disturbances',
           RowChances(j)' + Count(j \in requeuing)' + Cardinality(FailingRuns(j))'
             <= RowChances(j) + Count(j \in requeuing) + Cardinality(FailingRuns(j))
                  + 2 * (disturbances' - disturbances)
    PROVE  InBudget(j)'
    <1>1. /\ Chances(j) \in Nat /\ row[j].attempts \in Nat /\ disturbances \in Nat
          /\ Chances(j) = RowChances(j) + Count(j \in requeuing) + Cardinality(FailingRuns(j))
        BY ChancesTypes DEF InBudget, Chances
    <1>2. /\ Chances(j)' \in Nat /\ row'[j].attempts \in Nat /\ disturbances' \in Nat
          /\ Chances(j)' = RowChances(j)' + Count(j \in requeuing)' + Cardinality(FailingRuns(j))'
        <2>1. RowChances(j)' \in Nat /\ Count(j \in requeuing)' \in Nat
            BY DEF RowChances, Count
        <2>2. Cardinality(FailingRuns(j))' \in Nat
            BY FS_CardinalityType
        <2>3. row'[j].attempts \in Nat /\ disturbances' \in Nat
            BY DisturbancesAssumption DEF TypeOK, Row
        <2>4. QED
            BY <2>1, <2>2, <2>3 DEF Chances
    <1>3. Chances(j)' <= Chances(j) + 2 * (disturbances' - disturbances)
        BY <1>1, <1>2
    <1>4. QED
        BY <1>1, <1>2, <1>3, MaxAttemptsAssumption DEF InBudget

(* A step that leaves job j alone: its row's state and attempts, its runs,   *)
(* and the nudges and reclaims under way for it, which may only go away.    *)
LEMMA BudgetUntouched ==
    ASSUME TypeOK, TypeOK', NEW j \in Jobs, InBudget(j),
           row'[j].state = row[j].state, row'[j].attempts = row[j].attempts,
           FailingRuns(j)' = FailingRuns(j), Held(j)' = Held(j),
           Chosen(j)' => Chosen(j), j \in requeuing' => j \in requeuing,
           disturbances <= disturbances'
    PROVE  InBudget(j)'
    <1>1. RowChances(j)' <= RowChances(j) /\ Count(j \in requeuing)' <= Count(j \in requeuing)
        BY DEF RowChances, Count
    <1>2. IsFiniteSet(FailingRuns(j))'
        BY DEF InBudget
    <1>3. /\ row[j].attempts \in Nat /\ disturbances \in Nat /\ disturbances' \in Nat
          /\ RowChances(j) \in Nat /\ Count(j \in requeuing) \in Nat
          /\ Cardinality(FailingRuns(j)) \in Nat
        BY DisturbancesAssumption, ChancesTypes DEF InBudget, TypeOK
    <1>4. RowChances(j)' \in Nat /\ Count(j \in requeuing)' \in Nat
        BY DEF RowChances, Count
    <1>5. Cardinality(FailingRuns(j))' = Cardinality(FailingRuns(j))
        OBVIOUS
    <1>6. RowChances(j)' + Count(j \in requeuing)' + Cardinality(FailingRuns(j))'
            <= RowChances(j) + Count(j \in requeuing) + Cardinality(FailingRuns(j))
                 + 2 * (disturbances' - disturbances)
        BY <1>1, <1>3, <1>4, <1>5
    <1>7. QED
        BY <1>2, <1>3, <1>6, BudgetKept

LEMMA DisturbanceSteps ==
    ASSUME TypeOK, NEW j, NEW r, NEW o, NEW free \in BOOLEAN, SaveAndDispatch(j, r, o, free)
    PROVE  /\ disturbances <= disturbances'
           /\ ~free => disturbances' = disturbances + 1
    BY DisturbancesAssumption DEF SaveAndDispatch, Disturb, TypeOK

(* Who runs what after a write revoked the claims on j.                      *)
LEMMA RevokedRuns ==
    ASSUME TypeOK, NEW j, NEW k, worker' = Revoked(j)
    PROVE  /\ FailingRuns(k)' = FailingRuns(k)
           /\ k # j => Held(k)' = Held(k)
           /\ ~Held(j)'
    <1>1. \A w \in Workers : /\ worker'[w].job = worker[w].job
                             /\ worker'[w].attempt = worker[w].attempt
                             /\ worker'[w].held <=> worker[w].held /\ worker[w].job # j
        BY DEF Revoked, TypeOK, Slot
    <1>2. QED
        BY <1>1 DEF FailingRuns, Held

LEMMA EndedRuns ==
    ASSUME TypeOK, NEW w \in Workers, NEW k \in Jobs, worker[w].job \in Jobs,
           worker' = [Revoked(worker[w].job) EXCEPT ![w] = IdleSlot]
    PROVE  /\ FailingRuns(k)' = FailingRuns(k) \ {w}
           /\ k # worker[w].job => Held(k)' = Held(k)
           /\ k = worker[w].job => ~Held(k)'
    <1>1. \A v \in Workers : v # w =>
                /\ worker'[v].job = worker[v].job
                /\ worker'[v].attempt = worker[v].attempt
                /\ worker'[v].held <=> worker[v].held /\ worker[v].job # worker[w].job
        BY DEF Revoked, TypeOK, Slot
    <1>2. worker'[w].job = NoJob /\ ~worker'[w].held
        BY DEF IdleSlot, Revoked, TypeOK
    <1>3. QED
        <2>1. w \notin FailingRuns(k)'
            BY <1>2, NoJobAssumption DEF FailingRuns
        <2>2. ASSUME NEW v \in Workers, v # w
              PROVE  v \in FailingRuns(k)' <=> v \in FailingRuns(k)
            BY <1>1, <2>2 DEF FailingRuns
        <2>3. FailingRuns(k) \subseteq Workers /\ FailingRuns(k)' \subseteq Workers
            BY DEF FailingRuns
        <2>4. FailingRuns(k)' = FailingRuns(k) \ {w}
            BY <2>1, <2>2, <2>3
        <2>5. k # worker[w].job => Held(k)' = Held(k)
            BY <1>1, <1>2 DEF Held
        <2>6. k = worker[w].job => ~Held(k)'
            BY <1>1, <1>2 DEF Held
        <2>7. QED
            BY <2>4, <2>5, <2>6

(* State and attempts after each write.                                     *)
LEMMA WrittenRows ==
    ASSUME NEW r \in Row, NEW n \in Nat
    PROVE  /\ Stamped(r).state = r.state /\ Stamped(r).attempts = r.attempts
           /\ QueuedRow(r).attempts = r.attempts
           /\ r.state \in {"absent", "queued", "failed"} =>
                 QueuedRow(r).state \in {"absent", "queued", "failed"}
           /\ RevivedRow(r).state = "queued" /\ RevivedRow(r).attempts = 0
           /\ LeasedRow(r).state = "leased" /\ LeasedRow(r).attempts = r.attempts + 1
           /\ \A s : EndedRow(r, s).state = s /\ EndedRow(r, s).attempts = r.attempts
           /\ FailedRow(r, n).attempts = r.attempts
           /\ n >= MaxAttempts => FailedRow(r, n).state = "dead"
           /\ n < MaxAttempts => FailedRow(r, n).state = "failed"
           /\ ReclaimedRow(r).state = "failed" /\ ReclaimedRow(r).attempts = r.attempts
           /\ RequeuedRow(r).state = "queued" /\ RequeuedRow(r).attempts = r.attempts
    <1> USE DEF Row
    <1>1. \A s : EndedRow(r, s).state = s /\ EndedRow(r, s).attempts = r.attempts
        BY DEF EndedRow
    <1>2. /\ FailedRow(r, n).attempts = r.attempts
          /\ n >= MaxAttempts => FailedRow(r, n).state = "dead"
          /\ n < MaxAttempts => FailedRow(r, n).state = "failed"
        BY MaxAttemptsAssumption DEF FailedRow, EndedRow
    <1>3. ReclaimedRow(r).state = "failed" /\ ReclaimedRow(r).attempts = r.attempts
        BY DEF ReclaimedRow, EndedRow
    <1>4. /\ Stamped(r).state = r.state /\ Stamped(r).attempts = r.attempts
          /\ QueuedRow(r).attempts = r.attempts
          /\ r.state \in {"absent", "queued", "failed"} =>
                QueuedRow(r).state \in {"absent", "queued", "failed"}
        BY DEF Stamped, QueuedRow
    <1>5. /\ RevivedRow(r).state = "queued" /\ RevivedRow(r).attempts = 0
          /\ LeasedRow(r).state = "leased" /\ LeasedRow(r).attempts = r.attempts + 1
          /\ RequeuedRow(r).state = "queued" /\ RequeuedRow(r).attempts = r.attempts
        BY DEF RevivedRow, LeasedRow, RequeuedRow
    <1>6. QED
        BY <1>1, <1>2, <1>3, <1>4, <1>5

LEMMA SavedState ==
    ASSUME TypeOK, NEW j \in Jobs, NEW r \in Row, NEW o, NEW free, SaveAndDispatch(j, r, o, free)
    PROVE  row'[j].state = r.state /\ row'[j].attempts = r.attempts
    BY SavedRows, WrittenRows, 0 \in Nat

(* A saved row spends nothing of the other jobs' budgets.                    *)
LEMMA SaveElsewhere ==
    ASSUME TypeOK, TypeOK', NEW j \in Jobs, NEW r, NEW o, NEW free \in BOOLEAN,
           SaveAndDispatch(j, r, o, free), worker' = worker \/ worker' = Revoked(j),
           NEW k \in Jobs, k # j, InBudget(k),
           Chosen(k)' => Chosen(k), k \in requeuing' => k \in requeuing
    PROVE  InBudget(k)'
    <1>1. FailingRuns(k)' = FailingRuns(k) /\ Held(k)' = Held(k)
        BY RevokedRuns DEF FailingRuns, Held
    <1>2. QED
        BY <1>1, SavedRows, DisturbanceSteps, BudgetUntouched

(* A row that is saved as waiting for a lease.                              *)
LEMMA SaveReopens ==
    ASSUME TypeOK, TypeOK', NEW j \in Jobs, NEW r \in Row, NEW o, NEW free \in BOOLEAN,
           SaveAndDispatch(j, r, o, free), worker' = worker \/ worker' = Revoked(j),
           r.state \in {"absent", "queued", "failed"}, r.attempts <= row[j].attempts,
           InBudget(j),
           1 + Count(Chosen(j))' + Count(j \in requeuing)'
             <= RowChances(j) + Count(j \in requeuing) + 2 * (disturbances' - disturbances)
    PROVE  InBudget(j)'
    <1>1. FailingRuns(j)' = FailingRuns(j)
        BY RevokedRuns DEF FailingRuns
    <1>2. row'[j].state = r.state /\ row'[j].attempts = r.attempts
        BY SavedState
    <1>3. RowChances(j)' = 1 + Count(Chosen(j))'
        BY <1>2 DEF RowChances
    <1>4. /\ disturbances \in Nat /\ disturbances' \in Nat
          /\ RowChances(j) \in Nat /\ Count(j \in requeuing) \in Nat
          /\ Cardinality(FailingRuns(j)) \in Nat
        BY DisturbancesAssumption, ChancesTypes DEF InBudget, TypeOK
    <1>5. Count(Chosen(j))' \in Nat /\ Count(j \in requeuing)' \in Nat
        BY DEF Count
    <1>6. Cardinality(FailingRuns(j))' = Cardinality(FailingRuns(j))
        BY <1>1
    <1>7. RowChances(j)' + Count(j \in requeuing)' + Cardinality(FailingRuns(j))'
            <= RowChances(j) + Count(j \in requeuing) + Cardinality(FailingRuns(j))
                 + 2 * (disturbances' - disturbances)
        BY <1>3, <1>4, <1>5, <1>6
    <1>8. IsFiniteSet(FailingRuns(j))'
        BY <1>1 DEF InBudget
    <1>9. QED
        BY <1>2, <1>7, <1>8, DisturbanceSteps, BudgetKept

(* A lease: within the budget the run may fail and be leased again, so the   *)
(* chance remains; beyond it the chance is spent.                           *)
LEMMA LeaseBudget ==
    ASSUME ClaimInv, TypeOK', NEW w \in Workers, NEW j \in Jobs, Lease(w, j),
           NEW k \in Jobs, InBudget(k)
    PROVE  InBudget(k)'
    <1>1. TypeOK
        BY DEF ClaimInv
    <1>2. /\ worker'[w] = [job |-> j, attempt |-> row[j].attempts + 1, held |-> TRUE]
          /\ \A v \in Workers : v # w => worker'[v] = worker[v]
          /\ worker[w].job = NoJob /\ NoJob \notin Jobs
        BY <1>1, NoJobAssumption DEF Lease, TypeOK
    <1>3. disturbances' = disturbances /\ requeuing' = requeuing /\ sweep' = sweep
        BY DEF Lease
    <1>4. CASE k # j
        <2>1. FailingRuns(k)' = FailingRuns(k) /\ Held(k)' = Held(k)
            BY <1>2, <1>4 DEF FailingRuns, Held
        <2>2. row'[k] = row[k]
            BY <1>1, <1>4 DEF Lease, TypeOK
        <2>3. QED
            BY <1>1, <1>3, <2>1, <2>2, BudgetUntouched DEF TypeOK, Chosen
    <1>5. CASE k = j
        <2> DEFINE n == row[j].attempts + 1
        <2>1. row'[j].state = "leased" /\ row'[j].attempts = n
            BY <1>1, WrittenRows, 0 \in Nat DEF Lease, TypeOK
        <2>2. RowChances(j) >= 1 + Count(Chosen(j))
            <3>1. row[j].state = "leased" => ~Held(j)
                BY DEF Lease, Leasable, Held, ClaimInv, ClaimBacked
            <3>2. QED
                BY <3>1 DEF Lease, Leasable, RowChances, Count
        <2>3. Held(j)'
            BY <1>2 DEF Held
        <2>4. RowChances(j)' = Count(Chosen(j)) /\ Count(j \in requeuing)' = Count(j \in requeuing)
            BY <1>3, <2>1, <2>3 DEF RowChances, Chosen, Count
        <2>5. IsFiniteSet(FailingRuns(j))
            BY <1>5 DEF InBudget
        <2>6. w \notin FailingRuns(j)
            BY <1>2 DEF FailingRuns
        <2>7. /\ n < MaxAttempts => FailingRuns(j)' = FailingRuns(j) \cup {w}
              /\ ~(n < MaxAttempts) => FailingRuns(j)' = FailingRuns(j)
            <3>1. w \in FailingRuns(j)' <=> n < MaxAttempts
                BY <1>2 DEF FailingRuns
            <3>2. \A v \in Workers : v # w => (v \in FailingRuns(j)' <=> v \in FailingRuns(j))
                BY <1>2 DEF FailingRuns
            <3>3. FailingRuns(j) \subseteq Workers /\ FailingRuns(j)' \subseteq Workers
                BY DEF FailingRuns
            <3>4. QED
                BY <2>6, <3>1, <3>2, <3>3
        <2>8. /\ IsFiniteSet(FailingRuns(j)')
              /\ n < MaxAttempts =>
                    Cardinality(FailingRuns(j)') = Cardinality(FailingRuns(j)) + 1
              /\ ~(n < MaxAttempts) => Cardinality(FailingRuns(j)') = Cardinality(FailingRuns(j))
            BY <2>5, <2>6, <2>7, FS_AddElement
        <2>9. /\ n < MaxAttempts => Chances(j)' <= Chances(j)
              /\ ~(n < MaxAttempts) => Chances(j)' <= Chances(j) - 1
              /\ Chances(j)' \in Nat
            <3>1. /\ RowChances(j) \in Nat /\ Count(Chosen(j)) \in Nat
                  /\ Count(j \in requeuing) \in Nat /\ Cardinality(FailingRuns(j)) \in Nat
                BY <1>1, <2>5, ChancesTypes
            <3>2. Chances(j)' = Count(Chosen(j)) + Count(j \in requeuing)
                                  + Cardinality(FailingRuns(j)')
                BY <2>4 DEF Chances
            <3>3. Cardinality(FailingRuns(j)') \in Nat
                BY <2>8, FS_CardinalityType
            <3>4. QED
                BY <2>2, <2>8, <3>1, <3>2, <3>3 DEF Chances
        <2>10. row[j].attempts \in Nat /\ disturbances \in Nat /\ Chances(j) \in Nat
            BY <1>1, <2>5, ChancesTypes
        <2>11. QED
            BY <1>3, <1>5, <2>1, <2>8, <2>9, <2>10, MaxAttemptsAssumption DEF InBudget
    <1>6. QED
        BY <1>4, <1>5

(* The end of a run: only a failure within the budget opens the row again.   *)
LEMMA EndBudget ==
    ASSUME ClaimInv, TypeOK', NEW w \in Workers, worker[w].job \in Jobs, NEW r \in Row, End(w, r),
           r.attempts = row[worker[w].job].attempts,
           \/ r.state \in {"succeeded", "dead"}
           \/ r.state = "failed" /\ worker[w].attempt < MaxAttempts,
           NEW k \in Jobs, InBudget(k)
    PROVE  InBudget(k)'
    <1>1. TypeOK
        BY DEF ClaimInv
    <1>2. /\ FailingRuns(k)' = FailingRuns(k) \ {w}
          /\ k # worker[w].job => Held(k)' = Held(k)
          /\ k = worker[w].job => ~Held(k)'
        BY <1>1, EndedRuns DEF End
    <1>3. disturbances' = disturbances /\ requeuing' = requeuing /\ sweep' = sweep
        BY DEF End
    <1>4. CASE k # worker[w].job
        <2>1. w \notin FailingRuns(k)
            BY <1>4 DEF FailingRuns
        <2>2. FailingRuns(k)' = FailingRuns(k) /\ Held(k)' = Held(k)
            BY <1>2, <1>4, <2>1
        <2>3. row'[k] = row[k]
            BY <1>1, <1>4 DEF End, TypeOK
        <2>4. QED
            BY <1>1, <1>3, <2>2, <2>3, BudgetUntouched DEF TypeOK, Chosen
    <1>5. CASE k = worker[w].job
        <2>1. row'[k] = r
            BY <1>1, <1>5 DEF End, TypeOK
        <2>2. /\ r.state = "failed" => RowChances(k)' = 1 + Count(Chosen(k))
              /\ r.state # "failed" => RowChances(k)' = Count(Chosen(k))
              /\ Count(k \in requeuing)' = Count(k \in requeuing)
            BY <1>3, <2>1 DEF RowChances, Chosen, Count
        <2>3. IsFiniteSet(FailingRuns(k))
            BY DEF InBudget
        <2>4. /\ IsFiniteSet(FailingRuns(k))'
              /\ Cardinality(FailingRuns(k)') <= Cardinality(FailingRuns(k))
              /\ r.state = "failed" =>
                    Cardinality(FailingRuns(k)') = Cardinality(FailingRuns(k)) - 1
            <3>1. r.state = "failed" => w \in FailingRuns(k)
                BY <1>5 DEF FailingRuns
            <3>2. Cardinality(FailingRuns(k)) \in Nat
                BY <2>3, FS_CardinalityType
            <3>3. /\ IsFiniteSet(FailingRuns(k) \ {w})
                  /\ w \in FailingRuns(k) =>
                        Cardinality(FailingRuns(k) \ {w}) = Cardinality(FailingRuns(k)) - 1
                  /\ w \notin FailingRuns(k) =>
                        Cardinality(FailingRuns(k) \ {w}) = Cardinality(FailingRuns(k))
                BY <2>3, FS_RemoveElement
            <3>4. QED
                BY <1>2, <3>1, <3>2, <3>3
        <2>5. /\ RowChances(k) \in Nat /\ Count(Chosen(k)) \in Nat
              /\ RowChances(k) >= Count(Chosen(k)) /\ Count(k \in requeuing) \in Nat
              /\ Cardinality(FailingRuns(k)) \in Nat /\ Cardinality(FailingRuns(k)') \in Nat
              /\ disturbances \in Nat /\ row[k].attempts \in Nat
            BY <1>1, <2>3, <2>4, ChancesTypes, FS_CardinalityType
        <2>6. RowChances(k)' + Count(k \in requeuing)' + Cardinality(FailingRuns(k))'
                <= RowChances(k) + Count(k \in requeuing) + Cardinality(FailingRuns(k))
                     + 2 * (disturbances' - disturbances)
            BY <1>3, <2>2, <2>4, <2>5
        <2>7. row'[k].attempts <= row[k].attempts /\ disturbances <= disturbances'
            BY <1>3, <1>5, <2>1, <2>5
        <2>8. QED
            BY <1>1, <2>4, <2>6, <2>7, BudgetKept
    <1>6. QED
        BY <1>4, <1>5

(* A crash of a worker, or a lease that runs out under it, costs a           *)
(* disturbance; the row it leaves behind counts two chances.                *)
LEMMA CrashBudget ==
    ASSUME ClaimInv, TypeOK', NEW w \in Workers, Crash(w), NEW k \in Jobs, InBudget(k)
    PROVE  InBudget(k)'
    <1>1. TypeOK
        BY DEF ClaimInv
    <1>2. /\ FailingRuns(k)' = FailingRuns(k) \ {w}
          /\ disturbances' = disturbances + 1
          /\ row' = row /\ requeuing' = requeuing
        <2>1. \A v \in Workers : v # w => worker'[v] = worker[v]
            BY <1>1 DEF Crash, TypeOK
        <2>2. worker'[w].job = NoJob
            BY <1>1 DEF Crash, TypeOK, IdleSlot
        <2>3. w \notin FailingRuns(k)'
            BY <2>2, NoJobAssumption DEF FailingRuns
        <2>4. \A v \in Workers : v # w => (v \in FailingRuns(k)' <=> v \in FailingRuns(k))
            BY <2>1 DEF FailingRuns
        <2>5. FailingRuns(k) \subseteq Workers /\ FailingRuns(k)' \subseteq Workers
            BY DEF FailingRuns
        <2>6. FailingRuns(k)' = FailingRuns(k) \ {w}
            BY <2>3, <2>4, <2>5
        <2>7. QED
            BY <2>6 DEF Crash, Disturb
    <1>3. IsFiniteSet(FailingRuns(k)) /\ IsFiniteSet(FailingRuns(k)')
        BY <1>2, FS_RemoveElement DEF InBudget
    <1>4. Cardinality(FailingRuns(k)') <= Cardinality(FailingRuns(k))
        BY <1>2, <1>3, FS_Subset
    <1>5. /\ RowChances(k) \in Nat /\ RowChances(k)' \in 0..2
          /\ Count(k \in requeuing) \in Nat /\ Count(k \in requeuing)' = Count(k \in requeuing)
        BY <1>2 DEF RowChances, Count
    <1>6. /\ Cardinality(FailingRuns(k)) \in Nat /\ Cardinality(FailingRuns(k)') \in Nat
          /\ disturbances \in Nat
        BY <1>1, <1>3, FS_CardinalityType, DisturbancesAssumption DEF TypeOK
    <1>7. RowChances(k)' + Count(k \in requeuing)' + Cardinality(FailingRuns(k))'
            <= RowChances(k) + Count(k \in requeuing) + Cardinality(FailingRuns(k))
                 + 2 * (disturbances' - disturbances)
        BY <1>2, <1>4, <1>5, <1>6
    <1>8. row'[k].attempts <= row[k].attempts
        BY <1>1, <1>2 DEF TypeOK, Row
    <1>9. QED
        BY <1>1, <1>2, <1>3, <1>6, <1>7, <1>8, BudgetKept

LEMMA ExpiryBudget ==
    ASSUME ClaimInv, TypeOK', NEW j \in Jobs, LeaseExpires(j), NEW k \in Jobs, InBudget(k)
    PROVE  InBudget(k)'
    <1>1. TypeOK
        BY DEF ClaimInv
    <1>2. /\ FailingRuns(k)' = FailingRuns(k)
          /\ k # j => Held(k)' = Held(k)
          /\ ~Held(j)'
          /\ requeuing' = requeuing /\ sweep' = sweep
          /\ row'[k].state = row[k].state /\ row'[k].attempts = row[k].attempts
          /\ IF Held(j) THEN disturbances' = disturbances + 1 ELSE disturbances' = disturbances
        <2>1. worker' = Revoked(j)
            BY DEF LeaseExpires
        <2>2. row'[k].state = row[k].state /\ row'[k].attempts = row[k].attempts
            BY <1>1 DEF LeaseExpires, TypeOK, Row
        <2>3. IF Held(j) THEN disturbances' = disturbances + 1 ELSE disturbances' = disturbances
            BY DEF LeaseExpires, Held, Disturb
        <2>4. QED
            BY <1>1, <2>1, <2>2, <2>3, RevokedRuns DEF LeaseExpires
    <1>3. disturbances \in Nat
        BY <1>1, DisturbancesAssumption DEF TypeOK
    <1>4. CASE k # j \/ ~Held(j)
        <2>1. Held(k)' = Held(k)
            BY <1>2, <1>4 DEF Held
        <2>2. QED
            BY <1>1, <1>2, <1>3, <1>4, <2>1, BudgetUntouched DEF Chosen
    <1>5. CASE k = j /\ Held(j)
        <2>1. /\ RowChances(k) \in Nat /\ RowChances(k)' \in 0..2
              /\ Count(k \in requeuing) \in Nat /\ Count(k \in requeuing)' = Count(k \in requeuing)
            BY <1>2 DEF RowChances, Count
        <2>2. IsFiniteSet(FailingRuns(k)) /\ IsFiniteSet(FailingRuns(k)')
            BY <1>2 DEF InBudget
        <2>3. /\ Cardinality(FailingRuns(k)) \in Nat
              /\ Cardinality(FailingRuns(k)') = Cardinality(FailingRuns(k))
            BY <1>2, <2>2, FS_CardinalityType
        <2>4. RowChances(k)' + Count(k \in requeuing)' + Cardinality(FailingRuns(k))'
                <= RowChances(k) + Count(k \in requeuing) + Cardinality(FailingRuns(k))
                     + 2 * (disturbances' - disturbances)
            BY <1>2, <1>3, <1>5, <2>1, <2>3
        <2>5. row'[k].attempts <= row[k].attempts /\ disturbances <= disturbances'
            BY <1>1, <1>2, <1>3 DEF TypeOK, Row
        <2>6. QED
            BY <1>1, <2>2, <2>4, <2>5, BudgetKept
    <1>6. QED
        BY <1>2, <1>4, <1>5

LEMMA WorkerStepBudget ==
    ASSUME ClaimInv, TypeOK', NEW w \in Workers, WorkerStep(w), NEW k \in Jobs, InBudget(k)
    PROVE  InBudget(k)'
    <1>1. /\ TypeOK
          /\ worker[w].job # NoJob => worker[w].job \in Jobs /\ row[worker[w].job] \in Row
          /\ worker[w].attempt \in Nat
        BY DEF ClaimInv, TypeOK, Slot
    <1>2. ASSUME NEW j \in Jobs, Lease(w, j) PROVE InBudget(k)'
        BY <1>2, LeaseBudget
    <1>3. ASSUME NEW j \in Jobs, Refuse(w, j) PROVE InBudget(k)'
        <2>1. /\ FailingRuns(k)' = FailingRuns(k) /\ Held(k)' = Held(k)
              /\ Chosen(k)' = Chosen(k)
              /\ UNCHANGED <<row, requeuing, disturbances>>
            BY <1>3 DEF Refuse, FailingRuns, Held, Chosen
        <2>2. QED
            BY <1>1, <2>1, DisturbancesAssumption, BudgetUntouched DEF TypeOK
    <1> DEFINE ended(s) == EndedRow(row[worker[w].job], s)
               failed == FailedRow(row[worker[w].job], worker[w].attempt)
    <1>4. ASSUME worker[w].job \in Jobs
          PROVE  /\ \A s \in {"succeeded", "dead"} :
                      /\ ended(s) \in Row /\ ended(s).state = s
                      /\ ended(s).attempts = row[worker[w].job].attempts
                 /\ failed \in Row /\ failed.attempts = row[worker[w].job].attempts
                 /\ \/ failed.state = "dead"
                    \/ failed.state = "failed" /\ worker[w].attempt < MaxAttempts
        <2> DEFINE r == row[worker[w].job]
                   n == worker[w].attempt
        <2>1. r \in Row /\ n \in Nat
            BY <1>1, <1>4 DEF TypeOK
        <2>2. n >= MaxAttempts \/ n < MaxAttempts
            BY <2>1, MaxAttemptsAssumption
        <2> HIDE DEF r, n
        <2>3. /\ EndedRow(r, "succeeded") \in Row /\ EndedRow(r, "dead") \in Row
              /\ FailedRow(r, n) \in Row
            BY <2>1, RowTypes
        <2>4. /\ \A s : EndedRow(r, s).state = s /\ EndedRow(r, s).attempts = r.attempts
              /\ FailedRow(r, n).attempts = r.attempts
              /\ n >= MaxAttempts => FailedRow(r, n).state = "dead"
              /\ n < MaxAttempts => FailedRow(r, n).state = "failed"
            BY <2>1, WrittenRows
        <2>5. QED
            BY <2>2, <2>3, <2>4 DEF r, n
    <1> HIDE DEF ended, failed
    <1>5. CASE Succeed(w)
        <2>1. worker[w].job \in Jobs /\ End(w, ended("succeeded"))
            BY <1>1, <1>5 DEF Succeed, ended
        <2>2. QED
            BY <1>4, <2>1, EndBudget
    <1>6. CASE Stop(w)
        <2>1. worker[w].job \in Jobs /\ End(w, ended("dead"))
            BY <1>1, <1>6 DEF Stop, ended
        <2>2. QED
            BY <1>4, <2>1, EndBudget
    <1>7. CASE Fail(w)
        <2>1. worker[w].job \in Jobs /\ End(w, failed)
            BY <1>1, <1>7 DEF Fail, failed
        <2>2. QED
            BY <1>4, <2>1, EndBudget
    <1>8. CASE Crash(w)
        BY <1>8, CrashBudget
    <1>9. QED
        BY <1>2, <1>3, <1>5, <1>6, <1>7, <1>8 DEF WorkerStep

(* The sweep's own steps choose among rows whose claims are gone.            *)
LEMMA SweepBudget ==
    ASSUME ClaimInv, TypeOK', Sweep, NEW k \in Jobs, InBudget(k)
    PROVE  InBudget(k)'
    <1>1. TypeOK /\ disturbances \in Nat
        BY DisturbancesAssumption DEF ClaimInv, TypeOK
    <1>2. CASE SweepDue \/ SweepPublications \/ SweepEnds \/ SweepCrash
        <2>1. /\ row' = row /\ requeuing' = requeuing /\ worker' = worker
              /\ disturbances <= disturbances'
            <3>1. disturbances' = disturbances \/ disturbances' = disturbances + 1
                BY <1>2
                DEF SweepDue, SweepPublications, SweepEnds, SweepCrash, Disturb
            <3>2. row' = row /\ requeuing' = requeuing /\ worker' = worker
                BY <1>2 DEF SweepDue, SweepPublications, SweepEnds, SweepCrash
            <3>3. QED
                BY <1>1, <3>1, <3>2
        <2>2. sweep'.at = NoJob /\ sweep'.phase \in {"idle", "due", "publications"}
            BY <1>2
            DEF SweepDue, SweepPublications, SweepEnds, SweepCrash, IdleSweep
        <2>3. ~Chosen(k)'
            BY <2>2, NoJobAssumption DEF Chosen
        <2>4. FailingRuns(k)' = FailingRuns(k) /\ Held(k)' = Held(k)
            BY <2>1 DEF FailingRuns, Held
        <2>5. QED
            BY <1>1, <2>1, <2>3, <2>4, BudgetUntouched
    <1>3. CASE SweepExpired
        <2>1. /\ FailingRuns(k)' = FailingRuns(k) /\ Held(k)' = Held(k)
              /\ row' = row /\ requeuing' = requeuing /\ disturbances' = disturbances
            BY <1>3 DEF SweepExpired, FailingRuns, Held
        <2>2. Chosen(k)' => row[k].state = "leased" /\ row[k].lease = "expired"
            BY <1>3, NoJobAssumption DEF SweepExpired, Chosen, ExpiredRows, IdleSweep
        <2>3. Chosen(k)' => ~Held(k)
            BY <2>2 DEF Held, ClaimInv, ClaimBacked
        <2>4. RowChances(k)' <= RowChances(k)
            BY <2>1, <2>2, <2>3 DEF RowChances, Count
        <2>5. /\ RowChances(k) \in Nat /\ Count(k \in requeuing) \in Nat
              /\ Cardinality(FailingRuns(k)) \in Nat /\ row[k].attempts \in Nat
              /\ IsFiniteSet(FailingRuns(k))
            BY <1>1, ChancesTypes DEF InBudget
        <2>6. RowChances(k)' \in Nat
            BY DEF RowChances, Count
        <2>7. Count(k \in requeuing)' = Count(k \in requeuing)
            BY <2>1 DEF Count
        <2>8. RowChances(k)' + Count(k \in requeuing)' + Cardinality(FailingRuns(k))'
                <= RowChances(k) + Count(k \in requeuing) + Cardinality(FailingRuns(k))
                     + 2 * (disturbances' - disturbances)
            BY <1>1, <2>1, <2>4, <2>5, <2>6, <2>7
        <2>9. QED
            BY <1>1, <2>1, <2>5, <2>8, BudgetKept
    <1>4. ASSUME NEW j \in Jobs, NEW o \in DispatchOutcomes, NextRow(j, o)
          PROVE  /\ sweep'.at = NoJob
                 /\ sweep'.phase = "expired" =>
                      sweep.phase = "expired" /\ sweep'.todo = sweep.todo \ {j}
        BY <1>1, <1>4 DEF NextRow, IdleSweep, TypeOK
    <1>5. ASSUME NEW j \in Jobs, NEW o \in DispatchOutcomes, NextRow(j, o)
          PROVE  /\ Chosen(k)' => Chosen(k)
                 /\ ~Chosen(j)'
        BY <1>4, <1>5, NoJobAssumption DEF Chosen
    <1>6. ASSUME NEW j \in Jobs, NEW o \in DispatchOutcomes, SweepDispatch(j, o)
          PROVE  InBudget(k)'
        <2>1. /\ SaveAndDispatch(j, row[j], o, TRUE) /\ worker' = worker /\ requeuing' = requeuing
              /\ Chosen(k)' => Chosen(k)
            BY <1>5, <1>6 DEF SweepDispatch
        <2>2. row'[k].state = row[k].state /\ row'[k].attempts = row[k].attempts
            <3>1. row[j] \in Row
                BY <1>1 DEF TypeOK
            <3>2. k # j => row'[k] = row[k]
                BY <1>1, <2>1, SavedRows
            <3>3. row'[j].state = row[j].state /\ row'[j].attempts = row[j].attempts
                BY <1>1, <2>1, <3>1, SavedState
            <3>4. QED
                BY <3>2, <3>3
        <2>3. FailingRuns(k)' = FailingRuns(k) /\ Held(k)' = Held(k)
            BY <2>1 DEF FailingRuns, Held
        <2>4. QED
            BY <1>1, <2>1, <2>2, <2>3, DisturbanceSteps, BudgetUntouched
    <1>7. ASSUME NEW j \in Jobs, NEW o \in DispatchOutcomes, NEW r \in Row,
                 SaveAndDispatch(j, r, o, TRUE), worker' = Revoked(j), NextRow(j, o),
                 requeuing' = requeuing, r.state \in {"queued", "failed"},
                 r.attempts = row[j].attempts,
                 k = j => RowChances(j) >= 1
          PROVE  InBudget(k)'
        <2>1. CASE k # j
            BY <1>1, <1>5, <1>7, <2>1, SaveElsewhere
        <2>2. CASE k = j
            <3>1. /\ disturbances' \in Nat /\ disturbances <= disturbances'
                  /\ RowChances(j) \in Nat /\ row[j].attempts \in Nat
                <4>1. disturbances' \in Nat /\ row[j].attempts \in Nat
                    BY <1>1, DisturbancesAssumption DEF TypeOK, Row
                <4>2. RowChances(j) \in Nat
                    BY DEF RowChances, Count
                <4>3. disturbances <= disturbances'
                    BY <1>1, <1>7, DisturbanceSteps
                <4>4. QED
                    BY <4>1, <4>2, <4>3
            <3>2. /\ Count(Chosen(j))' = 0 /\ Count(j \in requeuing)' = Count(j \in requeuing)
                  /\ Count(j \in requeuing) \in Nat
                BY <1>5, <1>7 DEF Count
            <3>3. 1 + Count(Chosen(j))' + Count(j \in requeuing)'
                    <= RowChances(j) + Count(j \in requeuing) + 2 * (disturbances' - disturbances)
                BY <1>1, <1>7, <2>2, <3>1, <3>2
            <3>4. QED
                <4>1. InBudget(j) /\ r.attempts <= row[j].attempts
                    BY <1>7, <2>2, <3>1
                <4>2. r.state \in {"absent", "queued", "failed"}
                    BY <1>7
                <4>3. InBudget(j)'
                    BY <1>1, <1>7, <3>3, <4>1, <4>2, SaveReopens
                <4>4. QED
                    BY <2>2, <4>3
        <2>3. QED
            BY <2>1, <2>2
    <1>8. \A j \in Jobs : /\ ReclaimedRow(row[j]) \in Row
                          /\ ReclaimedRow(row[j]).state = "failed"
                          /\ ReclaimedRow(row[j]).attempts = row[j].attempts
                          /\ RequeuedRow(row[j]) \in Row
                          /\ RequeuedRow(row[j]).state = "queued"
                          /\ RequeuedRow(row[j]).attempts = row[j].attempts
        <2>1. SUFFICES ASSUME NEW r \in Row
                       PROVE  /\ ReclaimedRow(r) \in Row /\ ReclaimedRow(r).state = "failed"
                              /\ ReclaimedRow(r).attempts = r.attempts
                              /\ RequeuedRow(r) \in Row /\ RequeuedRow(r).state = "queued"
                              /\ RequeuedRow(r).attempts = r.attempts
            BY <1>1 DEF TypeOK
        <2>2. QED
            BY RowTypes, WrittenRows, 0 \in Nat
    <1>9. ASSUME NEW j \in Jobs, NEW o \in DispatchOutcomes, SweepReclaim(j, o)
          PROVE  InBudget(k)'
        <2>1. RowChances(j) >= 1
            BY <1>9 DEF SweepReclaim, RowChances, Chosen, Count
        <2>2. QED
            BY <1>7, <1>8, <1>9, <2>1 DEF SweepReclaim
    <1>10. ASSUME NEW j \in Jobs, NEW o \in DispatchOutcomes, SweepRequeue(j, o)
           PROVE  InBudget(k)'
        <2>1. CASE SweepSkips(row[j]) /\ UNCHANGED <<row, broker, worker, disturbances>>
            <3>1. /\ FailingRuns(k)' = FailingRuns(k) /\ Held(k)' = Held(k)
                  /\ Chosen(k)' => Chosen(k)
                  /\ row' = row /\ requeuing' = requeuing /\ disturbances' = disturbances
                BY <1>5, <1>10, <2>1 DEF SweepRequeue, FailingRuns, Held
            <3>2. QED
                BY <1>1, <3>1, BudgetUntouched
        <2>2. CASE /\ ~SweepSkips(row[j])
                   /\ SaveAndDispatch(j, RequeuedRow(row[j]), o, TRUE)
                   /\ worker' = Revoked(j)
            <3>1. row[j].state = "leased" => ~Held(j)
                BY <2>2 DEF SweepSkips, Held, ClaimInv, ClaimBacked
            <3>2. row[j].state \in {"queued", "failed", "leased"}
                BY <1>1, <2>2 DEF SweepSkips, Finished, TypeOK, Row, States
            <3>3. RowChances(j) >= 1
                BY <3>1, <3>2 DEF RowChances, Count
            <3>4. QED
                BY <1>7, <1>8, <1>10, <2>2, <3>3 DEF SweepRequeue
        <2>3. QED
            BY <1>10, <2>1, <2>2 DEF SweepRequeue
    <1>11. ASSUME NEW j \in Jobs, SweepPauses(j) PROVE InBudget(k)'
        <2>1. /\ FailingRuns(k)' = FailingRuns(k) /\ row' = row
              /\ Held(k)' = Held(k) /\ Count(k \in requeuing)' = Count(k \in requeuing)
              /\ disturbances' = disturbances + 1
            BY <1>11 DEF SweepPauses, FailingRuns, Held, Count, Disturb
        <2>2. /\ RowChances(k) \in Nat /\ RowChances(k)' \in Nat
              /\ RowChances(k)' <= RowChances(k) + 1
            BY <2>1 DEF RowChances, Count
        <2>3. /\ Count(k \in requeuing) \in Nat /\ row[k].attempts \in Nat
              /\ Cardinality(FailingRuns(k)) \in Nat /\ IsFiniteSet(FailingRuns(k))
            BY <1>1, ChancesTypes DEF InBudget
        <2>4. RowChances(k)' + Count(k \in requeuing)' + Cardinality(FailingRuns(k))'
                <= RowChances(k) + Count(k \in requeuing) + Cardinality(FailingRuns(k))
                     + 2 * (disturbances' - disturbances)
            BY <1>1, <2>1, <2>2, <2>3
        <2>5. QED
            BY <1>1, <2>1, <2>3, <2>4, BudgetKept
    <1>12. ASSUME NEW j \in Jobs, NEW o \in DispatchOutcomes, SweepResumes(j, o)
           PROVE  InBudget(k)'
        <2>1. RowChances(j) >= 1
            BY <1>12 DEF SweepResumes, RowChances, Chosen, Count
        <2>2. QED
            BY <1>7, <1>8, <1>12, <2>1 DEF SweepResumes
    <1>13. QED
        BY <1>2, <1>3, <1>6, <1>9, <1>10, <1>11, <1>12 DEF Sweep

(* A request that opens a row again has cost a disturbance: when it is made, *)
(* or, for a hint, when the hint was checked.                               *)
LEMMA RequestBudget ==
    ASSUME ClaimInv, TypeOK', Request, NEW k \in Jobs, InBudget(k)
    PROVE  InBudget(k)'
    <1>1. /\ TypeOK /\ disturbances \in Nat /\ disturbances' \in Nat
          /\ \A j \in Jobs : row[j].attempts \in Nat
        BY DisturbancesAssumption DEF ClaimInv, TypeOK, Row
    <1>2. \A j \in Jobs : /\ RowChances(j) \in Nat /\ Count(Chosen(j)) \in 0..1
                          /\ RowChances(j) >= Count(Chosen(j))
                          /\ Count(j \in requeuing) \in 0..1
        BY DEF RowChances, Count
    <1>3. SUFFICES ASSUME NEW j \in Jobs, NEW o \in DispatchOutcomes,
                          Enqueue(j, o) \/ Nudge(j, o) \/ RetryPublication(j, o)
                   PROVE  InBudget(k)'
        BY DEF Request
    <1>4. sweep' = sweep /\ Chosen(k)' = Chosen(k) /\ Count(Chosen(j))' = Count(Chosen(j))
        BY <1>3 DEF Enqueue, Nudge, RetryPublication, Chosen, Count
    <1>5. \A r \in Row :
            /\ QueuedRow(r) \in Row /\ QueuedRow(r).attempts = r.attempts
            /\ r.state \in {"absent", "queued", "failed"} =>
                  QueuedRow(r).state \in {"absent", "queued", "failed"}
            /\ RevivedRow(r) \in Row /\ RevivedRow(r).state = "queued" /\ RevivedRow(r).attempts = 0
            /\ RequeuedRow(r) \in Row /\ RequeuedRow(r).state = "queued"
            /\ RequeuedRow(r).attempts = r.attempts
        <2>1. SUFFICES ASSUME NEW r \in Row
              PROVE
                /\ QueuedRow(r) \in Row /\ QueuedRow(r).attempts = r.attempts
                /\ r.state \in {"absent", "queued", "failed"} =>
                      QueuedRow(r).state \in {"absent", "queued", "failed"}
                /\ RevivedRow(r) \in Row /\ RevivedRow(r).state = "queued"
                /\ RevivedRow(r).attempts = 0
                /\ RequeuedRow(r) \in Row /\ RequeuedRow(r).state = "queued"
                /\ RequeuedRow(r).attempts = r.attempts
            OBVIOUS
        <2>2. QED
            BY RowTypes, WrittenRows, 0 \in Nat
    <1>6. row[j] \in Row
        BY <1>1 DEF TypeOK
    <1>7. PICK r \in Row, free \in BOOLEAN :
            /\ SaveAndDispatch(j, r, o, free)
            /\ worker' = worker \/ worker' = Revoked(j)
            /\ r.state \in {"absent", "queued", "failed"} /\ r.attempts <= row[j].attempts
            /\ \/ free /\ row[j].state \in {"absent", "queued", "failed"} /\ requeuing' = requeuing
               \/ ~free /\ requeuing' = requeuing
               \/ free /\ j \in requeuing /\ requeuing' = requeuing \ {j}
        <2>1. CASE Enqueue(j, o)
            <3>1. CASE row[j].state \in {"absent", "queued", "failed"}
                <4>1. SaveAndDispatch(j, QueuedRow(row[j]), o, TRUE)
                    BY <2>1, <3>1 DEF Enqueue
                <4>2. QueuedRow(row[j]).attempts <= row[j].attempts
                    BY <1>1, <1>5, <1>6
                <4>3. requeuing' = requeuing /\ worker' = worker
                    BY <2>1 DEF Enqueue
                <4>4. QED
                    BY <1>5, <1>6, <3>1, <4>1, <4>2, <4>3
            <3>2. CASE ~(row[j].state \in {"absent", "queued", "failed"})
                <4>1. SaveAndDispatch(j, RevivedRow(row[j]), o, FALSE)
                    BY <2>1, <3>2 DEF Enqueue
                <4>2. RevivedRow(row[j]).attempts <= row[j].attempts
                    BY <1>1, <1>5, <1>6
                <4>3. requeuing' = requeuing /\ worker' = worker
                    BY <2>1 DEF Enqueue
                <4>4. QED
                    BY <1>5, <1>6, <4>1, <4>2, <4>3
            <3>3. QED
                BY <3>1, <3>2
        <2>2. RequeuedRow(row[j]).attempts <= row[j].attempts
            BY <1>1, <1>5, <1>6
        <2>3. CASE Nudge(j, o)
            <3>1. /\ SaveAndDispatch(j, RequeuedRow(row[j]), o, TRUE) /\ worker' = Revoked(j)
                  /\ j \in requeuing /\ requeuing' = requeuing \ {j}
                BY <2>3 DEF Nudge
            <3>2. QED
                BY <1>5, <1>6, <2>2, <3>1
        <2>4. CASE RetryPublication(j, o)
            <3>1. /\ SaveAndDispatch(j, RequeuedRow(row[j]), o, FALSE) /\ worker' = Revoked(j)
                  /\ requeuing' = requeuing
                BY <2>4 DEF RetryPublication
            <3>2. QED
                BY <1>5, <1>6, <2>2, <3>1
        <2>5. QED
            BY <1>3, <2>1, <2>3, <2>4
    <1>8. CASE k # j
        BY <1>1, <1>4, <1>7, <1>8, SaveElsewhere
    <1>9. CASE k = j
        <2>1. disturbances <= disturbances' /\ (~free => disturbances' = disturbances + 1)
            BY <1>1, <1>7, DisturbanceSteps
        <2>2. row[j].state \in {"absent", "queued", "failed"} =>
                RowChances(j) = 1 + Count(Chosen(j))
            BY DEF RowChances
        <2>3. /\ requeuing' = requeuing => Count(j \in requeuing)' = Count(j \in requeuing)
              /\ j \in requeuing /\ requeuing' = requeuing \ {j} =>
                    Count(j \in requeuing) = 1 /\ Count(j \in requeuing)' = 0
            BY DEF Count
        <2>4. 1 + Count(Chosen(j))' + Count(j \in requeuing)'
                <= RowChances(j) + Count(j \in requeuing) + 2 * (disturbances' - disturbances)
            BY <1>1, <1>2, <1>4, <1>7, <2>1, <2>2, <2>3
        <2>5. InBudget(j)'
            BY <1>1, <1>7, <1>9, <2>4, SaveReopens
        <2>6. QED
            BY <1>9, <2>5
    <1>10. QED
        BY <1>8, <1>9

LEMMA EnvironmentBudget ==
    ASSUME ClaimInv, TypeOK', Environment, NEW k \in Jobs, InBudget(k)
    PROVE  InBudget(k)'
    <1>1. /\ TypeOK /\ disturbances \in Nat /\ row[k].attempts \in Nat
        BY DisturbancesAssumption DEF ClaimInv, TypeOK, Row
    <1>2. ASSUME NEW j \in Jobs, LeaseExpires(j) PROVE InBudget(k)'
        BY <1>2, ExpiryBudget
    <1>3. ASSUME NEW j \in Jobs, BackoffElapses(j) \/ DispatchAges(j) \/ LoseMessage(j)
          PROVE  InBudget(k)'
        <2>1. row'[k].state = row[k].state /\ row'[k].attempts = row[k].attempts
            BY <1>1, <1>3 DEF BackoffElapses, DispatchAges, LoseMessage, TypeOK, Row
        <2>2. /\ FailingRuns(k)' = FailingRuns(k) /\ Held(k)' = Held(k)
              /\ Chosen(k)' = Chosen(k) /\ requeuing' = requeuing
            BY <1>3 DEF BackoffElapses, DispatchAges, LoseMessage, FailingRuns, Held, Chosen
        <2>3. disturbances <= disturbances'
            BY <1>1, <1>3 DEF BackoffElapses, DispatchAges, LoseMessage, Disturb
        <2>4. QED
            BY <1>1, <2>1, <2>2, <2>3, BudgetUntouched
    <1>4. ASSUME NEW j \in Jobs, NudgeCheck(j) PROVE InBudget(k)'
        <2>1. /\ FailingRuns(k)' = FailingRuns(k) /\ RowChances(k)' = RowChances(k)
              /\ row' = row /\ disturbances' = disturbances + 1
            BY <1>4 DEF NudgeCheck, FailingRuns, RowChances, Held, Chosen, Count, Disturb
        <2>2. /\ RowChances(k) \in Nat /\ Count(k \in requeuing) \in Nat
              /\ Cardinality(FailingRuns(k)) \in Nat /\ IsFiniteSet(FailingRuns(k))
            BY <1>1, ChancesTypes DEF InBudget
        <2>3. Count(k \in requeuing)' \in 0..1
            BY DEF Count
        <2>4. RowChances(k)' + Count(k \in requeuing)' + Cardinality(FailingRuns(k))'
                <= RowChances(k) + Count(k \in requeuing) + Cardinality(FailingRuns(k))
                     + 2 * (disturbances' - disturbances)
            BY <1>1, <2>1, <2>2, <2>3
        <2>5. QED
            BY <1>1, <2>1, <2>2, <2>4, BudgetKept
    <1>5. QED
        BY <1>2, <1>3, <1>4 DEF Environment

(* The retry budget, for any number of overlapping workers: without a        *)
(* disturbance one chance is open, each disturbance opens at most two, and  *)
(* a lease beyond the budget closes one for good.                           *)
THEOREM RetryBudgetHolds == Spec => []RetryBudget
    <1>1. Init /\ TypeOK => BudgetInv
        <2> SUFFICES ASSUME Init, TypeOK PROVE BudgetInv
            OBVIOUS
        <2>1. ClaimInv
            BY DEF Init, ClaimInv, ClaimBacked, OneClaim, IdleSlot
        <2>2. ASSUME NEW j \in Jobs PROVE InBudget(j)
            <3>1. FailingRuns(j) = {}
                BY NoJobAssumption DEF Init, FailingRuns, IdleSlot
            <3>2. IsFiniteSet(FailingRuns(j)) /\ Cardinality(FailingRuns(j)) = 0
                BY <3>1, FS_EmptySet
            <3>3. RowChances(j) = 1 /\ Count(j \in requeuing) = 0 /\ row[j].attempts = 0
                BY NoJobAssumption DEF Init, RowChances, Count, Chosen, IdleSweep, NoRow
            <3>4. disturbances = 0
                BY DEF Init
            <3>5. QED
                BY <3>2, <3>3, <3>4, MaxAttemptsAssumption DEF InBudget, Chances
        <2>3. QED
            BY <2>1, <2>2 DEF BudgetInv
    <1>2. BudgetInv /\ TypeOK' /\ [Next]_vars => BudgetInv'
        <2> SUFFICES ASSUME BudgetInv, TypeOK', [Next]_vars PROVE BudgetInv'
            OBVIOUS
        <2>1. ClaimInv /\ \A k \in Jobs : InBudget(k)
            BY DEF BudgetInv
        <2>2. ClaimInv'
            <3>1. CASE Next
                BY <2>1, <3>1, WorkerStepClaim, SweepClaim, RequestClaim, EnvironmentClaim
                DEF Next
            <3>2. CASE UNCHANGED vars
                BY <2>1, <3>2, ClaimsUntouched DEF vars
            <3>3. QED
                BY <3>1, <3>2
        <2>3. ASSUME NEW k \in Jobs PROVE InBudget(k)'
            <3>1. CASE Next
                BY <2>1, <3>1, WorkerStepBudget, SweepBudget, RequestBudget, EnvironmentBudget
                DEF Next
            <3>2. CASE UNCHANGED vars
                BY <2>1, <3>2
                DEF vars, InBudget, Chances, RowChances, FailingRuns, Held, Chosen, Count
            <3>3. QED
                BY <3>1, <3>2
        <2>4. QED
            BY <2>2, <2>3 DEF BudgetInv
    <1>3. BudgetInv => RetryBudget
        <2> SUFFICES ASSUME BudgetInv, NEW j \in Jobs
                     PROVE  row[j].attempts <= MaxAttempts + 2 * disturbances
            BY DEF RetryBudget
        <2>1. InBudget(j) /\ TypeOK
            BY DEF BudgetInv, ClaimInv
        <2>2. Chances(j) \in Nat /\ row[j].attempts \in Nat /\ disturbances \in Nat
            BY <2>1, ChancesTypes DEF InBudget
        <2>3. QED
            BY <2>1, <2>2, MaxAttemptsAssumption DEF InBudget
    <1>4. QED
        BY <1>1, <1>2, <1>3, TypeCorrect, PTL DEF Spec
=============================================================================
