------------------------ MODULE AuthorIdentityProofs ------------------------
(***************************************************************************)
(* Theorems about AuthorIdentity and the Projection it composes with, for    *)
(* every set of accounts, of registered authors and of refreshing processes *)
(* and every bound.                                                         *)
(***************************************************************************)
EXTENDS AuthorIdentity, TLAPS, FiniteSetTheorems, WellFoundedInduction

-----------------------------------------------------------------------------
(* The inductive invariant.                                                 *)

JobStates == {"none", "queued", "succeeded", "dead"}

ReaderRow == [step: {"idle", "read", "stamped", "cleared"}, sha: Nat, time: Nat, job: Nat, old: SUBSET Nat]

RegistryTypes ==
    /\ main \in Seq(SUBSET Nat)
    /\ refresh \in Seq(JobStates) /\ Len(refresh) = Len(main)
    /\ fetched \in 1..Len(main)

ReaderTypes ==
    /\ reader \in [Readers -> ReaderRow]
    /\ \A w \in Readers : \/ reader[w] = NoRead
                          \/ /\ reader[w].step # "idle"
                             /\ reader[w].sha \in 1..Len(main)
                             /\ reader[w].job \in 0..Len(main)

SnapshotTypes ==
    /\ DOMAIN snapshot \subseteq 1..Len(main)
    /\ \A k \in DOMAIN snapshot : snapshot[k] \in Row
    /\ stamps \in Nat /\ failures \in 0..MaxFailures
    /\ disordered \in BOOLEAN /\ missed \in BOOLEAN

ProjectionTypes == RegistryTypes /\ ReaderTypes /\ SnapshotTypes

Publication == [stage: Stages, base: Nat]

IdentityTypes ==
    /\ binding \in [Accounts -> Binding]
    /\ claim \in [Accounts -> [Claimable -> {"none", "requested", "verified", "denied"}]]
    /\ claiming \in [Accounts -> {"none", "created", "read"}]
    /\ registration \in [Accounts -> JobStates]
    /\ reservation \in [Accounts -> Nat]
    /\ publication \in [Accounts -> Publication]
    /\ granted \in [Accounts -> SUBSET Claimable]

(* The registry only grows, from the authors registered before, and has      *)
(* finitely many of them at any time.                                       *)
RegistryGrows ==
    /\ \A k \in 1..Len(main) : Existing \subseteq main[k] /\ IsFiniteSet(main[k])
    /\ \A j, k \in 1..Len(main) : j <= k => main[j] \subseteq main[k]

ReservedIds == {reservation[a] : a \in Accounts}

(* A reserved id is new, and of one account.                                *)
ReservedIsNew ==
    /\ IsFiniteSet(ReservedIds)
    /\ \A a \in Accounts : reservation[a] # NoId =>
          /\ reservation[a] \notin Existing
          /\ \A b \in Accounts : reservation[b] = reservation[a] => b = a

(* An account's id is the one reserved for it or one granted to it, and a    *)
(* binding that has a publication has an id.                                *)
IdIsOwn ==
    \A a \in Accounts :
        /\ binding[a].id \in {NoId, reservation[a]} \cup granted[a]
        /\ binding[a].publication =>
              binding[a].id # NoId /\ publication[a].stage # "none"

IdsAreDistinct ==
    \A a, b \in Accounts : binding[a].id = binding[b].id /\ binding[a].id # NoId => a = b

(* A publication that was merged put the reserved id on the default branch;  *)
(* one that was verified has had the refresh of its commit queued; and a     *)
(* registered binding has a verified publication.                           *)
Merged(a) == publication[a].stage \in {"merged", "verified"}

PublishedIsMerged ==
    \A a \in Accounts :
        /\ publication[a].stage = "open" => publication[a].base \in 1..Len(main)
        /\ Merged(a) => /\ MergeCommit(a) \in 1..Len(main)
                        /\ reservation[a] \in main[MergeCommit(a)]
        /\ publication[a].stage # "none" => reservation[a] # NoId
        /\ binding[a].state = "registered" => publication[a].stage = "verified" /\ binding[a].id # NoId

(* Unless a fetch was missed, a refresh reads the commit it was queued for,  *)
(* and has a row for it once it succeeded.                                  *)
RefreshedIsRead ==
    ~missed =>
        /\ \A w \in Readers : reader[w].job # 0 => reader[w].sha = reader[w].job
        /\ \A k \in 1..Len(main) : refresh[k] = "succeeded" => k \in DOMAIN snapshot

(* Unless commits were refreshed out of order, rows and refreshes in         *)
(* progress were stamped in the order of their commits; the newest row is    *)
(* current, and no transaction is about to clear a newer row than its own.   *)
Before(s, t, k, time) == (s < k => t < time) /\ (s > k => t > time)

ReadInOrder ==
    ~disordered =>
        /\ \A k \in DOMAIN snapshot :
              /\ snapshot[k].time <= stamps
              /\ \A j \in DOMAIN snapshot : Before(j, snapshot[j].time, k, snapshot[k].time)
        /\ \A w \in Readers : Stamped(w) =>
              /\ reader[w].time <= stamps
              /\ \A k \in DOMAIN snapshot :
                    Before(k, snapshot[k].time, reader[w].sha, reader[w].time)
              /\ \A v \in Readers : Stamped(v) =>
                    Before(reader[v].sha, reader[v].time, reader[w].sha, reader[w].time)

NewestIsCurrent ==
    ~disordered =>
        /\ \E m \in DOMAIN snapshot :
              snapshot[m].current /\ \A k \in DOMAIN snapshot : k <= m
        /\ \A w \in Readers : reader[w].step = "cleared" =>
              \A k \in reader[w].old : k <= reader[w].sha

Inductive ==
    /\ ProjectionTypes /\ IdentityTypes
    /\ RegistryGrows /\ ReservedIsNew /\ IdIsOwn /\ IdsAreDistinct
    /\ PublishedIsMerged /\ RefreshedIsRead /\ ReadInOrder /\ NewestIsCurrent

-----------------------------------------------------------------------------
(* Numbers.                                                                 *)

(* A finite set of numbers has a greatest: the smallest set without one      *)
(* would still lack it after losing an element.                             *)
LEMMA FiniteHasGreatest ==
    ASSUME NEW S, S \subseteq Nat, IsFiniteSet(S), S # {}
    PROVE  \E m \in S : \A n \in S : n <= m
<1> DEFINE Unbounded == {T \in SUBSET S : T # {} /\ ~\E m \in T : \A n \in T : n <= m}
           Sizes == {Cardinality(T) : T \in Unbounded}
<1> SUFFICES ASSUME Unbounded # {} PROVE FALSE
  OBVIOUS
<1>1. \A T \in Unbounded : IsFiniteSet(T) /\ Cardinality(T) \in Nat
  BY FS_Subset, FS_CardinalityType
<1>2. Sizes \subseteq Nat /\ Sizes # {}
  BY <1>1
<1>3. PICK s \in Sizes : \A r \in Sizes : ~(r < s)
  <2> HIDE DEF Sizes
  <2>1. PICK s \in Sizes : \A r \in Sizes : <<r, s>> \notin OpToRel(<, Nat)
    BY <1>2, NatLessThanWellFounded, WFMin
  <2> QED
    BY <1>2, <2>1, Zenon DEF OpToRel
<1>4. PICK T \in Unbounded : s = Cardinality(T)
  BY <1>3
<1>5. PICK x \in T : TRUE
  BY <1>4
<1>6. IsFiniteSet(T \ {x}) /\ Cardinality(T \ {x}) = Cardinality(T) - 1
  <2>1. IsFiniteSet(T)
    BY <1>1, <1>4
  <2> HIDE DEF Unbounded, Sizes
  <2> QED
    BY <2>1, <1>5, FS_RemoveElement
<1>7. T \ {x} \notin Unbounded
  <2>1. Cardinality(T \ {x}) < s
    BY <1>1, <1>4, <1>6
  <2> QED
    BY <1>3, <2>1
<1>8. PICK m \in T : \A n \in T \ {x} : n <= m
  BY <1>4, <1>5, <1>7
<1>9. \A n \in T : n \in Nat
  BY <1>4
<1>10. (\A n \in T : n <= m) \/ (\A n \in T : n <= x)
  BY <1>5, <1>8, <1>9
<1> QED
  BY <1>4, <1>5, <1>8, <1>10

(* The id register_author reserves is above those of the commit it has and  *)
(* above those reserved before.                                             *)
LEMMA NextIdIsNew ==
    ASSUME ProjectionTypes, IdentityTypes, RegistryGrows, ReservedIsNew
    PROVE  /\ NextId \in Nat /\ NextId # NoId
           /\ NextId \notin Existing
           /\ \A a \in Accounts : reservation[a] # NextId
<1> DEFINE Taken == main[fetched] \cup ReservedIds
<1>1. /\ main[fetched] \in SUBSET Nat /\ IsFiniteSet(main[fetched])
      /\ Existing \subseteq main[fetched]
  BY DEF ProjectionTypes, RegistryTypes, RegistryGrows
<1>2. ReservedIds \subseteq Nat /\ IsFiniteSet(ReservedIds)
  BY DEF ReservedIds, IdentityTypes, ReservedIsNew
<1>3. Taken \subseteq Nat /\ IsFiniteSet(Taken) /\ Taken # {}
  BY <1>1, <1>2, FS_Union, AccountsAssumption
<1>4. \E m \in Taken : \A n \in Taken : m >= n
  <2> HIDE DEF Taken
  <2>1. PICK m \in Taken : \A n \in Taken : n <= m
    BY <1>3, FiniteHasGreatest
  <2> QED
    BY <1>3, <2>1
<1>5. Max(Taken) \in Taken /\ \A n \in Taken : Max(Taken) >= n
  <2> HIDE DEF Taken
  <2> QED
    BY <1>4 DEF Max
<1>6. NextId = Max(Taken) + 1
  BY DEF NextId, ReservedIds
<1> DEFINE top == Max(Taken)
<1>7. NextId = top + 1 /\ top \in Nat /\ \A n \in Taken : n \in Nat /\ top >= n
  BY <1>3, <1>5, <1>6
<1> HIDE DEF top
<1>8. NextId \in Nat /\ NextId # NoId /\ \A n \in Taken : NextId # n
  BY <1>7 DEF NoId
<1>9. Existing \subseteq Taken /\ \A a \in Accounts : reservation[a] \in Taken
  BY <1>1 DEF ReservedIds
<1> QED
  BY <1>8, <1>9

LEMMA ReservedIsANumber ==
    ASSUME ProjectionTypes, IdentityTypes, RegistryGrows, ReservedIsNew, NEW a \in Accounts
    PROVE  Reserved(a) \in Nat /\ Reserved(a) # NoId
BY NextIdIsNew DEF Reserved, IdentityTypes

-----------------------------------------------------------------------------
(* What a step does to the projection.                                      *)

Holds ==
    /\ UNCHANGED <<registry, refresh, reader, projected>>
    /\ failures' \in 0..MaxFailures

Grows ==
    \E authors \in SUBSET Nat :
        /\ main[Len(main)] \subseteq authors
        /\ IsFiniteSet(main[Len(main)]) => IsFiniteSet(authors)
        /\ Advance(authors, "none")
        /\ UNCHANGED <<fetched, reader, projected, failures>>

Queues ==
    \E k \in 1..Len(main) :
        /\ refresh' = [refresh EXCEPT ![k] = IF @ = "none" THEN "queued" ELSE @]
        /\ UNCHANGED <<registry, reader, projected, failures>>

ReadsAt(w, sha, job) ==
    /\ reader[w] = NoRead
    /\ reader' = [reader EXCEPT ![w] = [step |-> "read", sha |-> sha, time |-> 0,
                                        job |-> job, old |-> {}]]
    /\ UNCHANGED <<stamps, disordered>>
    /\ \/ missed' = missed /\ (job # 0 => sha = job)
       \/ missed' = TRUE
    /\ fetched' \in 1..Len(main) /\ failures' \in 0..MaxFailures
    /\ UNCHANGED <<main, snapshot, refresh>>

Reads(w) == \E sha \in 1..Len(main), job \in 0..Len(main) : ReadsAt(w, sha, job)

LEMMA Failing ==
    ASSUME SnapshotTypes
    PROVE  Fail => failures' \in 0..MaxFailures
BY ReadersAssumption DEF Fail, SnapshotTypes

LEMMA RefreshReads ==
    ASSUME ProjectionTypes, NEW w \in Readers, NEW k \in DOMAIN refresh, Refresh(w, k)
    PROVE  Reads(w)
<1>1. k \in 1..Len(main) /\ k \in 0..Len(main) /\ fetched \in 1..Len(main)
  BY DEF ProjectionTypes, RegistryTypes
<1>2. Len(main) \in 1..Len(main)
  BY <1>1
<1>3. failures \in 0..MaxFailures /\ (Fail => failures' \in 0..MaxFailures)
  BY Failing DEF ProjectionTypes, SnapshotTypes
<1>4. CASE Read(w, k, IF k <= fetched THEN fetched ELSE Len(main), k)
           /\ UNCHANGED <<missed, failures>>
  <2>1. fetched' \in 1..Len(main)
    BY <1>1, <1>2, <1>4 DEF Read
  <2>2. ReadsAt(w, k, k)
    BY <1>3, <1>4, <2>1 DEF ReadsAt, Read, Refresh
  <2> QED
    BY <1>1, <2>2 DEF Reads
<1>5. CASE k > fetched /\ Read(w, fetched, fetched, k) /\ missed' = TRUE /\ Fail
  <2>1. ReadsAt(w, fetched, k)
    BY <1>1, <1>3, <1>5 DEF ReadsAt, Read, Refresh
  <2> QED
    BY <1>1, <2>1 DEF Reads
<1> QED
  BY <1>4, <1>5 DEF Refresh

LEMMA ReindexReads ==
    ASSUME ProjectionTypes, NEW w \in Readers, Reindex(w)
    PROVE  Reads(w)
<1>1. Len(main) \in 1..Len(main) /\ 0 \in 0..Len(main)
  BY DEF ProjectionTypes, RegistryTypes
<1>2. failures \in 0..MaxFailures
  BY DEF ProjectionTypes, SnapshotTypes
<1>3. ReadsAt(w, Len(main), 0)
  BY <1>1, <1>2 DEF ReadsAt, Read, Reindex
<1> QED
  BY <1>1, <1>3 DEF Reads

LEMMA ProjectionSteps ==
    ASSUME ProjectionTypes, IdentityTypes, PublishedIsMerged, [Next]_vars
    PROVE  \/ Holds \/ Grows \/ Queues
           \/ \E w \in Readers : Reads(w) \/ Stamp(w) \/ Clear(w) \/ Write(w) \/ Interrupted(w)
<1>1. failures \in 0..MaxFailures /\ (Fail => failures' \in 0..MaxFailures)
  BY Failing DEF ProjectionTypes, SnapshotTypes
<1>2. main[Len(main)] \in SUBSET Nat
  BY DEF ProjectionTypes, RegistryTypes
<1>3. CASE UNCHANGED vars
  BY <1>1, <1>3 DEF Holds, vars, projection, registry, projected
<1>4. ASSUME NEW a \in Accounts, StartRegistration(a) PROVE Holds
  BY <1>1, <1>4 DEF Holds, StartRegistration, projection, registry, projected
<1>5. ASSUME NEW a \in Accounts, Registers(a) PROVE Holds
  BY <1>1, <1>5 DEF Holds, Registers, RegisterNothing, RegisterWaits, RegisterNameless, Register,
                    Ends, registry, projected
<1>6. ASSUME NEW a \in Accounts, NEW x \in Claimable,
             Claim(a, x) \/ Verify(a, x) \/ Deny(a, x) \/ OperatorLinks(a, x)
      PROVE  Holds
  BY <1>1, <1>6 DEF Holds, Claim, Verify, Deny, OperatorLinks, projection, registry, projected
<1>13. ASSUME NEW a \in Accounts, ClaimReads(a) \/ ClaimMarks(a)
       PROVE  Holds
  BY <1>1, <1>13 DEF Holds, ClaimReads, ClaimMarks, projection, registry, projected
<1>7. ASSUME NEW a \in Accounts, BranchOff(a) \/ Abandon(a) \/ Release(a) \/ Restart(a)
      PROVE  Holds
  BY <1>1, <1>7 DEF Holds, BranchOff, Abandon, Release, Restart, projection, registry, projected
<1>8. ASSUME NEW a \in Accounts, PublisherDies(a) PROVE Holds
  BY <1>1, <1>8 DEF Holds, PublisherDies, registry, projected
<1>9. ASSUME NEW a \in Accounts, Merge(a) PROVE Grows
  <2> DEFINE authors == main[Len(main)] \cup {reservation[a]}
  <2>1. authors \in SUBSET Nat /\ main[Len(main)] \subseteq authors
    BY <1>2 DEF IdentityTypes
  <2>2. IsFiniteSet(main[Len(main)]) => IsFiniteSet(authors)
    BY FS_AddElement
  <2>3. Advance(authors, "none") /\ UNCHANGED <<fetched, reader, projected, failures>>
    BY <1>9 DEF Merge
  <2> HIDE DEF authors
  <2> QED
    BY <2>1, <2>2, <2>3 DEF Grows
<1>10. CASE OtherCommits
  BY <1>2, <1>10 DEF Grows, OtherCommits
<1>11. ASSUME NEW a \in Accounts, Confirm(a) PROVE Queues
  <2>1. MergeCommit(a) \in 1..Len(main)
    BY <1>11 DEF Confirm, PublishedIsMerged, Merged
  <2> QED
    BY <1>11, <2>1 DEF Confirm, Queues
<1>12. CASE ProjectionNext
  BY <1>12, RefreshReads, ReindexReads DEF ProjectionNext
<1> QED
  BY <1>3, <1>4, <1>5, <1>6, <1>7, <1>8, <1>9, <1>10, <1>11, <1>12, <1>13
     DEF Next, Publishes

(* A commit is appended and the others stay.                                *)
LEMMA AdvanceFacts ==
    ASSUME RegistryTypes, NEW authors \in SUBSET Nat, Advance(authors, "none")
    PROVE  /\ main' \in Seq(SUBSET Nat) /\ Len(main') = Len(main) + 1
           /\ \A k \in 1..Len(main) : main'[k] = main[k]
           /\ main'[Len(main) + 1] = authors
           /\ refresh' \in Seq(JobStates) /\ Len(refresh') = Len(main')
           /\ \A k \in 1..Len(main) : refresh'[k] = refresh[k]
           /\ refresh'[Len(main) + 1] = "none"
<1>1. "none" \in JobStates
  BY DEF JobStates
<1> QED
  BY <1>1 DEF Advance, RegistryTypes

(* Commits are only added, each with the authors of the one before.          *)
LEMMA MainGrows ==
    ASSUME ProjectionTypes, IdentityTypes, PublishedIsMerged, [Next]_vars
    PROVE  /\ main' \in Seq(SUBSET Nat) /\ Len(main) <= Len(main')
           /\ \A k \in 1..Len(main) : main'[k] = main[k]
           /\ refresh' \in Seq(JobStates) /\ Len(refresh') = Len(main')
           /\ \A k \in 1..Len(main) : refresh[k] # "none" => refresh'[k] # "none"
<1> USE DEF ProjectionTypes
<1>1. ASSUME UNCHANGED <<main, refresh>>
      PROVE  /\ main' \in Seq(SUBSET Nat) /\ Len(main) <= Len(main')
             /\ \A k \in 1..Len(main) : main'[k] = main[k]
             /\ refresh' \in Seq(JobStates) /\ Len(refresh') = Len(main')
             /\ \A k \in 1..Len(main) : refresh[k] # "none" => refresh'[k] # "none"
  BY <1>1 DEF RegistryTypes
<1>2. ASSUME NEW j \in 1..Len(main), NEW s \in JobStates,
             refresh' = [refresh EXCEPT ![j] = s], s # "none", main' = main
      PROVE  /\ main' \in Seq(SUBSET Nat) /\ Len(main) <= Len(main')
             /\ \A k \in 1..Len(main) : main'[k] = main[k]
             /\ refresh' \in Seq(JobStates) /\ Len(refresh') = Len(main')
             /\ \A k \in 1..Len(main) : refresh[k] # "none" => refresh'[k] # "none"
  BY <1>2 DEF RegistryTypes
<1>3. CASE Holds
  BY <1>1, <1>3 DEF Holds, registry
<1>4. CASE Grows
  <2>1. PICK authors \in SUBSET Nat : Advance(authors, "none")
    BY <1>4 DEF Grows
  <2> QED
    BY <2>1, AdvanceFacts DEF RegistryTypes
<1>5. CASE Queues
  <2>1. PICK k \in 1..Len(main) :
          /\ refresh' = [refresh EXCEPT ![k] = IF @ = "none" THEN "queued" ELSE @]
          /\ main' = main
    BY <1>5 DEF Queues, registry
  <2>2. PICK s \in JobStates : s = (IF refresh[k] = "none" THEN "queued" ELSE refresh[k])
    BY <2>1 DEF RegistryTypes, JobStates
  <2>3. refresh' = [refresh EXCEPT ![k] = s] /\ s # "none"
    BY <2>1, <2>2
  <2> QED
    BY <1>2, <2>1, <2>3
<1>6. ASSUME NEW w \in Readers, Reads(w) \/ Stamp(w) \/ Clear(w)
      PROVE  UNCHANGED <<main, refresh>>
  BY <1>6 DEF Reads, ReadsAt, Stamp, Clear, registry
<1>7. ASSUME NEW w \in Readers, Write(w) \/ Interrupted(w)
      PROVE  \/ UNCHANGED <<main, refresh>>
             \/ \E j \in 1..Len(main), s \in JobStates \ {"none"} :
                   refresh' = [refresh EXCEPT ![j] = s] /\ main' = main
  <2>1. reader[w].job # 0 => reader[w].job \in 1..Len(main)
    BY DEF ReaderTypes, RegistryTypes, NoRead
  <2> QED
    BY <1>7, <2>1 DEF Write, Interrupted, Finished, registry, JobStates
<1> QED
  BY <1>1, <1>2, <1>3, <1>4, <1>5, <1>6, <1>7, ProjectionSteps

-----------------------------------------------------------------------------
(* What a refresh writes.                                                   *)
LEMMA WriteFacts ==
    ASSUME ProjectionTypes, NEW w \in Readers, Write(w)
    PROVE  LET sha == reader[w].sha
           IN  /\ reader[w] # NoRead /\ sha \in 1..Len(main)
               /\ DOMAIN snapshot' = DOMAIN snapshot \cup {sha}
               /\ snapshot'[sha] = [current |-> TRUE, time |-> reader[w].time]
               /\ \A k \in DOMAIN snapshot \ {sha} :
                     /\ snapshot'[k] \in Row
                     /\ snapshot'[k].time = snapshot[k].time
                     /\ k \notin reader[w].old => snapshot'[k] = snapshot[k]
               /\ reader' = [reader EXCEPT ![w] = NoRead]
               /\ UNCHANGED <<main, fetched, stamps, disordered, missed, failures>>
<1> USE DEF ProjectionTypes
<1> DEFINE sha == reader[w].sha
<1>1. reader[w] # NoRead /\ sha \in 1..Len(main)
  BY DEF Write, ReaderTypes, NoRead
<1>2. snapshot' = [k \in DOMAIN snapshot \cup {sha} |->
                     IF k = sha THEN [current |-> TRUE, time |-> reader[w].time]
                     ELSE IF k \in reader[w].old THEN [snapshot[k] EXCEPT !.current = FALSE]
                     ELSE snapshot[k]]
  BY DEF Write
<1>3. \A k \in DOMAIN snapshot \ {sha} :
         /\ snapshot'[k] \in {snapshot[k], [snapshot[k] EXCEPT !.current = FALSE]}
         /\ snapshot[k] \in Row
  BY <1>2 DEF SnapshotTypes
<1>4. \A k \in DOMAIN snapshot \ {sha} :
         snapshot'[k] \in Row /\ snapshot'[k].time = snapshot[k].time
  BY <1>3 DEF Row
<1>5. /\ reader' = [reader EXCEPT ![w] = NoRead]
      /\ UNCHANGED <<main, fetched, stamps, disordered, missed, failures>>
  BY DEF Write, registry
<1>6. \A k \in DOMAIN snapshot \ {sha} : k \notin reader[w].old => snapshot'[k] = snapshot[k]
  BY <1>2
<1> QED
  BY <1>1, <1>2, <1>4, <1>5, <1>6

LEMMA ReaderTypesStep ==
    ASSUME ProjectionTypes, Len(main) <= Len(main'), Len(main') \in Nat,
           \/ reader' = reader
           \/ \E w \in Readers : \/ Reads(w) \/ Stamp(w) \/ Clear(w)
                                \/ reader' = [reader EXCEPT ![w] = NoRead]
    PROVE  ReaderTypes'
<1>1. /\ reader \in [Readers -> ReaderRow] /\ Len(main) \in Nat
      /\ \A v \in Readers : \/ reader[v] = NoRead
                            \/ /\ reader[v].step # "idle"
                               /\ reader[v].sha \in 1..Len(main')
                               /\ reader[v].job \in 0..Len(main')
  BY DEF ProjectionTypes, ReaderTypes, RegistryTypes
<1>2. NoRead \in ReaderRow
  BY DEF NoRead, ReaderRow
<1>3. ASSUME NEW w \in Readers, NEW r \in ReaderRow, reader' = [reader EXCEPT ![w] = r],
             \/ r = NoRead
             \/ r.step # "idle" /\ r.sha \in 1..Len(main') /\ r.job \in 0..Len(main')
      PROVE  ReaderTypes'
  BY <1>1, <1>3 DEF ReaderTypes
<1>4. ASSUME NEW w \in Readers, Reads(w) PROVE ReaderTypes'
  <2>1. PICK sha \in 1..Len(main), job \in 0..Len(main) : ReadsAt(w, sha, job)
    BY <1>4 DEF Reads
  <2> DEFINE r == [step |-> "read", sha |-> sha, time |-> 0, job |-> job, old |-> {}]
  <2>2. r \in ReaderRow
    BY <1>1 DEF ReaderRow, ProjectionTypes, SnapshotTypes
  <2>3. r.step # "idle" /\ r.sha \in 1..Len(main') /\ r.job \in 0..Len(main')
    BY <1>1
  <2>4. reader' = [reader EXCEPT ![w] = r]
    BY <2>1 DEF ReadsAt
  <2> HIDE DEF r
  <2> QED
    BY <1>3, <2>2, <2>3, <2>4
<1>5. ASSUME NEW w \in Readers, Clear(w) PROVE ReaderTypes'
  <2> DEFINE old == {k \in DOMAIN snapshot : snapshot[k].current}
             r == [reader[w] EXCEPT !.step = "cleared", !.old = old]
  <2>1. old \in SUBSET Nat
    BY <1>1 DEF ProjectionTypes, SnapshotTypes
  <2>2. reader' = [reader EXCEPT ![w] = r]
    BY <1>1, <1>5 DEF Clear
  <2> HIDE DEF old
  <2>3. reader[w] \in ReaderRow /\ reader[w] # NoRead
    <3>1. reader[w].step = "stamped" /\ NoRead.step = "idle"
      BY <1>5 DEF Clear, NoRead
    <3> QED
      BY <1>1, <3>1
  <2>4. r \in ReaderRow /\ r.step # "idle" /\ r.sha = reader[w].sha /\ r.job = reader[w].job
    BY <2>1, <2>3 DEF ReaderRow
  <2> HIDE DEF r
  <2> QED
    BY <1>1, <1>3, <2>2, <2>3, <2>4
<1>6. ASSUME NEW w \in Readers, Stamp(w) PROVE ReaderTypes'
  <2> DEFINE r == [reader[w] EXCEPT !.step = "stamped", !.time = stamps + 1]
  <2>1. stamps + 1 \in Nat
    BY DEF ProjectionTypes, SnapshotTypes
  <2>2. reader' = [reader EXCEPT ![w] = r]
    BY <1>1, <1>6 DEF Stamp
  <2>3. reader[w] \in ReaderRow /\ reader[w] # NoRead
    <3>1. reader[w].step = "read" /\ NoRead.step = "idle"
      BY <1>6 DEF Stamp, NoRead
    <3> QED
      BY <1>1, <3>1
  <2>4. r \in ReaderRow /\ r.step # "idle" /\ r.sha = reader[w].sha /\ r.job = reader[w].job
    BY <2>1, <2>3 DEF ReaderRow
  <2> HIDE DEF r
  <2> QED
    BY <1>1, <1>3, <2>2, <2>3, <2>4
<1> QED
  BY <1>1, <1>2, <1>3, <1>4, <1>5, <1>6 DEF ReaderTypes

LEMMA ProjectionTypesStep ==
    ASSUME ProjectionTypes, IdentityTypes, PublishedIsMerged, [Next]_vars
    PROVE  ProjectionTypes'
<1>1. /\ main' \in Seq(SUBSET Nat) /\ Len(main) \in Nat /\ Len(main') \in Nat
      /\ Len(main) <= Len(main')
      /\ refresh' \in Seq(JobStates) /\ Len(refresh') = Len(main')
  BY MainGrows DEF ProjectionTypes, RegistryTypes
<1>2. ReaderTypes'
  BY <1>1, ReaderTypesStep, ProjectionSteps
     DEF Holds, Grows, Queues, Write, Interrupted
<1>3. fetched' \in 1..Len(main')
  <2>1. fetched \in 1..Len(main)
    BY DEF ProjectionTypes, RegistryTypes
  <2>2. fetched' = fetched \/ fetched' \in 1..Len(main)
    BY ProjectionSteps
       DEF Holds, Grows, Queues, Reads, ReadsAt, Stamp, Clear, Write, Interrupted, registry
  <2> QED
    BY <1>1, <2>1, <2>2
<1>4. SnapshotTypes'
  <2>1. SnapshotTypes /\ DOMAIN snapshot \subseteq 1..Len(main')
    BY <1>1 DEF ProjectionTypes, SnapshotTypes
  <2>2. ASSUME UNCHANGED projected, failures' \in 0..MaxFailures PROVE SnapshotTypes'
    BY <2>1, <2>2 DEF SnapshotTypes, projected
  <2>3. failures \in 0..MaxFailures /\ (Fail => failures' \in 0..MaxFailures)
    BY <2>1, Failing DEF SnapshotTypes
  <2>4. CASE Holds
    BY <2>2, <2>4 DEF Holds
  <2>5. CASE Grows \/ Queues
    BY <2>2, <2>3, <2>5 DEF Grows, Queues
  <2>6. ASSUME NEW w \in Readers, Reads(w) PROVE SnapshotTypes'
    <3>1. PICK sha \in 1..Len(main), job \in 0..Len(main) : ReadsAt(w, sha, job)
      BY <2>6 DEF Reads
    <3>2. snapshot' = snapshot /\ stamps' \in Nat /\ failures' \in 0..MaxFailures
      BY <2>1, <3>1 DEF ReadsAt, SnapshotTypes
    <3>3. disordered' \in BOOLEAN
      BY <2>1, <3>1, Zenon DEF ReadsAt, SnapshotTypes
    <3>4. missed' \in BOOLEAN
      BY <2>1, <3>1, Zenon DEF ReadsAt, SnapshotTypes
    <3> QED
      BY <2>1, <3>2, <3>3, <3>4 DEF SnapshotTypes
  <2>7. ASSUME NEW w \in Readers, Stamp(w) \/ Clear(w) PROVE SnapshotTypes'
    <3>1. snapshot' = snapshot /\ missed' = missed /\ failures' = failures
      BY <2>7 DEF Stamp, Clear
    <3>2. stamps' \in Nat
      BY <2>1, <2>7 DEF Stamp, Clear, SnapshotTypes
    <3>3. disordered' \in BOOLEAN
      BY <2>7, Zenon DEF Stamp, Clear
    <3> QED
      BY <2>1, <3>1, <3>2, <3>3 DEF SnapshotTypes
  <2>8. ASSUME NEW w \in Readers, Interrupted(w) PROVE SnapshotTypes'
    BY <2>2, <2>3, <2>8 DEF Interrupted
  <2>9. ASSUME NEW w \in Readers, Write(w) PROVE SnapshotTypes'
    <3>1. /\ DOMAIN snapshot' \subseteq 1..Len(main')
          /\ stamps' = stamps /\ missed' = missed /\ failures' = failures
          /\ disordered' = disordered
      BY <1>1, <2>1, <2>9, WriteFacts
    <3>2. reader[w].time \in Nat
      BY DEF ProjectionTypes, ReaderTypes, ReaderRow
    <3>3. \A k \in DOMAIN snapshot' : snapshot'[k] \in Row
      <4>1. [current |-> TRUE, time |-> reader[w].time] \in Row
        BY <3>2 DEF Row
      <4>2. /\ DOMAIN snapshot' = DOMAIN snapshot \cup {reader[w].sha}
            /\ snapshot'[reader[w].sha] = [current |-> TRUE, time |-> reader[w].time]
            /\ \A k \in DOMAIN snapshot \ {reader[w].sha} : snapshot'[k] \in Row
        BY <2>9, WriteFacts
      <4> QED
        BY <4>1, <4>2
    <3> QED
      BY <2>1, <3>1, <3>3 DEF SnapshotTypes
  <2> QED
    BY <2>4, <2>5, <2>6, <2>7, <2>8, <2>9, ProjectionSteps
<1> QED
  BY <1>1, <1>2, <1>3, <1>4 DEF ProjectionTypes, RegistryTypes

LEMMA RegistryGrowsStep ==
    ASSUME ProjectionTypes, IdentityTypes, PublishedIsMerged, RegistryGrows, [Next]_vars
    PROVE  RegistryGrows'
<1>1. Len(main) \in 1..Len(main)
  BY DEF ProjectionTypes, RegistryTypes
<1>2. CASE main' = main
  BY <1>2 DEF RegistryGrows
<1>3. CASE Grows
  <2>1. PICK authors \in SUBSET Nat :
          /\ main[Len(main)] \subseteq authors
          /\ IsFiniteSet(main[Len(main)]) => IsFiniteSet(authors)
          /\ Advance(authors, "none")
    BY <1>3 DEF Grows
  <2>2. /\ Len(main') = Len(main) + 1
        /\ \A k \in 1..Len(main) : main'[k] = main[k]
        /\ main'[Len(main) + 1] = authors
    BY <2>1, AdvanceFacts DEF ProjectionTypes
  <2>3. Existing \subseteq authors /\ IsFiniteSet(authors)
        /\ \A k \in 1..Len(main) : main[k] \subseteq authors
    BY <1>1, <2>1 DEF RegistryGrows
  <2>4. \A k \in 1..Len(main') : k \in 1..Len(main) \/ k = Len(main) + 1
    BY <1>1, <2>2
  <2>5. \A k \in 1..Len(main') : Existing \subseteq main'[k] /\ IsFiniteSet(main'[k])
    BY <2>2, <2>3, <2>4 DEF RegistryGrows
  <2>6. ASSUME NEW j \in 1..Len(main'), NEW k \in 1..Len(main'), j <= k
        PROVE  main'[j] \subseteq main'[k]
    <3>1. CASE k \in 1..Len(main)
      <4>1. j \in 1..Len(main)
        BY <2>6, <3>1
      <4> QED
        BY <2>2, <2>6, <3>1, <4>1 DEF RegistryGrows
    <3>2. CASE k = Len(main) + 1
      BY <2>2, <2>3, <2>4, <3>2
    <3> QED
      BY <2>4, <3>1, <3>2
  <2> QED
    BY <2>5, <2>6 DEF RegistryGrows
<1> QED
  BY <1>2, <1>3, ProjectionSteps
     DEF Holds, Queues, Reads, ReadsAt, Stamp, Clear, Write, Interrupted, registry

-----------------------------------------------------------------------------
(* The refreshes.                                                           *)

LEMMA RefreshedIsReadStep ==
    ASSUME ProjectionTypes, IdentityTypes, PublishedIsMerged, RefreshedIsRead, [Next]_vars
    PROVE  RefreshedIsRead'
<1> USE DEF ProjectionTypes
<1>1. Len(refresh) = Len(main) /\ refresh \in Seq(JobStates)
  BY DEF RegistryTypes
<1>2. CASE Holds
  BY <1>2 DEF RefreshedIsRead, Holds, registry, projected
<1>3. CASE Grows
  <2>1. PICK authors \in SUBSET Nat : /\ Advance(authors, "none")
                                      /\ UNCHANGED <<fetched, reader, projected, failures>>
    BY <1>3 DEF Grows
  <2>2. \A k \in 1..Len(main') : refresh'[k] = "succeeded" =>
           k \in 1..Len(main) /\ refresh[k] = "succeeded"
    BY <1>1, <2>1, AdvanceFacts
  <2> QED
    BY <2>1, <2>2 DEF RefreshedIsRead, projected
<1>4. CASE Queues
  <2>1. PICK j \in 1..Len(main) :
          /\ refresh' = [refresh EXCEPT ![j] = IF @ = "none" THEN "queued" ELSE @]
          /\ UNCHANGED <<registry, reader, projected, failures>>
    BY <1>4 DEF Queues
  <2>2. \A k \in 1..Len(main) : refresh'[k] = "succeeded" => refresh[k] = "succeeded"
    BY <1>1, <2>1
  <2> QED
    BY <2>1, <2>2 DEF RefreshedIsRead, registry, projected
<1>5. ASSUME NEW w \in Readers, Reads(w) PROVE RefreshedIsRead'
  <2>1. PICK sha \in 1..Len(main), job \in 0..Len(main) : ReadsAt(w, sha, job)
    BY <1>5 DEF Reads
  <2>2. CASE missed' = TRUE
    BY <2>2 DEF RefreshedIsRead
  <2>3. CASE missed' = missed /\ (job # 0 => sha = job)
    <3>1. /\ reader'[w].sha = sha /\ reader'[w].job = job
          /\ \A v \in Readers \ {w} : reader'[v] = reader[v]
          /\ UNCHANGED <<main, snapshot, refresh>>
      BY <2>1 DEF ReadsAt, ReaderTypes
    <3> QED
      BY <2>3, <3>1 DEF RefreshedIsRead
  <2> QED
    BY <2>1, <2>2, <2>3 DEF ReadsAt
<1>6. ASSUME NEW w \in Readers, Stamp(w) \/ Clear(w) PROVE RefreshedIsRead'
  <2>1. \A v \in Readers : reader'[v].sha = reader[v].sha /\ reader'[v].job = reader[v].job
    <3>1. reader \in [Readers -> ReaderRow]
      BY DEF ReaderTypes
    <3>2. CASE Stamp(w)
      BY <3>1, <3>2 DEF Stamp, ReaderRow
    <3>3. CASE Clear(w)
      BY <3>1, <3>3 DEF Clear, ReaderRow
    <3> QED
      BY <1>6, <3>2, <3>3
  <2> QED
    BY <1>6, <2>1 DEF RefreshedIsRead, Stamp, Clear, registry
<1>7. \A w \in Readers : reader' = [reader EXCEPT ![w] = NoRead] =>
         \A v \in Readers : reader'[v].job # 0 => v # w /\ reader'[v] = reader[v]
  BY DEF ReaderTypes, NoRead
<1>8. ASSUME NEW w \in Readers, Write(w) PROVE RefreshedIsRead'
  <2>1. /\ reader' = [reader EXCEPT ![w] = NoRead]
        /\ DOMAIN snapshot' = DOMAIN snapshot \cup {reader[w].sha}
        /\ main' = main /\ missed' = missed
    BY <1>8, WriteFacts
  <2>2. \A k \in 1..Len(main) : refresh'[k] = "succeeded" =>
           refresh[k] = "succeeded" \/ (reader[w].job # 0 /\ k = reader[w].job)
    BY <1>1, <1>8 DEF Write, Finished
  <2> QED
    BY <1>7, <2>1, <2>2 DEF RefreshedIsRead
<1>9. ASSUME NEW w \in Readers, Interrupted(w) PROVE RefreshedIsRead'
  <2>1. \A k \in 1..Len(main) : refresh'[k] = "succeeded" => refresh[k] = "succeeded"
    BY <1>1, <1>9 DEF Interrupted
  <2> QED
    BY <1>7, <1>9, <2>1 DEF RefreshedIsRead, Interrupted, registry, projected
<1> QED
  BY <1>2, <1>3, <1>4, <1>5, <1>6, <1>8, <1>9, ProjectionSteps

LEMMA ReadInOrderStep ==
    ASSUME ProjectionTypes, IdentityTypes, PublishedIsMerged, ReadInOrder, [Next]_vars
    PROVE  ReadInOrder'
<1>1. /\ \A k \in DOMAIN snapshot : k \in Nat /\ snapshot[k].time \in Nat
      /\ \A w \in Readers : reader[w].sha \in Nat /\ reader[w].time \in Nat
      /\ reader \in [Readers -> ReaderRow] /\ stamps \in Nat
  BY DEF ProjectionTypes, SnapshotTypes, ReaderTypes, RegistryTypes, ReaderRow, Row
<1>2. CASE Holds \/ Grows \/ Queues
  BY <1>2 DEF ReadInOrder, Holds, Grows, Queues, projected, Stamped
<1>3. ASSUME NEW w \in Readers, Stamp(w), ~disordered' PROVE ReadInOrder'
  <2> DEFINE sha == reader[w].sha
  <2>2. /\ ~disordered
        /\ \A k \in DOMAIN snapshot : ~(k > sha)
        /\ \A v \in Readers : Stamped(v) => ~(reader[v].sha > sha)
    BY <1>3, Zenon DEF Stamp
  <2>3. /\ reader'[w].sha = sha /\ reader'[w].time = stamps + 1
        /\ \A v \in Readers \ {w} : reader'[v] = reader[v] /\ (Stamped(v)' => Stamped(v))
        /\ snapshot' = snapshot /\ stamps' = stamps + 1
    BY <1>1, <1>3 DEF Stamp, Stamped, ReaderRow
  <2>4. \A k \in DOMAIN snapshot :
           /\ snapshot[k].time < stamps + 1
           /\ Before(k, snapshot[k].time, sha, stamps + 1)
    BY <1>1, <2>2 DEF ReadInOrder, Before
  <2>5. \A v \in Readers \ {w} : Stamped(v) =>
           /\ reader[v].time < stamps + 1
           /\ Before(reader[v].sha, reader[v].time, sha, stamps + 1)
           /\ Before(sha, stamps + 1, reader[v].sha, reader[v].time)
    BY <1>1, <2>2 DEF ReadInOrder, Before
  <2>6. Before(sha, stamps + 1, sha, stamps + 1)
    BY <1>1 DEF Before
  <2>7. \A k \in DOMAIN snapshot' :
          /\ snapshot'[k].time <= stamps'
          /\ \A j \in DOMAIN snapshot' : Before(j, snapshot'[j].time, k, snapshot'[k].time)
    BY <1>1, <2>2, <2>3, <2>4 DEF ReadInOrder
  <2>8. ASSUME NEW v \in Readers, Stamped(v)'
        PROVE  /\ reader'[v].time <= stamps'
               /\ \A k \in DOMAIN snapshot' :
                     Before(k, snapshot'[k].time, reader'[v].sha, reader'[v].time)
               /\ \A u \in Readers : Stamped(u)' =>
                     Before(reader'[u].sha, reader'[u].time, reader'[v].sha, reader'[v].time)
    <3>1. CASE v = w
      BY <1>1, <2>3, <2>4, <2>5, <2>6, <3>1
    <3>2. CASE v # w
      BY <1>1, <2>2, <2>3, <2>5, <2>8, <3>2 DEF ReadInOrder
    <3> QED
      BY <3>1, <3>2
  <2> QED
    BY <2>7, <2>8 DEF ReadInOrder, Before
<1>4. ASSUME \A v \in Readers : Stamped(v)' => /\ Stamped(v)
                                               /\ reader'[v].sha = reader[v].sha
                                               /\ reader'[v].time = reader[v].time,
             UNCHANGED <<snapshot, stamps>>, disordered => disordered'
      PROVE  ReadInOrder'
  <2> SUFFICES ASSUME ~disordered
               PROVE  ReadInOrder'
    BY <1>4 DEF ReadInOrder
  <2>1. \A k \in DOMAIN snapshot :
          /\ snapshot[k].time <= stamps
          /\ \A j \in DOMAIN snapshot : Before(j, snapshot[j].time, k, snapshot[k].time)
    BY DEF ReadInOrder
  <2>2. ASSUME NEW v \in Readers, Stamped(v)'
        PROVE  /\ reader'[v].time <= stamps'
               /\ \A k \in DOMAIN snapshot' :
                     Before(k, snapshot'[k].time, reader'[v].sha, reader'[v].time)
               /\ \A u \in Readers : Stamped(u)' =>
                     Before(reader'[u].sha, reader'[u].time, reader'[v].sha, reader'[v].time)
    <3>1. Stamped(v)
      BY <1>4, <2>2
    <3>2. /\ reader[v].time <= stamps
          /\ \A k \in DOMAIN snapshot :
                Before(k, snapshot[k].time, reader[v].sha, reader[v].time)
          /\ \A u \in Readers : Stamped(u) =>
                Before(reader[u].sha, reader[u].time, reader[v].sha, reader[v].time)
      BY <3>1 DEF ReadInOrder
    <3> QED
      BY <1>4, <2>2, <3>2
  <2> QED
    BY <1>4, <2>1, <2>2 DEF ReadInOrder, Before
<1>5. ASSUME NEW w \in Readers, reader' = [reader EXCEPT ![w] = NoRead]
      PROVE  \A v \in Readers : Stamped(v)' => Stamped(v) /\ reader'[v] = reader[v]
  BY <1>1, <1>5 DEF Stamped, NoRead
<1>8. ASSUME NEW w \in Readers, Interrupted(w) PROVE ReadInOrder'
  BY <1>4, <1>5, <1>8 DEF Interrupted, projected
<1>9. ASSUME NEW w \in Readers, Reads(w) PROVE ReadInOrder'
  <2>1. \A v \in Readers : Stamped(v)' => Stamped(v) /\ reader'[v] = reader[v]
    BY <1>1, <1>9 DEF Reads, ReadsAt, Stamped, NoRead
  <2>2. UNCHANGED <<snapshot, stamps, disordered>>
    BY <1>9 DEF Reads, ReadsAt
  <2> QED
    BY <1>4, <2>1, <2>2
<1>10. ASSUME NEW w \in Readers, Clear(w) PROVE ReadInOrder'
  <2>1. \A v \in Readers : Stamped(v)' => /\ Stamped(v)
                                          /\ reader'[v].sha = reader[v].sha
                                          /\ reader'[v].time = reader[v].time
    BY <1>1, <1>10 DEF Clear, Stamped, ReaderRow
  <2>2. UNCHANGED <<snapshot, stamps>> /\ (disordered => disordered')
    BY <1>10 DEF Clear
  <2> QED
    BY <1>4, <2>1, <2>2
<1>6. ASSUME NEW w \in Readers, Write(w), ~disordered' PROVE ReadInOrder'
  <2> DEFINE sha == reader[w].sha
             time == reader[w].time
  <2>1. /\ ~disordered
        /\ Stamped(w)
        /\ DOMAIN snapshot' = DOMAIN snapshot \cup {sha}
        /\ snapshot'[sha].time = time
        /\ \A k \in DOMAIN snapshot \ {sha} : snapshot'[k].time = snapshot[k].time
        /\ \A v \in Readers : Stamped(v)' => Stamped(v) /\ reader'[v] = reader[v]
        /\ stamps' = stamps
    <3>1. /\ DOMAIN snapshot' = DOMAIN snapshot \cup {sha}
          /\ snapshot'[sha] = [current |-> TRUE, time |-> time]
          /\ \A k \in DOMAIN snapshot \ {sha} : snapshot'[k].time = snapshot[k].time
          /\ reader' = [reader EXCEPT ![w] = NoRead]
          /\ stamps' = stamps /\ disordered' = disordered
      BY <1>6, WriteFacts, Zenon
    <3>2. Stamped(w)
      BY <1>6 DEF Write, Stamped
    <3>3. \A v \in Readers : Stamped(v)' => Stamped(v) /\ reader'[v] = reader[v]
      BY <1>5, <3>1
    <3> QED
      BY <1>6, <3>1, <3>2, <3>3
  <2>2. /\ time <= stamps
        /\ Before(sha, time, sha, time)
        /\ \A k \in DOMAIN snapshot : /\ Before(k, snapshot[k].time, sha, time)
                                      /\ Before(sha, time, k, snapshot[k].time)
        /\ \A v \in Readers : Stamped(v) =>
              Before(sha, time, reader[v].sha, reader[v].time)
    BY <1>1, <2>1 DEF ReadInOrder, Before
  <2>3. ASSUME NEW k \in DOMAIN snapshot'
        PROVE  /\ snapshot'[k].time <= stamps'
               /\ \A j \in DOMAIN snapshot' : Before(j, snapshot'[j].time, k, snapshot'[k].time)
    <3>1. CASE k = sha
      BY <2>1, <2>2, <3>1
    <3>2. CASE k # sha
      BY <2>1, <2>2, <3>2 DEF ReadInOrder
    <3> QED
      BY <3>1, <3>2
  <2>4. ASSUME NEW v \in Readers, Stamped(v)'
        PROVE  /\ reader'[v].time <= stamps'
               /\ \A k \in DOMAIN snapshot' :
                     Before(k, snapshot'[k].time, reader'[v].sha, reader'[v].time)
               /\ \A u \in Readers : Stamped(u)' =>
                     Before(reader'[u].sha, reader'[u].time, reader'[v].sha, reader'[v].time)
    BY <2>1, <2>2, <2>4 DEF ReadInOrder
  <2> QED
    BY <2>3, <2>4 DEF ReadInOrder, Before
<1>7. disordered' => ReadInOrder'
  BY DEF ReadInOrder
<1> QED
  BY <1>2, <1>3, <1>6, <1>7, <1>8, <1>9, <1>10, ProjectionSteps

LEMMA NewestIsCurrentStep ==
    ASSUME ProjectionTypes, IdentityTypes, PublishedIsMerged, NewestIsCurrent, [Next]_vars
    PROVE  NewestIsCurrent'
<1>1. ASSUME snapshot' = snapshot, disordered => disordered',
             \A v \in Readers : reader'[v].step = "cleared" =>
                reader'[v] = reader[v] \/ \A k \in reader'[v].old : k <= reader'[v].sha
      PROVE  NewestIsCurrent'
  BY <1>1 DEF NewestIsCurrent
<1>2. /\ \A k \in DOMAIN snapshot : k \in Nat
      /\ reader \in [Readers -> ReaderRow]
      /\ \A v \in Readers : reader[v].sha \in Nat
  BY DEF ProjectionTypes, ReaderTypes, ReaderRow, SnapshotTypes, RegistryTypes
<1>3. CASE Holds \/ Grows \/ Queues
  BY <1>1, <1>3 DEF Holds, Grows, Queues, projected
<1>4. ASSUME NEW w \in Readers, Reads(w) PROVE NewestIsCurrent'
  <2>1. \A v \in Readers : reader'[v].step = "cleared" => reader'[v] = reader[v]
    BY <1>2, <1>4 DEF Reads, ReadsAt
  <2> QED
    BY <1>1, <1>4, <2>1 DEF Reads, ReadsAt
<1>5. ASSUME NEW w \in Readers, Stamp(w) PROVE NewestIsCurrent'
  <2>1. \A v \in Readers : reader'[v].step = "cleared" => reader'[v] = reader[v]
    BY <1>2, <1>5 DEF Stamp, ReaderRow
  <2> QED
    BY <1>1, <1>5, <2>1 DEF Stamp
<1>6. ASSUME NEW w \in Readers, Clear(w), ~disordered' PROVE NewestIsCurrent'
  <2>1. ~disordered /\ \A k \in DOMAIN snapshot : ~(k > reader[w].sha)
    BY <1>6, Zenon DEF Clear
  <2>2. /\ reader'[w].old \subseteq DOMAIN snapshot /\ reader'[w].sha = reader[w].sha
        /\ \A v \in Readers \ {w} : reader'[v] = reader[v]
    BY <1>2, <1>6 DEF Clear, ReaderRow
  <2>3. \A k \in reader'[w].old : k <= reader'[w].sha
    BY <1>2, <2>1, <2>2
  <2>4. snapshot' = snapshot
    BY <1>6 DEF Clear
  <2> QED
    BY <1>1, <2>1, <2>2, <2>3, <2>4
<1>7. ASSUME NEW w \in Readers, reader' = [reader EXCEPT ![w] = NoRead]
      PROVE  \A v \in Readers : reader'[v].step = "cleared" => reader'[v] = reader[v]
  BY <1>2, <1>7 DEF NoRead
<1>8. ASSUME NEW w \in Readers, Interrupted(w) PROVE NewestIsCurrent'
  BY <1>1, <1>7, <1>8 DEF Interrupted, projected
<1>9. ASSUME NEW w \in Readers, Write(w), ~disordered' PROVE NewestIsCurrent'
  <2> DEFINE sha == reader[w].sha
  <2>1. /\ DOMAIN snapshot' = DOMAIN snapshot \cup {sha}
        /\ snapshot'[sha] = [current |-> TRUE, time |-> reader[w].time]
        /\ \A k \in DOMAIN snapshot \ {sha} :
              k \notin reader[w].old => snapshot'[k] = snapshot[k]
        /\ reader' = [reader EXCEPT ![w] = NoRead]
        /\ disordered' = disordered
    BY <1>9, WriteFacts, Zenon
  <2>2. snapshot'[sha].current
    BY <2>1
  <2>3. /\ ~disordered /\ reader[w].step = "cleared"
        /\ \A k \in reader[w].old : k <= sha
    BY <1>9, <2>1 DEF Write, NewestIsCurrent
  <2>4. PICK m \in DOMAIN snapshot :
          snapshot[m].current /\ \A k \in DOMAIN snapshot : k <= m
    BY <2>3 DEF NewestIsCurrent
  <2>5. \E n \in DOMAIN snapshot' :
          snapshot'[n].current /\ \A k \in DOMAIN snapshot' : k <= n
    <3>1. CASE m <= sha
      <4>1. \A k \in DOMAIN snapshot' : k <= sha
        BY <1>2, <2>1, <2>4, <3>1
      <4> QED
        BY <2>1, <2>2, <4>1
    <3>2. CASE ~(m <= sha)
      <4>1. m # sha /\ m \notin reader[w].old /\ \A k \in DOMAIN snapshot' : k <= m
        BY <1>2, <2>1, <2>3, <2>4, <3>2
      <4>2. snapshot'[m] = snapshot[m] /\ m \in DOMAIN snapshot'
        BY <2>1, <4>1
      <4> QED
        BY <2>4, <4>1, <4>2
    <3> QED
      BY <3>1, <3>2
  <2>6. \A v \in Readers : reader'[v].step = "cleared" => reader'[v] = reader[v]
    BY <1>7, <2>1
  <2> QED
    BY <2>3, <2>5, <2>6 DEF NewestIsCurrent
<1>10. disordered' => NewestIsCurrent'
  BY DEF NewestIsCurrent
<1> QED
  BY <1>3, <1>4, <1>5, <1>6, <1>8, <1>9, <1>10, ProjectionSteps

(* Then current_projection is the newest row.                               *)
LEMMA ShownIsNewest ==
    ASSUME ProjectionTypes, ReadInOrder, NewestIsCurrent, ~disordered
    PROVE  Shown \in DOMAIN snapshot /\ \A k \in DOMAIN snapshot : k <= Shown
<1> DEFINE current == {k \in DOMAIN snapshot : snapshot[k].current}
           Latest(k) == k \in current /\ \A j \in current : snapshot[j].time <= snapshot[k].time
<1>1. PICK m \in DOMAIN snapshot :
        snapshot[m].current /\ \A k \in DOMAIN snapshot : k <= m
  BY DEF NewestIsCurrent
<1>2. \A k \in DOMAIN snapshot : k \in Nat /\ snapshot[k].time \in Nat
  BY DEF ProjectionTypes, SnapshotTypes, RegistryTypes, Row
<1>3. \A k \in DOMAIN snapshot : k # m => snapshot[k].time < snapshot[m].time
  BY <1>1, <1>2 DEF ReadInOrder, Before
<1>4. Latest(m)
  BY <1>1, <1>2, <1>3
<1>5. \A k : Latest(k) => k = m
  BY <1>1, <1>2, <1>3
<1>6. Shown = CHOOSE k \in current : \A j \in current : snapshot[j].time <= snapshot[k].time
  BY DEF Shown
<1>7. Latest(Shown)
  BY <1>4, <1>6
<1> QED
  BY <1>1, <1>5, <1>7

-----------------------------------------------------------------------------
(* What a step does to an account.                                          *)

Unmoved(a) ==
    /\ binding'[a] = binding[a] /\ reservation'[a] = reservation[a]
    /\ publication'[a] = publication[a] /\ granted'[a] = granted[a]

(* Its binding waits for a claim or for the registration.                   *)
Waits(a) ==
    /\ \E state \in {"pending", "claim_requested"} :
          binding'[a] = [binding[a] EXCEPT !.state = state]
    /\ reservation'[a] = reservation[a]
    /\ publication'[a] = publication[a] /\ granted'[a] = granted[a]

(* An administrator or operator links it.                                   *)
LinkedTo(a, x) ==
    /\ x \in Claimable /\ x \notin Others(a)
    /\ binding' = [binding EXCEPT ![a].id = x, ![a].state = "linked"]
    /\ granted' = [granted EXCEPT ![a] = @ \cup {x}]
    /\ UNCHANGED <<reservation, publication>>

(* Its publication ends without a merge, and may set the binding back.       *)
GivenUp(a) ==
    /\ publication[a].stage \notin {"none", "merged", "verified"}
    /\ \E stage \in {"abandoned", "released", "over"} :
          publication'[a] = [publication[a] EXCEPT !.stage = stage]
    /\ binding'[a] \in {binding[a], [binding[a] EXCEPT !.state = "pending", !.publication = FALSE]}
    /\ reservation'[a] = reservation[a] /\ granted'[a] = granted[a]

LEMMA AccountSteps ==
    ASSUME IdentityTypes, [Next]_vars, NEW a \in Accounts
    PROVE  \/ Unmoved(a) \/ Waits(a)
           \/ \E x \in Claimable : LinkedTo(a, x)
           \/ Register(a) \/ BranchOff(a) \/ Merge(a) \/ Confirm(a) \/ GivenUp(a)
<1> DEFINE Goal == \/ Unmoved(a) \/ Waits(a)
                   \/ \E x \in Claimable : LinkedTo(a, x)
                   \/ Register(a) \/ BranchOff(a) \/ Merge(a) \/ Confirm(a) \/ GivenUp(a)
<1> SUFFICES Goal
  OBVIOUS
<1> USE DEF IdentityTypes
<1>1. CASE UNCHANGED identity
  BY <1>1 DEF identity, Unmoved
<1>2. ASSUME NEW b \in Accounts, StartRegistration(b) PROVE Goal
  BY <1>2 DEF StartRegistration, Started, Unmoved, Waits, Binding
<1>3. ASSUME NEW b \in Accounts, RegisterNothing(b) \/ RegisterWaits(b) \/ RegisterNameless(b)
      PROVE  Goal
  BY <1>3 DEF RegisterNothing, RegisterWaits, RegisterNameless, Unmoved
<1>4. ASSUME NEW b \in Accounts, Register(b) PROVE Goal
  BY <1>4 DEF Register, Unmoved
<1>5. ASSUME NEW b \in Accounts, NEW x \in Claimable, Claim(b, x) PROVE Goal
  BY <1>5 DEF Claim, Unmoved
<1>13. ASSUME NEW b \in Accounts, ClaimReads(b) PROVE Goal
  BY <1>13 DEF ClaimReads, Started, Unmoved, Waits, Binding
<1>14. ASSUME NEW b \in Accounts, ClaimMarks(b) PROVE Goal
  BY <1>14 DEF ClaimMarks, Unmoved, Waits
<1>6. ASSUME NEW b \in Accounts, NEW x \in Claimable, Verify(b, x) \/ OperatorLinks(b, x)
      PROVE  Goal
  <2>1. LinkedTo(b, x)
    BY <1>6 DEF Verify, OperatorLinks, LinkedTo
  <2> QED
    BY <2>1 DEF LinkedTo, Unmoved
<1>7. ASSUME NEW b \in Accounts, NEW x \in Claimable, Deny(b, x) PROVE Goal
  BY <1>7 DEF Deny, Unmoved, Waits
<1>8. ASSUME NEW b \in Accounts, BranchOff(b) PROVE Goal
  BY <1>8 DEF BranchOff, Unmoved
<1>9. ASSUME NEW b \in Accounts, Merge(b) PROVE Goal
  BY <1>9 DEF Merge, Stage, Unmoved
<1>10. ASSUME NEW b \in Accounts, Confirm(b) PROVE Goal
  BY <1>10 DEF Confirm, Stage, Unmoved
<1>11. ASSUME NEW b \in Accounts, Abandon(b) \/ Restart(b) \/ PublisherDies(b) PROVE Goal
  BY <1>11 DEF Abandon, Restart, PublisherDies, Stage, Unmoved, GivenUp
<1>12. ASSUME NEW b \in Accounts, Release(b) PROVE Goal
  <2>1. PICK stage \in {"released", "over"} :
          publication' = [publication EXCEPT ![b].stage = stage]
    BY <1>12 DEF Release, Stage
  <2>2. /\ publication[b].stage = "abandoned"
        /\ binding' = [binding EXCEPT ![b] = IF binding[b].publication
                          THEN [@ EXCEPT !.state = "pending", !.publication = FALSE] ELSE @]
        /\ UNCHANGED <<reservation, granted>>
    BY <1>12 DEF Release
  <2> QED
    BY <2>1, <2>2 DEF Unmoved, GivenUp
<1> HIDE DEF Goal
<1> QED
  BY <1>1, <1>2, <1>3, <1>4, <1>5, <1>6, <1>7, <1>8, <1>9, <1>10, <1>11, <1>12, <1>13, <1>14
     DEF Next, Registers, Publishes, OtherCommits, vars

(* What a registration writes.                                              *)
LEMMA RegisterFacts ==
    ASSUME ProjectionTypes, IdentityTypes, RegistryGrows, ReservedIsNew,
           NEW a \in Accounts, Register(a)
    PROVE  /\ reservation'[a] = Reserved(a) /\ reservation'[a] \in Nat /\ reservation'[a] # NoId
           /\ \A b \in Accounts : b # a => /\ reservation'[b] = reservation[b]
                                           /\ binding'[b] = binding[b]
           /\ publication'[a] = [publication[a] EXCEPT
                                   !.stage = IF @ = "none" THEN "queued" ELSE @]
           /\ binding'[a] = [state |-> "reserved", id |-> reservation'[a], publication |-> TRUE]
           /\ granted'[a] = granted[a]
           /\ reservation[a] # NoId => reservation'[a] = reservation[a]
<1>1. Reserved(a) \in Nat /\ Reserved(a) # NoId
  BY ReservedIsANumber
<1>2. reservation[a] # NoId => Reserved(a) = reservation[a]
  BY DEF Reserved
<1>3. /\ reservation' = [reservation EXCEPT ![a] = Reserved(a)]
      /\ publication' = [publication EXCEPT ![a].stage = IF @ = "none" THEN "queued" ELSE @]
      /\ binding' = [binding EXCEPT ![a] = [state |-> "reserved", id |-> Reserved(a),
                                            publication |-> TRUE]]
      /\ granted' = granted
  BY DEF Register
<1> QED
  BY <1>1, <1>2, <1>3 DEF IdentityTypes

LEMMA StagedTypes ==
    ASSUME IdentityTypes, NEW a \in Accounts, NEW stage \in Stages, Stage(a, stage)
    PROVE  publication' \in [Accounts -> Publication]
BY DEF IdentityTypes, Stage, Publication

LEMMA LinkedBinding ==
    ASSUME IdentityTypes, NEW a \in Accounts, NEW x \in Nat
    PROVE  [binding[a] EXCEPT !.id = x, !.state = "linked"] \in Binding
BY DEF IdentityTypes, Binding, States

LEMMA IdentityTypesStep ==
    ASSUME ProjectionTypes, IdentityTypes, RegistryGrows, ReservedIsNew, [Next]_vars
    PROVE  IdentityTypes'
<1> USE DEF IdentityTypes
<1>1. CASE UNCHANGED identity
  BY <1>1 DEF identity
<1>2. ASSUME NEW b \in Accounts, StartRegistration(b) PROVE IdentityTypes'
  BY <1>2, SMTT(60) DEF StartRegistration, Started, Enqueued, Binding, States, JobStates
<1>3. ASSUME NEW b \in Accounts, RegisterNothing(b) \/ RegisterWaits(b) \/ RegisterNameless(b)
      PROVE  IdentityTypes'
  BY <1>3 DEF RegisterNothing, RegisterWaits, RegisterNameless, Ends, JobStates
<1>4. ASSUME NEW b \in Accounts, Register(b) PROVE IdentityTypes'
  <2>1. Reserved(b) \in Nat
    BY ReservedIsANumber
  <2>2. registration' \in [Accounts -> JobStates]
    BY <1>4 DEF Register, Ends, JobStates
  <2>3. reservation' \in [Accounts -> Nat]
    BY <1>4, <2>1 DEF Register
  <2>4. publication' \in [Accounts -> Publication]
    BY <1>4 DEF Register, Publication, Stages
  <2>5. binding' \in [Accounts -> Binding]
    BY <1>4, <2>1 DEF Register, Binding, States
  <2> QED
    BY <1>4, <2>2, <2>3, <2>4, <2>5 DEF Register
<1>5. ASSUME NEW b \in Accounts, NEW x \in Claimable, Claim(b, x) PROVE IdentityTypes'
  BY <1>5 DEF Claim
<1>13. ASSUME NEW b \in Accounts, ClaimReads(b) PROVE IdentityTypes'
  <2>1. Started(binding[b]) \in Binding
    BY DEF Started, Binding, States
  <2>2. binding' = [binding EXCEPT ![b] = Started(binding[b])]
    BY <1>13 DEF ClaimReads
  <2>3. binding' \in [Accounts -> Binding]
    BY <2>1, <2>2
  <2>4. claiming' \in [Accounts -> {"none", "created", "read"}]
    <3>1. \E c \in {"none", "read"} : claiming' = [claiming EXCEPT ![b] = c]
      BY <1>13 DEF ClaimReads
    <3> QED
      BY <3>1
  <2> QED
    BY <1>13, <2>3, <2>4 DEF ClaimReads
<1>14. ASSUME NEW b \in Accounts, ClaimMarks(b) PROVE IdentityTypes'
  BY <1>14 DEF ClaimMarks, Binding, States
<1>6. ASSUME NEW b \in Accounts, NEW x \in Claimable, Verify(b, x) \/ OperatorLinks(b, x)
      PROVE  IdentityTypes'
  <2>1. x \in Nat
    BY AccountsAssumption
  <2>2. binding' = [binding EXCEPT ![b].id = x, ![b].state = "linked"]
    BY <1>6 DEF Verify, OperatorLinks
  <2>3. [binding[b] EXCEPT !.id = x, !.state = "linked"] \in Binding
    BY <2>1, LinkedBinding
  <2>4. binding' \in [Accounts -> Binding]
    BY <2>2, <2>3
  <2>5. granted' \in [Accounts -> SUBSET Claimable]
    <3>1. granted' = [granted EXCEPT ![b] = granted[b] \cup {x}]
      BY <1>6 DEF Verify, OperatorLinks
    <3> QED
      BY <3>1
  <2>6. claim' \in [Accounts -> [Claimable -> {"none", "requested", "verified", "denied"}]]
    <3>1. CASE claim' = [claim EXCEPT ![b][x] = "verified"]
      BY <3>1
    <3> QED
      BY <1>6, <3>1 DEF Verify, OperatorLinks
  <2> QED
    BY <1>6, <2>4, <2>5, <2>6 DEF Verify, OperatorLinks
<1>7. ASSUME NEW b \in Accounts, NEW x \in Claimable, Deny(b, x) PROVE IdentityTypes'
  BY <1>7 DEF Deny, Enqueued, Binding, States, JobStates
<1>8. ASSUME NEW b \in Accounts, BranchOff(b) PROVE IdentityTypes'
  BY <1>8 DEF BranchOff, Publication, Stages, ProjectionTypes, RegistryTypes
<1>9. ASSUME NEW b \in Accounts, Merge(b) \/ Abandon(b) \/ PublisherDies(b)
      PROVE  IdentityTypes'
  <2>1. /\ UNCHANGED <<binding, claim, claiming, registration, reservation, granted>>
        /\ \E stage \in {"merged", "abandoned", "over"} : Stage(b, stage)
    BY <1>9 DEF Merge, Abandon, PublisherDies, projection
  <2>2. publication' \in [Accounts -> Publication]
    BY <2>1, StagedTypes DEF Stages
  <2> QED
    BY <2>1, <2>2
<1>10. ASSUME NEW b \in Accounts, Confirm(b) PROVE IdentityTypes'
  <2>1. Stage(b, "verified") /\ UNCHANGED <<claim, claiming, registration, reservation, granted>>
    BY <1>10 DEF Confirm
  <2>2. publication' \in [Accounts -> Publication]
    BY <2>1, StagedTypes DEF Stages
  <2>3. binding' \in [Accounts -> Binding]
    <3>1. PICK state \in States : binding' = [binding EXCEPT ![b].state = state]
      BY <1>10 DEF Confirm, Binding, States
    <3>2. [binding[b] EXCEPT !.state = state] \in Binding
      BY DEF Binding
    <3> QED
      BY <3>1, <3>2
  <2> QED
    BY <2>1, <2>2, <2>3
<1>11. ASSUME NEW b \in Accounts, Release(b) PROVE IdentityTypes'
  <2>1. /\ UNCHANGED <<claim, claiming, registration, reservation, granted>>
        /\ \E stage \in {"released", "over"} : Stage(b, stage)
    BY <1>11 DEF Release
  <2>2. publication' \in [Accounts -> Publication]
    BY <2>1, StagedTypes DEF Stages
  <2>3. binding' \in [Accounts -> Binding]
    <3>1. PICK given \in {binding[b], [binding[b] EXCEPT !.state = "pending", !.publication = FALSE]} :
            binding' = [binding EXCEPT ![b] = given]
      BY <1>11 DEF Release
    <3>2. binding[b] \in Binding
      OBVIOUS
    <3>3. [binding[b] EXCEPT !.state = "pending", !.publication = FALSE] \in Binding
      BY <3>2 DEF Binding, States
    <3>4. given \in Binding
      BY <3>1, <3>2, <3>3
    <3> QED
      BY <3>1, <3>4
  <2> QED
    BY <2>1, <2>2, <2>3
<1>12. ASSUME NEW b \in Accounts, Restart(b) PROVE IdentityTypes'
  BY <1>12 DEF Restart, Stage, Enqueued, Publication, Stages, JobStates
<1> QED
  BY <1>1, <1>2, <1>3, <1>4, <1>5, <1>6, <1>7, <1>8, <1>9, <1>10, <1>11, <1>12, <1>13, <1>14
     DEF Next, Registers, Publishes, OtherCommits, vars

LEMMA ReservedIsNewStep ==
    ASSUME ProjectionTypes, IdentityTypes, RegistryGrows, ReservedIsNew, [Next]_vars
    PROVE  ReservedIsNew'
<1>1. CASE \A a \in Accounts : reservation'[a] = reservation[a]
  <2>1. ReservedIds' = ReservedIds
    BY <1>1 DEF ReservedIds
  <2> QED
    BY <1>1, <2>1 DEF ReservedIsNew
<1>2. ASSUME NEW a \in Accounts, Register(a) PROVE ReservedIsNew'
  <2>1. CASE reservation[a] # NoId
    BY <1>1, <1>2, <2>1, RegisterFacts
  <2>2. CASE reservation[a] = NoId
    <3>1. /\ NextId \notin Existing
          /\ \A b \in Accounts : reservation[b] # NextId
      BY NextIdIsNew
    <3>2. /\ reservation'[a] = NextId
          /\ \A b \in Accounts : b # a => reservation'[b] = reservation[b]
      BY <1>2, <2>2, RegisterFacts DEF Reserved
    <3>3. ReservedIds' \subseteq ReservedIds \cup {NextId}
      BY <3>2 DEF ReservedIds
    <3>4. IsFiniteSet(ReservedIds')
      BY <3>3, FS_AddElement, FS_Subset DEF ReservedIsNew
    <3> QED
      BY <3>1, <3>2, <3>4 DEF ReservedIsNew
  <2> QED
    BY <2>1, <2>2
<1>3. (\E a \in Accounts : Register(a)) \/ \A a \in Accounts : reservation'[a] = reservation[a]
  BY AccountSteps DEF Unmoved, Waits, LinkedTo, BranchOff, Merge, Confirm, GivenUp
<1> QED
  BY <1>1, <1>2, <1>3

LEMMA IdIsOwnStep ==
    ASSUME ProjectionTypes, IdentityTypes, RegistryGrows, ReservedIsNew, IdIsOwn, [Next]_vars
    PROVE  IdIsOwn'
<1> SUFFICES ASSUME NEW a \in Accounts
             PROVE  /\ binding'[a].id \in {NoId, reservation'[a]} \cup granted'[a]
                    /\ binding'[a].publication =>
                          binding'[a].id # NoId /\ publication'[a].stage # "none"
  BY DEF IdIsOwn
<1>1. /\ binding[a] \in Binding /\ publication[a] \in Publication
      /\ binding[a].id \in {NoId, reservation[a]} \cup granted[a]
      /\ binding[a].publication => binding[a].id # NoId /\ publication[a].stage # "none"
  BY DEF IdIsOwn, IdentityTypes
<1>2. CASE Unmoved(a)
  BY <1>1, <1>2 DEF Unmoved
<1>3. CASE Waits(a)
  BY <1>1, <1>3 DEF Waits, Binding
<1>4. ASSUME NEW x \in Claimable, LinkedTo(a, x) PROVE binding'[a].id \in granted'[a]
        /\ binding'[a].id # NoId /\ binding'[a].publication = binding[a].publication
        /\ publication' = publication
  BY <1>1, <1>4, AccountsAssumption DEF LinkedTo, Binding, IdentityTypes, NoId
<1>5. CASE Register(a)
  <2>1. publication'[a].stage # "none"
    BY <1>1, <1>5, RegisterFacts DEF Publication
  <2>2. /\ binding'[a] = [state |-> "reserved", id |-> reservation'[a], publication |-> TRUE]
        /\ reservation'[a] # NoId
    BY <1>5, RegisterFacts, Zenon
  <2> QED
    BY <2>1, <2>2
<1>6. CASE BranchOff(a) \/ Merge(a) \/ Confirm(a)
  <2>1. publication'[a].stage # "none"
    BY <1>6 DEF BranchOff, Merge, Confirm, Stage, IdentityTypes, Publication
  <2>2. /\ binding'[a].id = binding[a].id /\ binding'[a].publication = binding[a].publication
        /\ reservation' = reservation /\ granted' = granted
    BY <1>6 DEF BranchOff, Merge, Confirm, IdentityTypes, Binding
  <2> QED
    BY <1>1, <2>1, <2>2
<1>7. CASE GivenUp(a)
  <2>1. publication'[a].stage # "none"
    BY <1>1, <1>7 DEF GivenUp, Publication
  <2>2. /\ binding'[a].id = binding[a].id
        /\ binding'[a].publication => binding[a].publication
        /\ reservation'[a] = reservation[a] /\ granted'[a] = granted[a]
    BY <1>1, <1>7 DEF GivenUp, Binding
  <2> QED
    BY <1>1, <2>1, <2>2
<1> QED
  BY <1>1, <1>2, <1>3, <1>4, <1>5, <1>6, <1>7, AccountSteps

(* Only a registration and a link change the id of a binding.               *)
LEMMA OthersKeepId ==
    ASSUME IdentityTypes, NEW a \in Accounts,
           Unmoved(a) \/ Waits(a) \/ BranchOff(a) \/ Merge(a) \/ Confirm(a) \/ GivenUp(a)
    PROVE  binding'[a].id = binding[a].id
<1>1. binding[a] \in Binding
  BY DEF IdentityTypes
<1>2. CASE Unmoved(a) \/ BranchOff(a) \/ Merge(a)
  BY <1>2 DEF Unmoved, BranchOff, Merge
<1>3. CASE Waits(a)
  BY <1>1, <1>3 DEF Waits, Binding
<1>4. CASE Confirm(a)
  <2>1. PICK state : binding' = [binding EXCEPT ![a].state = state]
    BY <1>4 DEF Confirm
  <2> QED
    BY <1>1, <2>1 DEF IdentityTypes, Binding
<1>5. CASE GivenUp(a)
  BY <1>1, <1>5 DEF GivenUp, Binding
<1> QED
  BY <1>2, <1>3, <1>4, <1>5

LEMMA IdsAreDistinctStep ==
    ASSUME ProjectionTypes, IdentityTypes, RegistryGrows, ReservedIsNew, ReservedIsNew',
           IdIsOwn, IdsAreDistinct, [Next]_vars
    PROVE  IdsAreDistinct'
<1>1. CASE \A a \in Accounts : binding'[a].id = binding[a].id
  BY <1>1 DEF IdsAreDistinct
<1>2. ASSUME NEW a \in Accounts, Register(a) PROVE IdsAreDistinct'
  <2>1. /\ binding'[a].id = reservation'[a] /\ reservation'[a] # NoId
        /\ \A b \in Accounts : b # a => /\ reservation'[b] = reservation[b]
                                        /\ binding'[b] = binding[b]
    <3>1. binding'[a] = [state |-> "reserved", id |-> reservation'[a], publication |-> TRUE]
      BY <1>2, RegisterFacts, Zenon
    <3>2. /\ reservation'[a] # NoId
          /\ \A b \in Accounts : b # a => /\ reservation'[b] = reservation[b]
                                          /\ binding'[b] = binding[b]
      BY <1>2, RegisterFacts, Zenon
    <3> QED
      BY <3>1, <3>2
  <2>2. ASSUME NEW b \in Accounts, b # a PROVE binding'[b].id # binding'[a].id
    <3>1. binding[b].id \in {NoId, reservation[b]} \cup granted[b]
      BY DEF IdIsOwn
    <3>2. reservation'[a] # reservation[b] /\ reservation'[a] \notin Existing
      BY <2>1, <2>2 DEF ReservedIsNew
    <3>3. granted[b] \subseteq Existing
      BY AccountsAssumption DEF IdentityTypes
    <3> QED
      BY <2>1, <2>2, <3>1, <3>2, <3>3
  <2> QED
    BY <2>1, <2>2 DEF IdsAreDistinct
<1>3. ASSUME NEW a \in Accounts, NEW x \in Claimable, LinkedTo(a, x) PROVE IdsAreDistinct'
  <2>1. /\ binding'[a].id = x
        /\ \A b \in Accounts : b # a => binding'[b] = binding[b]
    BY <1>3 DEF LinkedTo, IdentityTypes, Binding
  <2>2. \A b \in Accounts : b # a => binding[b].id # x
    BY <1>3 DEF LinkedTo, Others
  <2> QED
    BY <2>1, <2>2 DEF IdsAreDistinct
<1>4. \/ \E a \in Accounts : Register(a)
      \/ \E a \in Accounts, x \in Claimable : LinkedTo(a, x)
      \/ \A a \in Accounts : binding'[a].id = binding[a].id
  <2> SUFFICES ASSUME NEW a \in Accounts, ~Register(a), ~\E x \in Claimable : LinkedTo(a, x)
               PROVE  binding'[a].id = binding[a].id
    OBVIOUS
  <2>1. Unmoved(a) \/ Waits(a) \/ BranchOff(a) \/ Merge(a) \/ Confirm(a) \/ GivenUp(a)
    BY AccountSteps
  <2> QED
    BY <2>1, OthersKeepId
<1> QED
  BY <1>1, <1>2, <1>3, <1>4

LEMMA PublishedIsMergedStep ==
    ASSUME ProjectionTypes, IdentityTypes, RegistryGrows, ReservedIsNew, IdIsOwn,
           PublishedIsMerged, [Next]_vars
    PROVE  PublishedIsMerged'
<1> SUFFICES ASSUME NEW a \in Accounts
             PROVE  /\ publication'[a].stage = "open" => publication'[a].base \in 1..Len(main')
                    /\ publication'[a].stage \in {"merged", "verified"} =>
                          /\ publication'[a].base + 1 \in 1..Len(main')
                          /\ reservation'[a] \in main'[publication'[a].base + 1]
                    /\ publication'[a].stage # "none" => reservation'[a] # NoId
                    /\ binding'[a].state = "registered" =>
                          publication'[a].stage = "verified" /\ binding'[a].id # NoId
  BY DEF PublishedIsMerged, Merged, MergeCommit
<1>1. /\ binding[a] \in Binding /\ publication[a] \in Publication
      /\ Len(main) \in 1..Len(main) /\ Len(main') \in Nat /\ Len(main) <= Len(main')
      /\ \A k \in 1..Len(main) : main'[k] = main[k]
  BY MainGrows DEF IdentityTypes, ProjectionTypes, RegistryTypes
<1>2. /\ publication[a].stage = "open" => publication[a].base \in 1..Len(main)
      /\ publication[a].stage \in {"merged", "verified"} =>
            /\ publication[a].base + 1 \in 1..Len(main)
            /\ reservation[a] \in main[publication[a].base + 1]
      /\ publication[a].stage # "none" => reservation[a] # NoId
      /\ binding[a].state = "registered" =>
            publication[a].stage = "verified" /\ binding[a].id # NoId
  BY DEF PublishedIsMerged, Merged, MergeCommit
<1>3. 1..Len(main) \subseteq 1..Len(main')
  BY <1>1
<1>4. CASE Unmoved(a)
  BY <1>1, <1>2, <1>3, <1>4 DEF Unmoved
<1>5. CASE Waits(a)
  <2>1. binding'[a].state # "registered"
    BY <1>1, <1>5 DEF Waits, Binding
  <2> QED
    BY <1>1, <1>2, <1>3, <1>5, <2>1 DEF Waits
<1>6. ASSUME NEW x \in Claimable, LinkedTo(a, x)
      PROVE  /\ binding'[a].state = "linked"
             /\ reservation'[a] = reservation[a] /\ publication'[a] = publication[a]
  BY <1>6 DEF LinkedTo, IdentityTypes, Binding
<1>7. CASE Register(a)
  <2>1. /\ reservation'[a] # NoId
        /\ reservation[a] # NoId => reservation'[a] = reservation[a]
        /\ binding'[a] = [state |-> "reserved", id |-> reservation'[a], publication |-> TRUE]
        /\ publication'[a] = [publication[a] EXCEPT !.stage = IF @ = "none" THEN "queued" ELSE @]
    BY <1>7, RegisterFacts, Zenon
  <2>2. binding'[a].state = "reserved"
    BY <2>1
  <2>3. publication'[a] = publication[a] \/ publication'[a].stage = "queued"
    BY <1>1, <2>1 DEF Publication
  <2>4. publication'[a] = publication[a] =>
           publication[a].stage # "none"
    BY <1>1, <2>1 DEF Publication
  <2>5. CASE publication'[a] = publication[a]
    BY <1>1, <1>2, <1>3, <2>1, <2>2, <2>4, <2>5
  <2>6. CASE publication'[a].stage = "queued"
    BY <2>1, <2>2, <2>6
  <2> QED
    BY <2>3, <2>5, <2>6
<1>8. CASE BranchOff(a)
  <2>1. /\ publication[a].stage = "queued"
        /\ publication'[a] = [stage |-> "open", base |-> Len(main)]
        /\ binding' = binding /\ reservation' = reservation
    BY <1>8 DEF BranchOff, IdentityTypes
  <2> QED
    BY <1>1, <1>2, <1>3, <2>1
<1>9. CASE Merge(a)
  <2> DEFINE authors == main[Len(main)] \cup {reservation[a]}
  <2>1. /\ publication[a].stage = "open" /\ publication[a].base = Len(main)
        /\ publication'[a] = [publication[a] EXCEPT !.stage = "merged"]
        /\ binding' = binding /\ reservation' = reservation
        /\ Advance(authors, "none")
    BY <1>9 DEF Merge, Stage, IdentityTypes
  <2>2. publication'[a].stage = "merged" /\ publication'[a].base = Len(main)
    BY <1>1, <2>1 DEF Publication
  <2>3. authors \in SUBSET Nat
    BY <1>1 DEF IdentityTypes, ProjectionTypes, RegistryTypes
  <2>4. Len(main') = Len(main) + 1 /\ main'[Len(main) + 1] = authors
    BY <2>1, <2>3, AdvanceFacts DEF ProjectionTypes
  <2> QED
    BY <1>1, <1>2, <2>1, <2>2, <2>4
<1>10. CASE Confirm(a)
  <2>1. /\ publication[a].stage = "merged"
        /\ publication'[a] = [publication[a] EXCEPT !.stage = "verified"]
        /\ reservation' = reservation
        /\ binding'[a] = [binding[a] EXCEPT !.state = IF binding[a].publication
                                                     THEN "registered" ELSE @]
    BY <1>10 DEF Confirm, Stage, IdentityTypes
  <2>2. publication'[a].stage = "verified" /\ publication'[a].base = publication[a].base
    BY <1>1, <2>1 DEF Publication
  <2>3. binding'[a].state = "registered" => binding'[a].id # NoId
    <3>1. binding[a].publication => binding[a].id # NoId
      BY DEF IdIsOwn
    <3>2. binding'[a].id = binding[a].id
          /\ (~binding[a].publication => binding'[a].state = binding[a].state)
      BY <1>1, <2>1 DEF Binding
    <3> QED
      BY <1>2, <2>1, <3>1, <3>2
  <2> QED
    BY <1>1, <1>2, <1>3, <2>1, <2>2, <2>3
<1>11. CASE GivenUp(a)
  <2>1. /\ publication[a].stage \notin {"none", "merged", "verified"}
        /\ publication'[a].stage \in {"abandoned", "released", "over"}
        /\ reservation'[a] = reservation[a]
    BY <1>1, <1>11 DEF GivenUp, Publication
  <2>2. binding'[a].state # "registered"
    BY <1>1, <1>2, <1>11, <2>1 DEF GivenUp, Binding
  <2> QED
    BY <1>2, <2>1, <2>2
<1> QED
  BY <1>1, <1>2, <1>3, <1>4, <1>5, <1>6, <1>7, <1>8, <1>9, <1>10, <1>11, AccountSteps

-----------------------------------------------------------------------------
(* The theorems.                                                            *)

LEMMA InductiveInit == Init => Inductive
<1> SUFFICES ASSUME Init PROVE Inductive
  OBVIOUS
<1>1. /\ main = <<Existing>> /\ refresh = << "none" >> /\ fetched = 1
      /\ snapshot = <<[current |-> TRUE, time |-> 0]>>
      /\ reader = [w \in Readers |-> NoRead] /\ stamps = 0
      /\ disordered = FALSE /\ missed = FALSE /\ failures = 0
  BY DEF Init, ProjectionInit
<1>2. Existing \in SUBSET Nat /\ IsFiniteSet(Existing)
  BY AccountsAssumption
<1>3. ProjectionTypes
  <2>1. RegistryTypes
    BY <1>1, <1>2 DEF RegistryTypes, JobStates
  <2>2. ReaderTypes
    BY <1>1 DEF ReaderTypes, ReaderRow, NoRead
  <2>3. SnapshotTypes
    <3> DEFINE first == [current |-> TRUE, time |-> 0]
    <3>1. first \in Row /\ snapshot = <<first>>
      BY <1>1 DEF Row
    <3> HIDE DEF first
    <3>2. DOMAIN snapshot = 1..1 /\ snapshot[1] = first
      BY <3>1
    <3>3. Len(main) = 1
      BY <1>1
    <3>4. stamps \in Nat /\ failures \in 0..MaxFailures
      BY <1>1, ReadersAssumption
    <3>5. disordered \in BOOLEAN /\ missed \in BOOLEAN
      BY <1>1
    <3>6. \A k \in DOMAIN snapshot : k = 1
      BY <3>2
    <3>7. DOMAIN snapshot \subseteq 1..Len(main)
      BY <3>2, <3>3
    <3>8. \A k \in DOMAIN snapshot : snapshot[k] \in Row
      BY <3>1, <3>2, <3>6
    <3> QED
      BY <3>4, <3>5, <3>7, <3>8 DEF SnapshotTypes
  <2> QED
    BY <2>1, <2>2, <2>3 DEF ProjectionTypes
<1>4. IdentityTypes
  BY DEF Init, IdentityTypes, NoBinding, Binding, NoId, States, JobStates, Publication, Stages
<1>5. \A a \in Accounts : /\ reservation[a] = NoId /\ granted[a] = {}
                          /\ binding[a] = NoBinding /\ publication[a].stage = "none"
  BY DEF Init
<1>6. RegistryGrows
  BY <1>1, <1>2 DEF RegistryGrows
<1>7. ReservedIsNew
  <2>1. ReservedIds \subseteq {NoId}
    BY <1>5 DEF ReservedIds
  <2> QED
    BY <1>5, <2>1, FS_Singleton, FS_Subset DEF ReservedIsNew
<1>8. IdIsOwn /\ IdsAreDistinct /\ PublishedIsMerged
  BY <1>5 DEF IdIsOwn, IdsAreDistinct, PublishedIsMerged, Merged, NoBinding
<1>9. RefreshedIsRead
  BY <1>1 DEF RefreshedIsRead, NoRead
<1>10. ReadInOrder /\ NewestIsCurrent
  BY <1>1 DEF ReadInOrder, NewestIsCurrent, Before, Stamped, NoRead
<1> QED
  BY <1>3, <1>4, <1>6, <1>7, <1>8, <1>9, <1>10 DEF Inductive

THEOREM InductiveHolds == Spec => []Inductive
<1>1. Inductive /\ [Next]_vars => Inductive'
  <2> SUFFICES ASSUME Inductive, [Next]_vars PROVE Inductive'
    OBVIOUS
  <2> USE DEF Inductive
  <2>1. ProjectionTypes' /\ RegistryGrows'
    BY ProjectionTypesStep, RegistryGrowsStep
  <2>2. IdentityTypes'
    BY IdentityTypesStep
  <2>3. ReservedIsNew'
    BY ReservedIsNewStep
  <2>4. IdIsOwn' /\ IdsAreDistinct'
    BY <2>3, IdIsOwnStep, IdsAreDistinctStep
  <2>5. PublishedIsMerged'
    BY PublishedIsMergedStep
  <2>6. RefreshedIsRead' /\ ReadInOrder' /\ NewestIsCurrent'
    BY RefreshedIsReadStep, ReadInOrderStep, NewestIsCurrentStep
  <2> QED
    BY <2>1, <2>2, <2>3, <2>4, <2>5, <2>6
<1> QED
  BY <1>1, InductiveInit, PTL DEF Spec

(* Every variable keeps its type, and no AuthorID has two accounts.          *)
THEOREM TypeCorrect == Spec => []TypeOK
<1>1. Inductive => TypeOK
  <2> SUFFICES ASSUME Inductive PROVE TypeOK
    OBVIOUS
  <2>1. ProjectionTypes /\ IdentityTypes /\ IdsAreDistinct
    BY DEF Inductive
  <2>2. ProjectionTypeOK
    BY <2>1 DEF ProjectionTypeOK, ProjectionTypes, RegistryTypes, ReaderTypes, SnapshotTypes,
                ReaderRow, JobStates
  <2>3. \A a \in Accounts : publication[a].stage \in Stages
    BY <2>1 DEF IdentityTypes, Publication
  <2> QED
    BY <2>1, <2>2, <2>3 DEF TypeOK, IdentityTypes, IdsAreDistinct, JobStates
<1> QED
  BY <1>1, InductiveHolds, PTL

(* An account that has an AuthorID keeps it, but for a grant and its loss:   *)
(* what a registration writes over an id is the id the binding's key         *)
(* reserved.                                                                *)
THEOREM IdentityIsKeptHolds == Spec => IdentityIsKept
<1>1. Inductive /\ [Next]_vars =>
        [\A a \in Accounts :
           binding[a].id # NoId /\ binding'[a].id # binding[a].id =>
               \/ binding'[a].id \in granted'[a]
               \/ granted[a] # {} /\ binding'[a].id = reservation[a]
               \/ granted[a] # {} /\ reservation[a] = NoId]_vars
  <2> SUFFICES ASSUME Inductive, [Next]_vars, NEW a \in Accounts,
                      binding[a].id # NoId, binding'[a].id # binding[a].id
               PROVE  \/ binding'[a].id \in granted'[a]
                      \/ granted[a] # {} /\ binding'[a].id = reservation[a]
                      \/ granted[a] # {} /\ reservation[a] = NoId
    OBVIOUS
  <2>1. /\ ProjectionTypes /\ IdentityTypes /\ RegistryGrows /\ ReservedIsNew
        /\ binding[a].id \in {NoId, reservation[a]} \cup granted[a]
    BY DEF Inductive, IdIsOwn
  <2>2. CASE \E x \in Claimable : LinkedTo(a, x)
    BY <2>1, <2>2 DEF LinkedTo, IdentityTypes, Binding
  <2>3. CASE Register(a)
    <3>1. /\ binding'[a] = [state |-> "reserved", id |-> reservation'[a], publication |-> TRUE]
          /\ reservation[a] # NoId => reservation'[a] = reservation[a]
      BY <2>1, <2>3, RegisterFacts, Zenon
    <3>2. binding'[a].id = reservation'[a]
      BY <3>1
    <3> QED
      BY <2>1, <3>1, <3>2
  <2>4. CASE Unmoved(a) \/ Waits(a) \/ BranchOff(a) \/ Merge(a) \/ Confirm(a) \/ GivenUp(a)
    BY <2>1, <2>4, OthersKeepId
  <2> QED
    BY <2>1, <2>2, <2>3, <2>4, AccountSteps
<1> QED
  BY <1>1, InductiveHolds, PTL DEF Spec, IdentityIsKept

(* While commits are refreshed in order and no fetch is missed, the catalog  *)
(* shows the author of every registered binding whose commit was refreshed. *)
THEOREM RegisteredIsShownHolds == Spec => []RegisteredIsShown
<1>1. Inductive => RegisteredIsShown
  <2> SUFFICES ASSUME Inductive, ~disordered, ~missed, NEW a \in Accounts,
                      binding[a].state = "registered", refresh[MergeCommit(a)] = "succeeded"
               PROVE  binding[a].id \in main[Shown]
    BY DEF RegisteredIsShown
  <2> DEFINE k == MergeCommit(a)
  <2>1. /\ k \in 1..Len(main) /\ reservation[a] \in main[k]
        /\ binding[a].id # NoId /\ binding[a].id \in {NoId, reservation[a]} \cup granted[a]
    BY DEF Inductive, PublishedIsMerged, Merged, IdIsOwn
  <2>2. k \in DOMAIN snapshot
    BY <2>1 DEF Inductive, RefreshedIsRead
  <2>3. Shown \in DOMAIN snapshot /\ k <= Shown
    BY <2>2, ShownIsNewest DEF Inductive
  <2>4. Shown \in 1..Len(main)
    BY <2>3 DEF Inductive, ProjectionTypes, SnapshotTypes
  <2>5. main[k] \subseteq main[Shown] /\ Existing \subseteq main[Shown]
    BY <2>1, <2>3, <2>4 DEF Inductive, RegistryGrows
  <2>6. granted[a] \subseteq Existing
    BY AccountsAssumption DEF Inductive, IdentityTypes
  <2> QED
    BY <2>1, <2>5, <2>6
<1> QED
  BY <1>1, InductiveHolds, PTL
=============================================================================
