-------------------------- MODULE AllocationProofs --------------------------
(***************************************************************************)
(* Theorems about Allocation, for every set of operations and every bound.  *)
(***************************************************************************)
EXTENDS Allocation, TLAPS, WellFoundedInduction, FiniteSetTheorems

(* NextAbove is defined, lies above its set, and is the lowest to do so.    *)
LEMMA NextAboveIsAbove ==
    ASSUME NEW S, S \subseteq 0..Top
    PROVE  /\ NextAbove(S) \in 1..(Top + 1)
           /\ \A m \in S : m < NextAbove(S)
           /\ NextAbove(S) = 1 \/ NextAbove(S) - 1 \in S
<1> DEFINE Bounds == {n \in Nat : n # 0 /\ \A m \in S : m < n}
<1>1. Top + 1 \in Bounds
  BY LimitAssumption
<1>2. PICK n \in Bounds : \A l \in Bounds : n <= l
  <2>1. PICK n \in Bounds : \A l \in Bounds : <<l, n>> \notin OpToRel(<, Nat)
    <3>1. Bounds \subseteq Nat /\ Bounds # {}
      BY <1>1
    <3> HIDE DEF Bounds
    <3> QED
      BY <3>1, NatLessThanWellFounded, WFMin
  <2>2. \A l \in Bounds : ~(l < n)
    BY <2>1, Zenon DEF OpToRel
  <2> QED
    BY <2>2
<1>3. n \in 1..(Top + 1) /\ \A m \in S : m < n
  BY <1>1, <1>2, LimitAssumption
<1>4. n = 1 \/ n - 1 \in S
  <2> SUFFICES ASSUME n # 1 PROVE n - 1 \in S
    OBVIOUS
  <2>1. n - 1 \in Nat /\ n - 1 # 0 /\ n - 1 \notin Bounds
    BY <1>2, <1>3
  <2>2. PICK m \in S : ~(m < n - 1)
    BY <2>1
  <2>3. m \in Nat /\ m < n
    BY <1>3
  <2>4. m = n - 1
    BY <2>2, <2>3, <1>3
  <2> QED
    BY <2>4
<1>5. \E k \in 1..(Top + 1) : (\A m \in S : m < k) /\ (k = 1 \/ k - 1 \in S)
  BY <1>3, <1>4
<1> QED
  BY <1>5 DEF NextAbove

LEMMA EntryTypes == NoEntry \in Entry /\ EmptyLedger \in Ledger
BY DEF NoEntry, Entry, EmptyLedger, Ledger

LEMMA UsedNumbers ==
    ASSUME NEW l
    PROVE  Used(l) \subseteq 0..Top
BY LimitAssumption DEF Used, Values

LEMMA NextFreeType ==
    ASSUME NEW l
    PROVE  NextFree(l) \in Nat
<1>1. NextAbove(Used(l)) \in 1..(Top + 1)
  BY UsedNumbers, NextAboveIsAbove
<1> QED
  BY <1>1, LimitAssumption DEF NextFree

(* A candidate is made of well-formed entries.                              *)
LEMMA CandidateType ==
    ASSUME TypeOK, NEW k \in Keys, NEW v \in Values
    PROVE  CandidateEntry(k, v) \in Entry
<1> DEFINE own == {j \in AllocationsOf(k) : allocation[j].value = v}
           e == IF attempt[k].base[v] = NoEntry /\ own # {}
                THEN LedgerEntry(CHOOSE j \in own : TRUE)
                ELSE attempt[k].base[v]
<1>1. attempt[k].base[v] \in Entry
  BY DEF TypeOK, Attempt, Ledger
<1>2. \A j \in Keys : LedgerEntry(j) \in Entry
  BY DEF LedgerEntry, Entry, Holders
<1>3. own # {} => (CHOOSE j \in own : TRUE) \in Keys
  BY DEF AllocationsOf
<1>4. e \in Entry
  BY <1>1, <1>2, <1>3
<1>5. PublishedEntry(k, v, e) \in Entry
  BY <1>4 DEF PublishedEntry, Entry
<1> QED
  BY <1>5 DEF CandidateEntry

LEMMA ReserveType ==
    ASSUME TypeOK, NEW k \in Keys, Reserve(k)
    PROVE  TypeOK'
<1> DEFINE number == Larger(NextFree(attempt[k].base), NextAbove(HighestLocal))
<1>1. HighestLocal \subseteq 0..Top
  BY DEF HighestLocal, TypeOK, Row
<1>2. NextAbove(HighestLocal) \in Nat
  <2>1. NextAbove(HighestLocal) \in 1..(Top + 1)
    BY <1>1, NextAboveIsAbove
  <2> QED
    BY <2>1, LimitAssumption
<1>3. NextFree(attempt[k].base) \in Nat
  BY NextFreeType
<1>4. number \in Nat
  BY <1>2, <1>3 DEF Larger
<1>5. allocation' \in [Keys -> Row]
  BY <1>4, LimitAssumption DEF Reserve, TypeOK, Row, AllocationStates
<1>6. attempt' \in [Keys -> Attempt]
  BY DEF Reserve, TypeOK, Attempt, Phases
<1> QED
  BY <1>5, <1>6 DEF Reserve, TypeOK

(* Every variable keeps its type: the invariant of Allocation's runs.       *)
THEOREM TypeCorrect == Spec => []TypeOK
<1>1. Init => TypeOK
  BY EntryTypes, LimitAssumption
     DEF Init, TypeOK, Row, AllocationStates, Attempt, NewAttempt, Phases
<1>2. TypeOK /\ [Next]_vars => TypeOK'
  <2> SUFFICES ASSUME TypeOK, [Next]_vars PROVE TypeOK'
    OBVIOUS
  <2> USE DEF TypeOK
  <2>1. ASSUME NEW k \in Keys, Pin(k) PROVE TypeOK'
    BY <2>1, EntryTypes DEF Pin, Attempt, NewAttempt, Phases
  <2>2. ASSUME NEW k \in Keys, Reserve(k) PROVE TypeOK'
    BY <2>2, ReserveType
  <2>3. ASSUME NEW k \in Keys, Prepare(k) PROVE TypeOK'
    <3>1. [v \in Values |-> IF CandidateEntry(k, v) = attempt[k].base[v]
                            THEN NoEntry ELSE CandidateEntry(k, v)] \in Ledger
      BY CandidateType, EntryTypes DEF Ledger
    <3>2. AllocationsOf(k) \in SUBSET Keys
      BY DEF AllocationsOf
    <3>3. attempt'[k] \in Attempt
      <4> DEFINE F == [v \in Values |-> IF CandidateEntry(k, v) = attempt[k].base[v]
                                       THEN NoEntry ELSE CandidateEntry(k, v)]
      <4> HIDE DEF F
      <4>1. attempt'[k] = [attempt[k] EXCEPT !.phase = "prepared",
                                             !.carried = AllocationsOf(k), !.files = F]
        BY <2>3 DEF Prepare, F
      <4> QED
        BY <4>1, <3>1, <3>2 DEF Attempt, Phases, F
    <3>4. attempt' \in [Keys -> Attempt]
      BY <2>3, <3>3 DEF Prepare
    <3> QED
      BY <2>3, <3>4 DEF Prepare
  <2>4. ASSUME NEW k \in Keys, Queue(k) PROVE TypeOK'
    BY <2>4 DEF Queue, Attempt, Phases, Row, AllocationStates
  <2>5. ASSUME NEW k \in Keys, Merge(k) PROVE TypeOK'
    <3>1. ledger' \in Ledger
      BY <2>5 DEF Merge, Ledger, Attempt
    <3> QED
      BY <2>5, <3>1 DEF Merge, Attempt, Phases
  <2>6. ASSUME NEW k \in Keys, Verify(k) PROVE TypeOK'
    <3>1. allocation' \in [Keys -> Row]
      BY <2>6 DEF Verify, Row, AllocationStates
    <3>2. attempt' \in [Keys -> Attempt]
      BY <2>6 DEF Verify, Attempt, Phases
    <3> QED
      BY <2>6, <3>1, <3>2 DEF Verify
  <2>7. ASSUME NEW k \in Keys, Abandon(k) PROVE TypeOK'
    BY <2>7, SMTT(60) DEF Abandon, Attempt, Phases, Row, AllocationStates
  <2>8. ASSUME NEW c \in Contributors, ContributorReserves(c) PROVE TypeOK'
    <3>1. NextFree(ledger) \in Nat
      BY NextFreeType
    <3> QED
      BY <2>8, <3>1, LimitAssumption DEF ContributorReserves
  <2>9. ASSUME NEW c \in Contributors, ContributorLands(c) PROVE TypeOK'
    BY <2>9 DEF ContributorLands, Ledger, Entry, Holders
  <2>10. CASE UNCHANGED vars
    BY <2>10 DEF vars
  <2> QED
    BY <2>1, <2>2, <2>3, <2>4, <2>5, <2>6, <2>7, <2>8, <2>9, <2>10
       DEF Next, Portal, Direct
<1> QED
  BY <1>1, <1>2, PTL DEF Spec

-----------------------------------------------------------------------------
(* A reservation leaves every row alone, or numbers one row above all.      *)
LEMMA ReserveIssuesAbove ==
    ASSUME TypeOK, NEW k \in Keys, Reserve(k)
    PROVE  \/ allocation' = allocation
           \/ /\ allocation[k].value = 0
              /\ allocation'[k].state = "local"
              /\ \A j \in Keys : /\ j # k => allocation'[j] = allocation[j]
                                 /\ allocation[j].value < allocation'[k].value
<1> DEFINE number == Larger(NextFree(attempt[k].base), NextAbove(HighestLocal))
<1>1. CASE Issued(k) /\ UNCHANGED allocation
  BY <1>1
<1>2. CASE ~Issued(k) /\ allocation' = [allocation EXCEPT ![k] =
                                          [value |-> number, state |-> "local"]]
  <2>1. HighestLocal \subseteq 0..Top
    BY DEF HighestLocal, TypeOK, Row
  <2>2. NextAbove(HighestLocal) \in Nat
    <3>1. NextAbove(HighestLocal) \in 1..(Top + 1)
      BY <2>1, NextAboveIsAbove
    <3> QED
      BY <3>1, LimitAssumption
  <2>3. \A m \in HighestLocal : m < NextAbove(HighestLocal)
    BY <2>1, NextAboveIsAbove
  <2>4. NextFree(attempt[k].base) \in Nat
    BY NextFreeType
  <2>5. number \in Nat /\ NextAbove(HighestLocal) <= number
    BY <2>2, <2>4 DEF Larger
  <2>6. \A j \in Keys : allocation[j].value \in HighestLocal /\ allocation[j].value \in Nat
    BY LimitAssumption DEF HighestLocal, TypeOK, Row
  <2> HIDE DEF number
  <2>7. \A j \in Keys : allocation[j].value < number
    BY <2>2, <2>3, <2>5, <2>6
  <2>8. /\ allocation'[k].value = number
        /\ allocation'[k].state = "local"
        /\ \A j \in Keys \ {k} : allocation'[j] = allocation[j]
    BY <1>2 DEF TypeOK
  <2> QED
    BY <1>2, <2>7, <2>8 DEF Issued
<1> QED
  BY <1>1, <1>2 DEF Reserve

(* A step that is not a reservation changes no number.                      *)
LEMMA OnlyReserveNumbers ==
    ASSUME TypeOK, [Next]_vars, ~\E k \in Keys : Reserve(k)
    PROVE  \A j \in Keys : allocation'[j].value = allocation[j].value
<1> USE DEF TypeOK, Row
<1>1. ASSUME NEW k \in Keys, Queue(k)
      PROVE  \A j \in Keys : allocation'[j].value = allocation[j].value
  BY <1>1 DEF Queue
<1>2. ASSUME NEW k \in Keys, Verify(k)
      PROVE  \A j \in Keys : allocation'[j].value = allocation[j].value
  BY <1>2 DEF Verify
<1>3. ASSUME NEW k \in Keys, Abandon(k)
      PROVE  \A j \in Keys : allocation'[j].value = allocation[j].value
  BY <1>3 DEF Abandon
<1>4. ASSUME NEW k \in Keys, Pin(k) \/ Prepare(k) \/ Merge(k)
      PROVE  \A j \in Keys : allocation'[j].value = allocation[j].value
  BY <1>4 DEF Pin, Prepare, Merge
<1>5. ASSUME NEW c \in Contributors, Direct(c)
      PROVE  \A j \in Keys : allocation'[j].value = allocation[j].value
  BY <1>5 DEF Direct, ContributorReserves, ContributorLands
<1>6. CASE UNCHANGED vars
  BY <1>6 DEF vars
<1> QED
  BY <1>1, <1>2, <1>3, <1>4, <1>5, <1>6 DEF Next, Portal

LEMMA NumbersKept ==
    ASSUME TypeOK, [Next]_vars, NEW j \in Keys, allocation[j].value # 0
    PROVE  allocation'[j].value = allocation[j].value
<1>1. CASE \E k \in Keys : Reserve(k)
  BY <1>1, ReserveIssuesAbove
<1>2. CASE ~\E k \in Keys : Reserve(k)
  BY <1>2, OnlyReserveNumbers
<1> QED
  BY <1>1, <1>2

LEMMA DistinctStep ==
    ASSUME TypeOK, DistinctValues, [Next]_vars
    PROVE  DistinctValues'
<1>1. ASSUME NEW k \in Keys, Reserve(k)
      PROVE  DistinctValues'
  <2>1. \A j \in Keys : allocation[j].value \in Nat
    BY LimitAssumption DEF TypeOK, Row
  <2>2. CASE allocation' = allocation
    BY <2>2 DEF DistinctValues
  <2>3. CASE allocation' # allocation
    <3>1. \A j \in Keys \ {k} : /\ allocation'[j].value = allocation[j].value
                                /\ allocation'[j].value # allocation'[k].value
      BY <1>1, <2>1, <2>3, ReserveIssuesAbove
    <3> QED
      BY <3>1 DEF DistinctValues
  <2> QED
    BY <2>2, <2>3
<1>2. CASE ~\E k \in Keys : Reserve(k)
  BY <1>2, OnlyReserveNumbers DEF DistinctValues
<1> QED
  BY <1>1, <1>2

(* The portal issues no number twice, whatever commits its attempts pinned. *)
THEOREM DistinctValuesHolds == Spec => []DistinctValues
<1>1. Init => DistinctValues
  BY DEF Init, DistinctValues
<1>2. TypeOK /\ DistinctValues /\ [Next]_vars => DistinctValues'
  BY DistinctStep
<1> QED
  BY <1>1, <1>2, TypeCorrect, PTL DEF Spec

(* Allocation implements IssuedNumbers: a reservation that numbers a row is  *)
(* an issue, and every other step leaves the numbers as they are.           *)
LEMMA ReserveIssues ==
    ASSUME TypeOK, TypeOK', NEW k \in Keys, Reserve(k)
    PROVE  Issuing!Issue(k) \/ UNCHANGED IssuedTo
<1> USE DEF IssuedTo
<1>1. CASE allocation' = allocation
  BY <1>1
<1>2. CASE allocation' # allocation
  <2>1. /\ allocation[k].value = 0
        /\ \A j \in Keys : /\ j # k => allocation'[j] = allocation[j]
                           /\ allocation[j].value < allocation'[k].value
    BY <1>2, ReserveIssuesAbove
  <2>2. allocation'[k].value \in 0..Top /\ allocation[k].value = 0
    BY <2>1 DEF TypeOK, Row
  <2>3. allocation'[k].value \in Values
    BY <2>1, <2>2, LimitAssumption DEF Values
  <2>4. IssuedTo' = [IssuedTo EXCEPT ![k] = allocation'[k].value]
    BY <2>1
  <2>5. IssuedTo[k] = 0 /\ \A p \in Keys : IssuedTo[p] < allocation'[k].value
    BY <2>1
  <2> QED
    BY <2>3, <2>4, <2>5 DEF Issuing!Issue
<1> QED
  BY <1>1, <1>2

LEMMA StepIssues ==
    ASSUME TypeOK, TypeOK', [Next]_vars
    PROVE  Issuing!Next \/ UNCHANGED IssuedTo
<1>1. CASE \E k \in Keys : Reserve(k)
  BY <1>1, ReserveIssues DEF Issuing!Next
<1>2. CASE ~\E k \in Keys : Reserve(k)
  BY <1>2, OnlyReserveNumbers DEF IssuedTo
<1> QED
  BY <1>1, <1>2

THEOREM IssuesOnceHolds == Spec => IssuesOnce
<1>1. Init => Issuing!Init
  BY DEF Init, Issuing!Init, IssuedTo
<1>2. TypeOK /\ TypeOK' /\ [Next]_vars
        => [Issuing!Next]_IssuedTo
  BY StepIssues
<1> QED
  BY <1>1, <1>2, TypeCorrect, PTL DEF Spec, IssuesOnce, Issuing!Spec

-----------------------------------------------------------------------------
(* The inductive invariant behind CommittedIsOnLedger.                      *)

(* An entry names its operation, and one of the portal's stands at the       *)
(* value of that operation.                                                 *)
Honest(l, rows) ==
    \A v \in Values : l[v] # NoEntry =>
        /\ l[v].op \in Holders
        /\ l[v].op \in Keys => rows[l[v].op].value = v

(* What a commit held once, the default branch holds for good.              *)
BaseIsPast ==
    \A k \in Keys : \A v \in Values : attempt[k].base[v] # NoEntry => ledger[v] # NoEntry

(* What an attempt carries is on its base or among its files, and once the   *)
(* files are merged on the default branch.                                  *)
CarriedIsFiled ==
    \A k \in Keys : \A j \in attempt[k].carried :
        LET v == allocation[j].value
        IN  /\ v # 0
            /\ attempt[k].phase \in {"prepared", "queued", "merged"} =>
                  attempt[k].base[v] # NoEntry \/ attempt[k].files[v] # NoEntry
            /\ attempt[k].phase = "merged" => ledger[v] # NoEntry

CommittedIsFiled ==
    \A k \in Keys : allocation[k].state = "ledger_committed" =>
        /\ allocation[k].value # 0
        /\ ledger[allocation[k].value] # NoEntry

AllHonest ==
    /\ Honest(ledger, allocation)
    /\ \A k \in Keys : Honest(attempt[k].base, allocation) /\ Honest(attempt[k].files, allocation)

Inductive ==
    /\ TypeOK
    /\ DistinctValues
    /\ AllHonest
    /\ BaseIsPast
    /\ CarriedIsFiled
    /\ CommittedIsFiled

LEMMA HonestKept ==
    ASSUME NEW l, NEW before, NEW after,
           \A j \in Keys : before[j].value # 0 => after[j].value = before[j].value,
           Honest(l, before)
    PROVE  Honest(l, after)
BY LimitAssumption DEF Honest, Values

(* The candidate of k: what it changes, and that it files what k carries.   *)
LEMMA CandidateIsHonest ==
    ASSUME TypeOK, AllHonest, NEW k \in Keys, NEW v \in Values,
           CandidateEntry(k, v) # NoEntry
    PROVE  /\ CandidateEntry(k, v).op \in Holders
           /\ CandidateEntry(k, v).op \in Keys =>
                 allocation[CandidateEntry(k, v).op].value = v
<1> DEFINE own == {j \in AllocationsOf(k) : allocation[j].value = v}
           e == IF attempt[k].base[v] = NoEntry /\ own # {}
                THEN LedgerEntry(CHOOSE j \in own : TRUE)
                ELSE attempt[k].base[v]
<1>1. own # {} => (CHOOSE j \in own : TRUE) \in own
  OBVIOUS
<1>2. own \subseteq {j \in Keys : allocation[j].value = v}
  BY DEF AllocationsOf
<1>3. \A j \in own : LedgerEntry(j).op = j /\ LedgerEntry(j) \in Entry /\ j \in Holders
  BY <1>2 DEF LedgerEntry, Entry, Holders
<1>4. attempt[k].base[v] \in Entry
  BY DEF TypeOK, Attempt, Ledger
<1>5. e \in Entry
  BY <1>1, <1>3, <1>4
<1>6. e # NoEntry => e.op \in Holders /\ (e.op \in Keys => allocation[e.op].value = v)
  <2>1. CASE attempt[k].base[v] = NoEntry /\ own # {}
    BY <2>1, <1>1, <1>2, <1>3
  <2>2. CASE ~(attempt[k].base[v] = NoEntry /\ own # {})
    BY <2>2 DEF AllHonest, Honest
  <2> QED
    BY <2>1, <2>2
<1>7. CandidateEntry(k, v) = PublishedEntry(k, v, e)
  BY DEF CandidateEntry
<1> HIDE DEF e
<1>8. PublishedEntry(k, v, e).op = e.op
  BY <1>5 DEF PublishedEntry, Entry
<1>9. e # NoEntry
  <2> SUFFICES ASSUME e = NoEntry PROVE FALSE
    OBVIOUS
  <2>1. PublishedEntry(k, v, e) = e
    BY DEF PublishedEntry, NoEntry
  <2> QED
    BY <2>1, <1>7
<1> QED
  BY <1>6, <1>7, <1>8, <1>9

LEMMA CandidateFiles ==
    ASSUME TypeOK, NEW k \in Keys, NEW j \in AllocationsOf(k)
    PROVE  CandidateEntry(k, allocation[j].value) # NoEntry
<1> DEFINE v == allocation[j].value
           own == {i \in AllocationsOf(k) : allocation[i].value = v}
           e == IF attempt[k].base[v] = NoEntry /\ own # {}
                THEN LedgerEntry(CHOOSE i \in own : TRUE)
                ELSE attempt[k].base[v]
<1>1. j \in own
  OBVIOUS
<1>2. (CHOOSE i \in own : TRUE) \in Keys
  BY <1>1 DEF AllocationsOf
<1>3. \A i \in Keys : LedgerEntry(i) # NoEntry
  BY HoldersAssumption DEF LedgerEntry, NoEntry
<1>4. v \in Values
  BY LimitAssumption DEF AllocationsOf, Values, TypeOK, Row
<1>5. attempt[k].base[v] \in Entry
  BY <1>4 DEF TypeOK, Attempt, Ledger
<1>6. \A i \in Keys : LedgerEntry(i) \in Entry
  BY DEF LedgerEntry, Entry, Holders
<1>7. e \in Entry /\ e # NoEntry
  BY <1>1, <1>2, <1>3, <1>5, <1>6
<1>8. CandidateEntry(k, v) = PublishedEntry(k, v, e)
  BY DEF CandidateEntry
<1> HIDE DEF e
<1>9. PublishedEntry(k, v, e) # NoEntry
  BY <1>7 DEF PublishedEntry, Entry, NoEntry
<1> QED
  BY <1>8, <1>9

-----------------------------------------------------------------------------
(* What each step does to the parts of the invariant.                       *)
LEMMA Prepared ==
    ASSUME TypeOK, NEW k \in Keys, Prepare(k)
    PROVE  /\ ledger' = ledger /\ allocation' = allocation
           /\ attempt[k].phase = "reserved" /\ attempt'[k].phase = "prepared"
           /\ attempt'[k].base = attempt[k].base
           /\ attempt'[k].carried = AllocationsOf(k)
           /\ \A v \in Values : attempt'[k].files[v] =
                 IF CandidateEntry(k, v) = attempt[k].base[v]
                 THEN NoEntry ELSE CandidateEntry(k, v)
           /\ \A i \in Keys \ {k} : attempt'[i] = attempt[i]
<1> DEFINE F == [v \in Values |-> IF CandidateEntry(k, v) = attempt[k].base[v]
                                  THEN NoEntry ELSE CandidateEntry(k, v)]
<1>1. \A v \in Values : F[v] = IF CandidateEntry(k, v) = attempt[k].base[v]
                               THEN NoEntry ELSE CandidateEntry(k, v)
  OBVIOUS
<1>2. /\ ledger' = ledger /\ allocation' = allocation
      /\ attempt[k].phase = "reserved"
      /\ attempt' = [attempt EXCEPT ![k].phase = "prepared",
                       ![k].carried = AllocationsOf(k), ![k].files = F]
  BY DEF Prepare
<1> HIDE DEF F
<1>3. /\ attempt'[k].phase = "prepared" /\ attempt'[k].files = F
      /\ attempt'[k].base = attempt[k].base
      /\ attempt'[k].carried = AllocationsOf(k)
      /\ \A i \in Keys \ {k} : attempt'[i] = attempt[i]
  BY <1>2 DEF TypeOK, Attempt
<1> QED
  BY <1>1, <1>2, <1>3

(* Every other step of an attempt changes its phase only, or starts it over. *)
LEMMA OtherSteps ==
    ASSUME TypeOK, [Next]_vars, ~\E k \in Keys : Prepare(k), NEW k \in Keys
    PROVE  \/ Pin(k) /\ attempt'[k] = [NewAttempt EXCEPT !.phase = "pinned", !.base = ledger]
           \/ /\ attempt'[k].base = attempt[k].base
              /\ attempt'[k].files = attempt[k].files
              /\ attempt'[k].carried = attempt[k].carried
              /\ \/ attempt'[k].phase = attempt[k].phase
                 \/ Reserve(k) /\ attempt'[k].phase = "reserved"
                 \/ Queue(k) /\ attempt'[k].phase = "queued"
                 \/ Merge(k) /\ attempt'[k].phase = "merged"
                 \/ attempt'[k].phase \in {"verified", "blocked", "abandoned"}
<1> USE DEF TypeOK, Attempt
<1>1. CASE \E c \in Contributors : Direct(c)
  BY <1>1 DEF Direct, ContributorReserves, ContributorLands
<1>2. CASE UNCHANGED vars
  BY <1>2 DEF vars
<1>3. ASSUME NEW i \in Keys, Pin(i)
      PROVE  \/ i = k /\ attempt'[k] = [NewAttempt EXCEPT !.phase = "pinned", !.base = ledger]
             \/ attempt'[k] = attempt[k]
  BY <1>3 DEF Pin
<1>4. ASSUME NEW i \in Keys, Reserve(i) \/ Queue(i) \/ Merge(i) \/ Verify(i) \/ Abandon(i)
      PROVE  \/ attempt'[k] = attempt[k]
             \/ /\ i = k
                /\ attempt'[k].base = attempt[k].base
                /\ attempt'[k].files = attempt[k].files
                /\ attempt'[k].carried = attempt[k].carried
                /\ \/ Reserve(k) /\ attempt'[k].phase = "reserved"
                   \/ Queue(k) /\ attempt'[k].phase = "queued"
                   \/ Merge(k) /\ attempt'[k].phase = "merged"
                   \/ attempt'[k].phase \in {"verified", "blocked", "abandoned"}
  <2>1. CASE Reserve(i)
    <3>1. attempt' = [attempt EXCEPT ![i].phase = "reserved"]
      BY <2>1 DEF Reserve
    <3> QED
      BY <2>1, <3>1
  <2>2. CASE Queue(i)
    <3>1. attempt' = [attempt EXCEPT ![i].phase = "queued"]
      BY <2>2 DEF Queue
    <3> QED
      BY <2>2, <3>1
  <2>3. CASE Merge(i)
    <3>1. attempt' = [attempt EXCEPT ![i].phase = "merged"]
      BY <2>3 DEF Merge
    <3> QED
      BY <2>3, <3>1
  <2>4. CASE Verify(i)
    <3>1. PICK phase \in {"verified", "blocked"} :
             attempt' = [attempt EXCEPT ![i].phase = phase]
      BY <2>4 DEF Verify
    <3> QED
      BY <3>1
  <2>5. CASE Abandon(i)
    BY <2>5 DEF Abandon
  <2> QED
    BY <1>4, <2>1, <2>2, <2>3, <2>4, <2>5
<1> QED
  BY <1>1, <1>2, <1>3, <1>4 DEF Next, Portal

(* The ledger only grows, by a candidate's files or a contributor's entry.   *)
LEMMA LedgerGrows ==
    ASSUME TypeOK, [Next]_vars, NEW v \in Values
    PROVE  \/ ledger'[v] = ledger[v]
           \/ \E k \in Keys : Merge(k) /\ attempt[k].files[v] # NoEntry
                              /\ ledger'[v] = attempt[k].files[v]
           \/ \E c \in Contributors : ledger'[v] = [op |-> c, state |-> "reserved"]
<1> USE DEF TypeOK, Ledger
<1>1. ASSUME NEW k \in Keys, Merge(k)
      PROVE  \/ ledger'[v] = ledger[v]
             \/ Merge(k) /\ attempt[k].files[v] # NoEntry /\ ledger'[v] = attempt[k].files[v]
  BY <1>1 DEF Merge
<1>2. ASSUME NEW c \in Contributors, ContributorLands(c)
      PROVE  ledger'[v] = ledger[v] \/ ledger'[v] = [op |-> c, state |-> "reserved"]
  BY <1>2 DEF ContributorLands
<1>3. CASE UNCHANGED ledger
  BY <1>3
<1> QED
  BY <1>1, <1>2, <1>3
     DEF Next, Portal, Direct, Pin, Reserve, Prepare, Queue, Verify, Abandon,
         ContributorReserves, vars

LEMMA EntriesStay ==
    ASSUME TypeOK, [Next]_vars, NEW v \in Values, ledger[v] # NoEntry
    PROVE  ledger'[v] # NoEntry
<1>1. \A c \in Contributors : [op |-> c, state |-> "reserved"] # NoEntry
  BY DEF NoEntry
<1> QED
  BY <1>1, LedgerGrows

LEMMA PastStep ==
    ASSUME TypeOK, BaseIsPast, [Next]_vars
    PROVE  BaseIsPast'
<1> SUFFICES ASSUME NEW k \in Keys, NEW v \in Values, attempt'[k].base[v] # NoEntry
             PROVE  ledger'[v] # NoEntry
  BY DEF BaseIsPast
<1>1. attempt'[k].base = attempt[k].base \/ attempt'[k].base = ledger
  BY OtherSteps, Prepared DEF NewAttempt
<1>2. ledger[v] # NoEntry
  BY <1>1 DEF BaseIsPast
<1> QED
  BY <1>2, EntriesStay

LEMMA HonestStep ==
    ASSUME TypeOK, AllHonest, [Next]_vars
    PROVE  AllHonest'
<1>1. \A j \in Keys : allocation[j].value # 0 => allocation'[j].value = allocation[j].value
  BY NumbersKept
<1>2. /\ Honest(ledger, allocation')
      /\ \A k \in Keys : Honest(attempt[k].base, allocation')
                         /\ Honest(attempt[k].files, allocation')
  BY <1>1, HonestKept DEF AllHonest
<1>3. Honest(ledger', allocation')
  <2> SUFFICES ASSUME NEW v \in Values, ledger'[v] # NoEntry
               PROVE  /\ ledger'[v].op \in Holders
                      /\ ledger'[v].op \in Keys => allocation'[ledger'[v].op].value = v
    BY DEF Honest
  <2>1. CASE ledger'[v] = ledger[v]
    BY <2>1, <1>2 DEF Honest
  <2>2. CASE \E k \in Keys : ledger'[v] = attempt[k].files[v]
    BY <2>2, <1>2 DEF Honest
  <2>3. CASE \E c \in Contributors : ledger'[v] = [op |-> c, state |-> "reserved"]
    BY <2>3, HoldersAssumption DEF Holders
  <2> QED
    BY <2>1, <2>2, <2>3, LedgerGrows
<1>4. ASSUME NEW k \in Keys
      PROVE  Honest(attempt'[k].base, allocation') /\ Honest(attempt'[k].files, allocation')
  <2>1. CASE /\ attempt'[k].base = attempt[k].base
             /\ attempt'[k].files = attempt[k].files
    BY <2>1, <1>2
  <2>2. CASE attempt'[k] = [NewAttempt EXCEPT !.phase = "pinned", !.base = ledger]
    <3>1. attempt'[k].base = ledger /\ attempt'[k].files = EmptyLedger
      BY <2>2 DEF NewAttempt
    <3>2. Honest(EmptyLedger, allocation')
      BY DEF Honest, EmptyLedger
    <3> QED
      BY <3>1, <3>2, <1>2
  <2>3. CASE Prepare(k)
    <3>1. attempt'[k].base = attempt[k].base /\ allocation' = allocation
      BY <2>3, Prepared
    <3>2. Honest(attempt'[k].files, allocation)
      BY <2>3, Prepared, CandidateIsHonest DEF Honest
    <3> QED
      BY <3>1, <3>2, <1>2
  <2>4. CASE \E i \in Keys \ {k} : Prepare(i)
    BY <2>4, Prepared, <2>1
  <2> QED
    BY <2>1, <2>2, <2>3, <2>4, OtherSteps
<1> QED
  BY <1>3, <1>4 DEF AllHonest

LEMMA CarriedStep ==
    ASSUME TypeOK, CarriedIsFiled, BaseIsPast, [Next]_vars
    PROVE  CarriedIsFiled'
<1> SUFFICES ASSUME NEW k \in Keys, NEW j \in attempt'[k].carried
             PROVE  LET v == allocation'[j].value
                    IN  /\ v # 0
                        /\ attempt'[k].phase \in {"prepared", "queued", "merged"} =>
                              \/ attempt'[k].base[v] # NoEntry
                              \/ attempt'[k].files[v] # NoEntry
                        /\ attempt'[k].phase = "merged" => ledger'[v] # NoEntry
  BY DEF CarriedIsFiled
<1> DEFINE v == allocation[j].value
<1>1. \A i \in Keys : attempt[i].carried \subseteq Keys
  BY DEF TypeOK, Attempt
<1>2. \A i \in Keys : allocation[i].value # 0 =>
         /\ allocation'[i].value = allocation[i].value
         /\ allocation[i].value \in Values
  BY NumbersKept, LimitAssumption DEF TypeOK, Row, Values
<1>3. CASE Prepare(k)
  <2>1. j \in AllocationsOf(k) /\ j \in Keys /\ v # 0
    BY <1>3, Prepared DEF AllocationsOf
  <2>2. attempt'[k].base[v] # NoEntry \/ attempt'[k].files[v] # NoEntry
    BY <1>2, <1>3, <2>1, Prepared, CandidateFiles
  <2>3. attempt'[k].phase = "prepared"
    BY <1>3, Prepared
  <2> QED
    BY <2>1, <2>2, <2>3, <1>2
<1>4. CASE attempt'[k] = [NewAttempt EXCEPT !.phase = "pinned", !.base = ledger]
  BY <1>4 DEF NewAttempt
<1>5. CASE /\ ~Prepare(k)
           /\ attempt'[k].base = attempt[k].base
           /\ attempt'[k].files = attempt[k].files
           /\ attempt'[k].carried = attempt[k].carried
  <2>1. /\ j \in attempt[k].carried /\ j \in Keys
        /\ v # 0 /\ v \in Values /\ allocation'[j].value = v
        /\ attempt[k].phase \in {"prepared", "queued", "merged"} =>
              attempt[k].base[v] # NoEntry \/ attempt[k].files[v] # NoEntry
        /\ attempt[k].phase = "merged" => ledger[v] # NoEntry
    BY <1>1, <1>2, <1>5 DEF CarriedIsFiled
  <2>2. CASE attempt'[k].phase = attempt[k].phase
    BY <1>5, <2>1, <2>2, EntriesStay
  <2>3. CASE Queue(k) /\ attempt'[k].phase = "queued"
    BY <1>5, <2>1, <2>3 DEF Queue
  <2>4. CASE Merge(k) /\ attempt'[k].phase = "merged"
    <3>1. attempt[k].base[v] # NoEntry \/ attempt[k].files[v] # NoEntry
      BY <2>1, <2>4 DEF Merge
    <3>2. attempt[k].files[v] # NoEntry => ledger'[v] = attempt[k].files[v]
      BY <2>1, <2>4 DEF Merge
    <3>3. attempt[k].base[v] # NoEntry => ledger'[v] # NoEntry
      BY <2>1, EntriesStay DEF BaseIsPast
    <3> QED
      BY <1>5, <2>1, <2>4, <3>1, <3>2, <3>3
  <2>5. CASE attempt'[k].phase \notin {"prepared", "queued", "merged"}
    BY <2>1, <2>5
  <2>6. \/ attempt'[k].phase = attempt[k].phase
        \/ Queue(k) /\ attempt'[k].phase = "queued"
        \/ Merge(k) /\ attempt'[k].phase = "merged"
        \/ attempt'[k].phase \notin {"prepared", "queued", "merged"}
    <3>1. CASE \E i \in Keys : Prepare(i)
      <4>1. PICK i \in Keys : Prepare(i)
        BY <3>1
      <4>2. i # k => attempt'[k] = attempt[k]
        BY <4>1, Prepared
      <4> QED
        BY <4>1, <4>2, <1>5
    <3>2. CASE ~\E i \in Keys : Prepare(i)
      BY <3>2, OtherSteps, <1>5 DEF NewAttempt
    <3> QED
      BY <3>1, <3>2
  <2> QED
    BY <2>2, <2>3, <2>4, <2>5, <2>6
<1> QED
  BY <1>3, <1>4, <1>5, OtherSteps, Prepared

(* Only a verification counts an allocation as committed.                   *)
LEMMA VerifyCommits ==
    ASSUME TypeOK, [Next]_vars, NEW k \in Keys,
           allocation'[k].state = "ledger_committed",
           allocation[k].state # "ledger_committed"
    PROVE  \E i \in Keys : Verify(i) /\ k \in attempt[i].carried
<1> USE DEF TypeOK, Row
<1>1. ASSUME NEW i \in Keys, Reserve(i) PROVE FALSE
  BY <1>1, ReserveIssuesAbove
<1>2. ASSUME NEW i \in Keys, Queue(i) PROVE FALSE
  BY <1>2 DEF Queue
<1>3. ASSUME NEW i \in Keys, Verify(i) PROVE k \in attempt[i].carried
  <2>1. allocation' # allocation
    OBVIOUS
  <2>2. allocation'[k] = IF k \in attempt[i].carried /\ allocation[k].state # "withdrawn"
                         THEN [allocation[k] EXCEPT !.state = "ledger_committed"]
                         ELSE allocation[k]
    BY <1>3, <2>1 DEF Verify, Committed
  <2> QED
    BY <2>2
<1>4. ASSUME NEW i \in Keys, Abandon(i) PROVE FALSE
  BY <1>4 DEF Abandon
<1>5. CASE UNCHANGED allocation
  BY <1>5
<1> QED
  BY <1>1, <1>2, <1>3, <1>4, <1>5
     DEF Next, Portal, Direct, Pin, Prepare, Merge, ContributorReserves,
         ContributorLands, vars

LEMMA CommittedStep ==
    ASSUME TypeOK, CarriedIsFiled, CommittedIsFiled, [Next]_vars
    PROVE  CommittedIsFiled'
<1> SUFFICES ASSUME NEW k \in Keys, allocation'[k].state = "ledger_committed"
             PROVE  /\ allocation'[k].value # 0
                    /\ ledger'[allocation'[k].value] # NoEntry
  BY DEF CommittedIsFiled
<1>1. allocation[k].value # 0 /\ ledger[allocation[k].value] # NoEntry
  <2>1. CASE allocation[k].state = "ledger_committed"
    BY <2>1 DEF CommittedIsFiled
  <2>2. CASE allocation[k].state # "ledger_committed"
    <3>1. PICK i \in Keys : Verify(i) /\ k \in attempt[i].carried
      BY <2>2, VerifyCommits
    <3>2. attempt[i].phase = "merged"
      BY <3>1 DEF Verify
    <3> QED
      BY <3>1, <3>2 DEF CarriedIsFiled
  <2> QED
    BY <2>1, <2>2
<1>2. allocation'[k].value = allocation[k].value /\ allocation[k].value \in Values
  BY <1>1, NumbersKept, LimitAssumption DEF TypeOK, Row, Values
<1> QED
  BY <1>1, <1>2, EntriesStay

-----------------------------------------------------------------------------
THEOREM InductiveHolds == Spec => []Inductive
<1>1. Init => Inductive
  <2> SUFFICES ASSUME Init PROVE Inductive
    OBVIOUS
  <2>1. TypeOK
    BY EntryTypes, LimitAssumption
       DEF Init, TypeOK, Row, AllocationStates, Attempt, NewAttempt, Phases
  <2>2. \A v \in Values : EmptyLedger[v] = NoEntry
    BY DEF EmptyLedger
  <2>3. ledger = EmptyLedger /\ \A k \in Keys : /\ attempt[k].base = EmptyLedger
                                                /\ attempt[k].files = EmptyLedger
                                                /\ attempt[k].carried = {}
    BY DEF Init, NewAttempt
  <2>4. AllHonest
    BY <2>2, <2>3 DEF AllHonest, Honest
  <2>5. BaseIsPast
    BY <2>2, <2>3 DEF BaseIsPast
  <2>6. CarriedIsFiled
    BY <2>3 DEF CarriedIsFiled
  <2>7. DistinctValues /\ CommittedIsFiled
    BY DEF Init, DistinctValues, CommittedIsFiled
  <2> QED
    BY <2>1, <2>4, <2>5, <2>6, <2>7 DEF Inductive
<1>2. TypeOK /\ TypeOK' /\ Inductive /\ [Next]_vars => Inductive'
  BY DistinctStep, HonestStep, PastStep, CarriedStep, CommittedStep DEF Inductive
<1> QED
  BY <1>1, <1>2, TypeCorrect, PTL DEF Spec

(* An allocation that counts as committed has a ledger entry on the default  *)
(* branch, its own or that of a contributor, never another key's.           *)
THEOREM CommittedIsOnLedgerHolds == Spec => []CommittedIsOnLedger
<1>1. Inductive => CommittedIsOnLedger
  <2> SUFFICES ASSUME Inductive, NEW k \in Keys, allocation[k].state = "ledger_committed"
               PROVE  ledger[allocation[k].value].op \in {k} \cup Contributors
    BY DEF CommittedIsOnLedger
  <2> DEFINE v == allocation[k].value
             o == ledger[v].op
  <2>1. v # 0 /\ v \in Values /\ ledger[v] # NoEntry
    BY LimitAssumption DEF Inductive, CommittedIsFiled, TypeOK, Row, Values
  <2>2. o \in Holders /\ (o \in Keys => allocation[o].value = v)
    BY <2>1 DEF Inductive, AllHonest, Honest
  <2>3. o \in Keys => o = k
    BY <2>1, <2>2 DEF Inductive, DistinctValues
  <2> QED
    BY <2>2, <2>3 DEF Holders
<1> QED
  BY <1>1, InductiveHolds, PTL

-----------------------------------------------------------------------------
(* The inductive invariant behind MarginOverrun: the numbers the portal       *)
(* issued are finitely many, and from the margin up to any of them it       *)
(* issued every one.                                                        *)
Numbered == {j \in Keys : allocation[j].value # 0}

Chained ==
    /\ IsFiniteSet(Numbered)
    /\ \A k \in Numbered, m \in Nat :
          Limit - Margin <= m /\ m < allocation[k].value
              => \E j \in Numbered : allocation[j].value = m

(* The number a reservation issues is free on its pinned commit, or follows  *)
(* one the portal issued.                                                   *)
LEMMA IssuedNext ==
    ASSUME TypeOK, NEW k \in Keys, Reserve(k), allocation' # allocation
    PROVE  /\ allocation'[k].value \in Nat
           /\ \A v \in Values : attempt[k].base[v] # NoEntry => v < Limit - Margin
           /\ \/ allocation'[k].value <= Limit - Margin
              \/ \E j \in Numbered : allocation'[k].value = allocation[j].value + 1
           /\ k \notin Numbered
           /\ Numbered' = Numbered \cup {k}
<1> DEFINE free   == NextFree(attempt[k].base)
           next   == NextAbove(HighestLocal)
           number == Larger(free, next)
<1>1. /\ ~Issued(k) /\ ~Exhausted(attempt[k].base)
      /\ allocation' = [allocation EXCEPT ![k] = [value |-> number, state |-> "local"]]
  BY DEF Reserve
<1>2. HighestLocal \subseteq 0..Top
  BY DEF HighestLocal, TypeOK, Row
<1>3. next \in 1..(Top + 1) /\ (next = 1 \/ next - 1 \in HighestLocal)
  BY <1>2, NextAboveIsAbove
<1>4. free \in 1..(Top + 1)
  BY UsedNumbers, NextAboveIsAbove DEF NextFree
<1>5. free <= Limit - Margin
  BY <1>1, <1>4, LimitAssumption DEF Exhausted, NextFree
<1>10. \A v \in Values : attempt[k].base[v] # NoEntry => v < Limit - Margin
  <2> SUFFICES ASSUME NEW v \in Values, attempt[k].base[v] # NoEntry
               PROVE  v < Limit - Margin
    OBVIOUS
  <2>1. v \in Used(attempt[k].base)
    BY DEF Used
  <2>2. v < free /\ v \in Nat
    BY <2>1, UsedNumbers, NextAboveIsAbove, LimitAssumption DEF NextFree, Values
  <2> QED
    BY <1>4, <1>5, <2>2, LimitAssumption
<1> HIDE DEF free, next
<1>6. /\ allocation'[k].value = number
      /\ \A j \in Keys \ {k} : allocation'[j] = allocation[j]
  BY <1>1 DEF TypeOK
<1>7. number \in Nat /\ number # 0 /\ (number = free \/ (number = next /\ free < next))
  BY <1>3, <1>4, LimitAssumption DEF Larger
<1> HIDE DEF number
<1>8. number = free \/ \E j \in Numbered : number = allocation[j].value + 1
  <2> SUFFICES ASSUME number # free
               PROVE  \E j \in Numbered : number = allocation[j].value + 1
    OBVIOUS
  <2>1. number = next /\ next # 1 /\ next - 1 \in HighestLocal
    BY <1>3, <1>4, <1>7, LimitAssumption
  <2>2. PICK j \in Keys : allocation[j].value = next - 1
    BY <2>1 DEF HighestLocal
  <2>3. j \in Numbered /\ number = allocation[j].value + 1
    BY <1>3, <2>1, <2>2, LimitAssumption DEF Numbered
  <2> QED
    BY <2>3
<1>9. k \notin Numbered /\ Numbered' = Numbered \cup {k}
  BY <1>1, <1>6, <1>7 DEF Numbered, Issued
<1> QED
  BY <1>5, <1>6, <1>7, <1>8, <1>9, <1>10

LEMMA ChainedStep ==
    ASSUME TypeOK, Chained, [Next]_vars
    PROVE  Chained'
<1>1. \A j \in Keys : allocation[j].value \in Nat
  BY LimitAssumption DEF TypeOK, Row
<1>2. CASE \A j \in Keys : allocation'[j].value = allocation[j].value
  <2>1. Numbered' = Numbered
    BY <1>2 DEF Numbered
  <2> QED
    BY <1>2, <2>1 DEF Chained, Numbered
<1>3. ASSUME NEW k \in Keys, Reserve(k), allocation' # allocation
      PROVE  Chained'
  <2>1. Numbered' = Numbered \cup {k} /\ Numbered \subseteq Keys
    BY <1>3, IssuedNext DEF Numbered
  <2>2. IsFiniteSet(Numbered')
    BY <2>1, FS_AddElement DEF Chained
  <2>3. \A i \in Numbered : allocation'[i].value = allocation[i].value
    BY <1>3, <2>1, NumbersKept DEF Numbered
  <2>4. ASSUME NEW i \in Numbered, NEW m \in Nat,
               Limit - Margin <= m, m < allocation[i].value
        PROVE  \E j \in Numbered' : allocation'[j].value = m
    BY <2>1, <2>3, <2>4 DEF Chained
  <2>5. ASSUME NEW m \in Nat, Limit - Margin <= m, m < allocation'[k].value
        PROVE  \E j \in Numbered' : allocation'[j].value = m
    <3>1. PICK j \in Numbered : allocation'[k].value = allocation[j].value + 1
      BY <1>3, <2>5, IssuedNext, LimitAssumption
    <3>2. allocation[j].value \in Nat /\ (m = allocation[j].value \/ m < allocation[j].value)
      BY <1>1, <2>1, <2>5, <3>1
    <3> QED
      BY <2>1, <2>3, <2>4, <2>5, <3>2
  <2>6. \A i \in Numbered' : i = k \/ i \in Numbered
    BY <2>1
  <2> QED
    BY <2>2, <2>3, <2>4, <2>5, <2>6 DEF Chained
<1>4. (\E k \in Keys : Reserve(k) /\ allocation' # allocation)
      \/ \A j \in Keys : allocation'[j].value = allocation[j].value
  BY OnlyReserveNumbers
<1> QED
  BY <1>2, <1>3, <1>4

(* The numbers from the margin up to the one that is issued are all among    *)
(* those the pinned commit does not show.                                   *)
LEMMA OverrunCounted ==
    ASSUME TypeOK, Chained, NEW k \in Keys, Reserve(k), allocation' # allocation
    PROVE  allocation'[k].value <= Limit - Margin + Cardinality(Unseen(k))
<1> DEFINE low  == Limit - Margin
           n    == allocation'[k].value
           Past == {j \in Unseen(k) : allocation[j].value \in low..(n - 1)}
           f    == [j \in Past |-> allocation[j].value]
<1>1. n \in Nat /\ low \in Nat /\ \A j \in Keys : allocation[j].value \in Nat
  BY IssuedNext, LimitAssumption DEF TypeOK, Row
<1>2. IsFiniteSet(Unseen(k)) /\ Cardinality(Unseen(k)) \in Nat
  <2>1. Unseen(k) \subseteq Numbered
    BY DEF Unseen, Numbered
  <2> QED
    BY <2>1, FS_Subset, FS_CardinalityType DEF Chained
<1>3. CASE n <= low
  BY <1>1, <1>2, <1>3
<1>4. CASE low < n
  <2>1. \A m \in low..(n - 1) : \E j \in Past : f[j] = m
    <3> SUFFICES ASSUME NEW m \in low..(n - 1)
                 PROVE  \E j \in Past : f[j] = m
      OBVIOUS
    <3>1. PICK i \in Numbered : n = allocation[i].value + 1
      BY <1>1, <1>4, IssuedNext
    <3>2. i \in Keys /\ allocation[i].value \in Nat
      BY <1>1, <3>1 DEF Numbered
    <3>3. m \in Nat /\ low <= m /\ (m = allocation[i].value \/ m < allocation[i].value)
      BY <1>1, <3>1, <3>2
    <3>4. PICK j \in Numbered : allocation[j].value = m
      BY <3>1, <3>3 DEF Chained
    <3>5. j \in Keys /\ m # 0 /\ m \in Values
      BY <3>4, LimitAssumption DEF Numbered, TypeOK, Row, Values
    <3>6. attempt[k].base[m] = NoEntry
      BY <1>1, <3>3, <3>5, IssuedNext
    <3> QED
      BY <3>4, <3>5, <3>6 DEF Unseen
  <2>2. f \in Surjection(Past, low..(n - 1))
    BY <2>1 DEF Surjection
  <2>3. IsFiniteSet(Past) /\ Cardinality(Past) <= Cardinality(Unseen(k))
    BY <1>2, FS_Subset
  <2>4. Cardinality(Past) \in Nat
    BY <2>3, FS_CardinalityType
  <2>5. Cardinality(low..(n - 1)) <= Cardinality(Past)
    BY <2>2, <2>3, FS_Surjection
  <2>6. Cardinality(low..(n - 1)) = n - low
    BY <1>1, <1>4, FS_Interval
  <2> HIDE DEF Past
  <2> QED
    BY <1>1, <1>2, <2>3, <2>4, <2>5, <2>6
<1> QED
  BY <1>1, <1>3, <1>4

(* The portal overruns the exhaustion margin, which it checks against the    *)
(* pinned commit only, by at most one number for each of its allocations    *)
(* which that commit does not show, however many operations there are.      *)
THEOREM MarginOverrunHolds == Spec => MarginOverrun
<1> DEFINE Counted ==
             \A k \in Keys :
                allocation[k].value = 0 /\ allocation'[k].value # 0
                    => allocation'[k].value <= Limit - Margin + Cardinality(Unseen(k))
<1>1. Init => Chained
  <2> SUFFICES ASSUME Init PROVE Chained
    OBVIOUS
  <2>1. Numbered = {}
    BY DEF Init, Numbered
  <2> QED
    BY <2>1, FS_EmptySet DEF Chained
<1>2. TypeOK /\ Chained /\ [Next]_vars => Chained'
  BY ChainedStep
<1>3. TypeOK /\ Chained /\ [Next]_vars => Counted
  <2> SUFFICES ASSUME TypeOK, Chained, [Next]_vars, NEW k \in Keys,
                      allocation[k].value = 0, allocation'[k].value # 0
               PROVE  allocation'[k].value <= Limit - Margin + Cardinality(Unseen(k))
    OBVIOUS
  <2>1. PICK i \in Keys : Reserve(i)
    BY OnlyReserveNumbers
  <2>2. i = k /\ allocation' # allocation
    BY <2>1, ReserveIssuesAbove
  <2> QED
    BY <2>1, <2>2, OverrunCounted
<1> QED
  BY <1>1, <1>2, <1>3, TypeCorrect, PTL DEF Spec, MarginOverrun
=============================================================================
