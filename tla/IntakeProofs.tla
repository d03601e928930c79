---------------------------- MODULE IntakeProofs ----------------------------
(***************************************************************************)
(* Proofs about Intake.                                                     *)
(***************************************************************************)
EXTENDS Intake, GateProofs, FiniteSetTheorems, WellFoundedInduction

(* A nonempty set of numbers has a least, a bounded one a greatest.          *)
LEMMA LeastExists ==
    ASSUME NEW S \in SUBSET Nat, S # {}
    PROVE  Min(S) \in S /\ \A y \in S : Min(S) <= y
<1> DEFINE T == {0..n : n \in S}
<1>1. \A n \in Nat : 0..n \in SUBSET Nat /\ IsFiniteSet(0..n)
  BY FS_Interval
<1>2. T \subseteq FiniteSubsetsOf(Nat) /\ T # {}
  BY <1>1 DEF FiniteSubsetsOf
<1>3. PICK t \in T : \A u \in T : <<u, t>> \notin StrictSubsetOrdering(Nat)
  <2> HIDE DEF T
  <2> QED BY <1>2, WFMin, FS_StrictSubsetOrderingWellFounded
<1>4. PICK x \in S : t = 0..x
  OBVIOUS
<1>5. ASSUME NEW y \in S PROVE x <= y
  <2>1. <<0..y, t>> \notin StrictSubsetOrdering(Nat)
    BY <1>3
  <2>2. ~(0..y \subseteq 0..x /\ 0..y # 0..x)
    BY <1>4, <2>1, <1>1 DEF StrictSubsetOrdering
  <2>3. y < x => 0..y \subseteq 0..x /\ x \in 0..x /\ x \notin 0..y
    OBVIOUS
  <2>4. QED BY <2>2, <2>3
<1>6. QED BY <1>5 DEF Min

LEMMA GreatestExists ==
    ASSUME NEW n \in Nat, NEW S \in SUBSET (1..n), S # {}
    PROVE  Max(S) \in S
<1> DEFINE T == {n - i : i \in S}
<1>1. T \in SUBSET Nat /\ T # {}
  <2>1. \A i \in S : n - i \in Nat
    OBVIOUS
  <2>2. QED BY <2>1
<1>2. Min(T) \in T /\ \A y \in T : Min(T) <= y
  <2> HIDE DEF T
  <2> QED BY <1>1, LeastExists
<1>3. PICK x \in S : Min(T) = n - x
  BY <1>2
<1>4. \A y \in S : n - x <= n - y
  BY <1>2, <1>3
<1>5. \A y \in S : x >= y
  BY <1>4
<1>6. QED BY <1>5 DEF Max

-----------------------------------------------------------------------------
(* Where an assembled value comes from.                                     *)
LEMMA TellersAreSayers ==
    ASSUME NEW files \in Seq(Files), NEW f \in Fields
    PROVE  /\ Sayers(files, f) \subseteq 1..Len(files)
           /\ Tellers(files, f) \subseteq Sayers(files, f)
           /\ Tellers(files, f) # {} => Min(Tellers(files, f)) \in Tellers(files, f)
<1>1. DOMAIN files = 1..Len(files)
  OBVIOUS
<1>2. Sayers(files, f) \subseteq 1..Len(files)
  BY <1>1 DEF Sayers
<1>3. Tellers(files, f) \subseteq Sayers(files, f)
  BY DEF Tellers
<1>4. Tellers(files, f) \subseteq Nat
  BY <1>2, <1>3
<1>5. QED BY <1>2, <1>3, <1>4, LeastExists

LEMMA TakenFromSays ==
    ASSUME NEW record, NEW files \in Seq(Files), NEW f \in Fields
    PROVE  TakenFrom(record, files, f) \in {0} \cup Sayers(files, f)
<1>1. Sayers(files, f) # {} => Max(Sayers(files, f)) \in Sayers(files, f)
  <2>1. Len(files) \in Nat /\ Sayers(files, f) \in SUBSET (1..Len(files))
    BY TellersAreSayers
  <2>2. QED BY <2>1, GreatestExists
<1>2. QED BY <1>1, TellersAreSayers DEF TakenFrom

LEMMA FileTyped ==
    ASSUME NEW files \in Seq(Files), NEW i \in DOMAIN files
    PROVE  files[i] \in File /\ (files[i].record \/ Says(files[i]) \subseteq {"title"})
<1>1. files[i] \in Files
  OBVIOUS
<1>2. QED BY <1>1, IntakeAssumption

LEMMA SaidTyped ==
    ASSUME NEW files \in Seq(Files), NEW f \in Fields, NEW i \in Sayers(files, f)
    PROVE  i \in DOMAIN files /\ files[i].says[f] \in Statuses
<1>1. i \in DOMAIN files /\ f \in Says(files[i])
  BY DEF Sayers
<1>2. files[i].says \in [Fields -> Statuses \cup {"silent"}]
  BY <1>1, FileTyped DEF File
<1>3. QED BY <1>1, <1>2 DEF Says

LEMMA AssembledTyped ==
    ASSUME NEW record \in Record, NEW files \in Seq(Files)
    PROVE  Assembled(record, files) \in Record
<1> DEFINE from == [f \in Fields |-> TakenFrom(record, files, f)]
           taken(f) == IF from[f] = 0 THEN record.state[f] ELSE files[from[f]].says[f]
           state == [f \in Fields |-> Default(f, taken(f))]
           refs == [f \in References |-> IF from[f] = 0 THEN record.refs[f] ELSE files[from[f]].names[f]]
           id == IF from["object_id"] = 0 THEN record.id ELSE files[from["object_id"]].id
<1>1. \A f \in Fields : from[f] = 0 \/ from[f] \in Sayers(files, f)
  BY TakenFromSays
<1>2. \A f \in Fields : from[f] = 0 \/ from[f] \in DOMAIN files
  BY <1>1 DEF Sayers
<1>3. \A f \in Fields : taken(f) \in Statuses
  <2>1. record.state \in [Fields -> Statuses]
    BY DEF Record
  <2>2. QED BY <1>1, <2>1, SaidTyped
<1>4. state \in [Fields -> Statuses]
  <2>1. \A f \in Fields : Default(f, taken(f)) \in Statuses
    <3> HIDE DEF taken
    <3> QED BY <1>3 DEF Default, Statuses
  <2>2. QED BY <2>1
<1>5. refs \in [References -> SUBSET Ids]
  <2>1. record.refs \in [References -> SUBSET Ids]
    BY DEF Record
  <2>2. \A f \in References : from[f] # 0 => files[from[f]].names[f] \in SUBSET Ids
    BY <1>2, FileTyped, FieldsOfGates DEF File
  <2>3. QED BY <2>1, <2>2
<1>6. id \in Objects
  <2>1. "object_id" \in Fields
    BY DEF Fields, Patterned
  <2>2. QED BY <1>2, <2>1, FileTyped DEF File, Record
<1>7. Assembled(record, files) = [record EXCEPT !.state = state, !.refs = refs, !.id = id]
  BY DEF Assembled
<1>8. QED
  <2> HIDE DEF state, refs, id
  <2> QED BY <1>4, <1>5, <1>6, <1>7 DEF Record

LEMMA PreparedTyped ==
    ASSUME NEW d \in [record: Record, rows: SUBSET Row, hints: Hints],
           NEW files \in Seq(Files), NEW outcome \in Outcomes
    PROVE  Prepared(d, files, outcome) \in [record: Record, rows: SUBSET Row, hints: Hints]
<1> DEFINE assembled == Assembled(d.record, files)
           state == Suggested(assembled.state, outcome)
           named == NewSources(d, state, outcome)
           record == [assembled EXCEPT !.state = Sourced(state, named),
                                       !.refs["source_ids"] = @ \cup named]
           filed == UNION {RowsOf(files[i]) : i \in DOMAIN files}
           rows == filed \cup SuggestionRows(outcome) \cup SourceRows(named, outcome)
           hints == [d.hints EXCEPT
                       !.found = IF outcome.found # {} THEN outcome.found ELSE @,
                       !.ambiguous = @ \/ Cardinality(Versions(files)) > 1,
                       !.proposed = @ \/ NewSource \in named]
<1>1. Prepared(d, files, outcome) = [record |-> record, rows |-> rows, hints |-> hints]
  BY DEF Prepared
<1>2. assembled \in Record
  BY AssembledTyped
<1>3. outcome \in Outcome
  BY IntakeAssumption
<1>4. named \subseteq SourceIds
  BY <1>3, NewSourceAssumption DEF NewSources, Outcome
<1>5. state \in [Fields -> Statuses]
  BY <1>2 DEF Suggested, Record, Statuses
<1>6. record \in Record
  <2> HIDE DEF assembled, state, named
  <2>1. Sourced(state, named) \in [Fields -> Statuses]
    BY <1>5 DEF Sourced, Statuses
  <2>2. [assembled.refs EXCEPT !["source_ids"] = @ \cup named] \in [References -> SUBSET Ids]
    BY <1>2, <1>4 DEF Record, Ids
  <2>3. record = [assembled EXCEPT !.state = Sourced(state, named),
                                   !.refs = [assembled.refs EXCEPT !["source_ids"] = @ \cup named]]
    OBVIOUS
  <2>4. QED BY <1>2, <2>1, <2>2, <2>3 DEF Record
<1>7. rows \subseteq Row
  <2>1. ASSUME NEW f \in Fields, NEW o \in Origins, NEW b \in BOOLEAN
        PROVE  [field |-> f, origin |-> o, uncertain |-> b] \in Row
    BY <2>1 DEF Row
  <2>2. ASSUME NEW i \in DOMAIN files PROVE RowsOf(files[i]) \subseteq Row
    <3> DEFINE o == IF files[i].record THEN "researcher-statement" ELSE "source-extraction"
               b == ~files[i].record /\ ~files[i].sure
    <3>1. o \in Origins /\ b \in BOOLEAN
      BY DEF Origins
    <3>2. RowsOf(files[i]) = {[field |-> f, origin |-> o, uncertain |-> b] : f \in Says(files[i]) \ Axes}
      BY DEF RowsOf
    <3>3. Says(files[i]) \subseteq Fields
      BY DEF Says
    <3>4. QED
      <4> HIDE DEF o, b
      <4> QED BY <2>1, <3>1, <3>2, <3>3
  <2>3. SuggestionRows(outcome) \subseteq Row
    <3>1. Suggestible \subseteq Fields
      BY FieldsOfGates DEF Suggestible, Classified
    <3>2. "library-classification" \in Origins /\ TRUE \in BOOLEAN
      BY DEF Origins
    <3>3. QED BY <2>1, <3>1, <3>2 DEF SuggestionRows
  <2>4. SourceRows(named, outcome) \subseteq Row
    <3> DEFINE b == outcome.known = {}
    <3>1. "source-extraction" \in Origins /\ b \in BOOLEAN /\ "source_ids" \in Fields
      BY DEF Origins, Fields, References
    <3>2. SourceRows(named, outcome)
            = {[field |-> "source_ids", origin |-> "source-extraction", uncertain |-> b] : s \in named}
      BY DEF SourceRows
    <3>3. QED
      <4> HIDE DEF b, named
      <4> QED BY <2>1, <3>1, <3>2
  <2>5. filed \subseteq Row
    BY <2>2
  <2>6. QED
    <3> HIDE DEF named, filed
    <3> QED BY <2>3, <2>4, <2>5
<1>8. hints \in Hints
  <2> HIDE DEF named
  <2>1. outcome.found \in SUBSET Objects
    BY <1>3 DEF Outcome
  <2>2. QED BY <2>1 DEF Hints
<1>9. QED
  <2> HIDE DEF record, rows, hints
  <2> QED BY <1>1, <1>6, <1>7, <1>8

LEMMA PostedTyped ==
    ASSUME NEW record \in Record, NEW supplied, NEW cleared
    PROVE  Posted(record, supplied, cleared) \in Record
<1> DEFINE state == [f \in Fields |->
                      IF f \in supplied THEN "stated"
                      ELSE RoundTrip(f, IF f \in cleared THEN "blank" ELSE record.state[f])]
           refs == [f \in References |-> IF f \in supplied \cup cleared THEN {} ELSE record.refs[f]]
           gaps == IF "missingness" \in supplied \cup cleared THEN {} ELSE record.gaps
<1>1. state \in [Fields -> Statuses]
  BY DEF RoundTrip, Statuses
<1>2. refs \in [References -> SUBSET Ids] /\ gaps \subseteq MissingnessClasses
  BY DEF Record
<1>3. Posted(record, supplied, cleared) = [record EXCEPT !.state = state, !.refs = refs, !.gaps = gaps]
  BY DEF Posted
<1>4. QED
  <2> HIDE DEF state, refs, gaps
  <2> QED BY <1>1, <1>2, <1>3 DEF Record

LEMMA FrozenTyped ==
    ASSUME NEW record \in Record, NEW target \in Objects \cup {NoId}
    PROVE  Frozen(record, target) \in Record
<1> DEFINE id == IF target # NoId THEN target ELSE record.id
           state == [f \in Fields |->
                      CASE f = "authority" \/ (f = "object_id" /\ target # NoId) -> "stated"
                        [] f \in {"object_id", "authors"} /\ Missing(record, f) -> "stated"
                        [] f \in {"source_ids", "relations"} /\ Missing(record, f) -> "blank"
                        [] f = "date" /\ record.state[f] = "undeclared" -> "stated"
                        [] OTHER -> record.state[f]]
<1>1. state \in [Fields -> Statuses]
  BY DEF Record, Statuses
<1>2. id \in Objects
  BY DEF Record
<1>3. Frozen(record, target) = [record EXCEPT !.id = id, !.state = state]
  BY DEF Frozen
<1>4. QED
  <2> HIDE DEF state, id
  <2> QED BY <1>1, <1>2, <1>3 DEF Record

-----------------------------------------------------------------------------
(* The registry a revision is evaluated in, the one a candidate makes of it  *)
(* and what others make of it, as operators of the registry.                *)
Proposing(way, r, reg) ==
    [reg EXCEPT !.sources = IF way = "portal" /\ NewSource \in Names(r, "source_ids")
                            THEN Filed(NewSource, ProposedSource(0), @) ELSE @]

Registering(way, r, reg) ==
    [Proposing(way, r, reg) EXCEPT !.objects = Filed(r.id, r, @)]

LEMMA AsOperators ==
    Evaluated = Proposing(route, revision, lib) /\ Candidate = Registering(route, revision, lib)
BY DEF Evaluated, Candidate, Proposing, Registering

LEMMA RegistryGrows ==
    ASSUME NEW reg, IsRegistry(reg)
    PROVE  /\ \A x \in Authors : IsRegistry([reg EXCEPT !.authors = @ \cup {x}])
           /\ \A x \in SourceIds :
                 IsRegistry([reg EXCEPT !.sources = Filed(x, ProposedSource(0), @)])
           /\ \A x \in Relations :
                 IsRegistry([reg EXCEPT !.relations =
                               Filed(x, [controlled |-> TRUE, ends |-> {}], @)])
           /\ \A r \in Record : IsRegistry([reg EXCEPT !.objects = Filed(r.id, r, @)])
<1>1. /\ reg = [authors |-> reg.authors, objects |-> reg.objects, sources |-> reg.sources,
                relations |-> reg.relations, governing |-> reg.governing]
      /\ reg.authors \subseteq Authors
      /\ reg.objects \in [DOMAIN reg.objects -> Record]
      /\ reg.sources \in [DOMAIN reg.sources -> Source]
      /\ reg.relations \in [DOMAIN reg.relations -> Relation]
      /\ reg.governing \in [DOMAIN reg.governing -> GoverningRecord]
      /\ DOMAIN reg.objects \subseteq Objects /\ DOMAIN reg.sources \subseteq SourceIds
      /\ DOMAIN reg.relations \subseteq Relations /\ DOMAIN reg.governing \subseteq Governing
  BY DEF IsRegistry
<1>2. ASSUME NEW x \in Authors PROVE IsRegistry([reg EXCEPT !.authors = @ \cup {x}])
  BY <1>1 DEF IsRegistry
<1>3. ASSUME NEW x \in SourceIds
      PROVE  IsRegistry([reg EXCEPT !.sources = Filed(x, ProposedSource(0), @)])
  <2> DEFINE g == Filed(x, ProposedSource(0), reg.sources)
  <2>1. ProposedSource(0) \in Source
    BY DEF ProposedSource, Source
  <2>2. DOMAIN g = DOMAIN reg.sources \cup {x} /\ g \in [DOMAIN reg.sources \cup {x} -> Source]
    BY <1>1, <2>1 DEF Filed
  <2>3. [reg EXCEPT !.sources = Filed(x, ProposedSource(0), @)] = [reg EXCEPT !.sources = g]
    OBVIOUS
  <2>4. QED
    <3> HIDE DEF g
    <3> QED BY <1>1, <2>2, <2>3 DEF IsRegistry
<1>4. ASSUME NEW x \in Relations
      PROVE  IsRegistry([reg EXCEPT !.relations =
                           Filed(x, [controlled |-> TRUE, ends |-> {}], @)])
  <2> DEFINE g == Filed(x, [controlled |-> TRUE, ends |-> {}], reg.relations)
  <2>1. TRUE \in BOOLEAN /\ {} \in SUBSET Ids
    OBVIOUS
  <2>2. [controlled |-> TRUE, ends |-> {}] \in Relation
    BY <2>1 DEF Relation
  <2>3. DOMAIN g = DOMAIN reg.relations \cup {x} /\ g \in [DOMAIN reg.relations \cup {x} -> Relation]
    BY <1>1, <2>2 DEF Filed
  <2>4. [reg EXCEPT !.relations = Filed(x, [controlled |-> TRUE, ends |-> {}], @)]
          = [reg EXCEPT !.relations = g]
    OBVIOUS
  <2>5. QED
    <3> HIDE DEF g
    <3> QED BY <1>1, <2>3, <2>4 DEF IsRegistry
<1>5. ASSUME NEW r \in Record PROVE IsRegistry([reg EXCEPT !.objects = Filed(r.id, r, @)])
  <2> DEFINE g == Filed(r.id, r, reg.objects)
  <2>1. r.id \in Objects
    BY DEF Record
  <2>2. DOMAIN g = DOMAIN reg.objects \cup {r.id} /\ g \in [DOMAIN reg.objects \cup {r.id} -> Record]
    BY <1>1 DEF Filed
  <2>3. [reg EXCEPT !.objects = Filed(r.id, r, @)] = [reg EXCEPT !.objects = g]
    OBVIOUS
  <2>4. QED
    <3> HIDE DEF g
    <3> QED BY <1>1, <2>1, <2>2, <2>3 DEF IsRegistry
<1>6. QED BY <1>2, <1>3, <1>4, <1>5

LEMMA RegisteringTyped ==
    ASSUME NEW way, NEW r \in Record, NEW reg, IsRegistry(reg)
    PROVE  IsRegistry(Proposing(way, r, reg)) /\ IsRegistry(Registering(way, r, reg))
<1>1. IsRegistry(Proposing(way, r, reg))
  <2>1. CASE way = "portal" /\ NewSource \in Names(r, "source_ids")
    <3>1. Proposing(way, r, reg) = [reg EXCEPT !.sources = Filed(NewSource, ProposedSource(0), @)]
      BY <2>1 DEF Proposing
    <3>2. QED BY <3>1, RegistryGrows, NewSourceAssumption
  <2>2. CASE ~(way = "portal" /\ NewSource \in Names(r, "source_ids"))
    <3>1. reg = [authors |-> reg.authors, objects |-> reg.objects, sources |-> reg.sources,
                 relations |-> reg.relations, governing |-> reg.governing]
      BY DEF IsRegistry
    <3>2. Proposing(way, r, reg) = reg
      BY <2>2, <3>1 DEF Proposing
    <3>3. QED BY <3>2
  <2>3. QED BY <2>1, <2>2
<1>2. QED BY <1>1, RegistryGrows DEF Registering

(* A receipt is typed: what it lists are details, what it accepts fields.    *)
LEMMA ReceiptTyped ==
    ASSUME NEW r, NEW details, details \subseteq Detail
    PROVE  BuildReceipt(r, details) \in Receipt
<1>1. Decision(details) \in Decisions
  BY DEF Decision, Decisions
<1>2. Listed(details) \in SUBSET Detail
  BY DEF Listed
<1>3. AcceptedFields(r, details) \in SUBSET Fields
  BY DEF AcceptedFields
<1>4. QED BY <1>1, <1>2, <1>3 DEF BuildReceipt, Receipt

-----------------------------------------------------------------------------
LEMMA GivenByTyped ==
    ASSUME NEW files, NEW f PROVE GivenBy(files, f) \in Giver
BY DEF GivenBy, Giver

LEMMA TypeInit == Init => TypeOK
<1> SUFFICES ASSUME Init PROVE TypeOK
  OBVIOUS
<1>1. IsRegistry(lib) /\ MaxRevisions \in Nat
  BY IntakeAssumption DEF Init
<1>2. EmptyRecord \in Record
  <2>1. [f \in Fields |-> "undeclared"] \in [Fields -> Statuses]
    BY DEF Statuses
  <2>2. QED BY <2>1, IntakeAssumption DEF EmptyRecord, Record
<1>3. NoHints \in Hints
  BY DEF NoHints, Hints
<1>4. draft \in [record: Record, rows: SUBSET Row, hints: Hints]
  BY <1>2, <1>3, IntakeAssumption DEF Init, Draft
<1>5. origin \in [Fields -> Giver] /\ uploads \in Seq(Files)
  BY DEF Init, Giver
<1>6. route \in {"portal", "cli"} /\ phase \in Phases /\ intended \in Objects \cup {NoId}
  BY DEF Init, Phases
<1>7. /\ receipt = NoReceipt /\ before = {} /\ repaired = {} /\ revision = EmptyRecord
      /\ formed = FALSE /\ ready = FALSE /\ revisions = 0
  BY DEF Init
<1>8. 0 \in 0..MaxRevisions /\ FALSE \in BOOLEAN
  BY <1>1
<1>9. QED
  BY <1>1, <1>2, <1>3, <1>4, <1>5, <1>6, <1>7, <1>8 DEF TypeOK

LEMMA TypePrepare ==
    ASSUME TypeOK, NEW file \in Files, NEW outcome \in Outcomes, Prepare(file, outcome)
    PROVE  TypeOK'
<1> DEFINE files == Append(uploads, file)
           assembled == Assembled(draft.record, files)
           next == Prepared(draft, files, outcome)
           given == [f \in Fields |->
                        IF draft.record.state[f] = next.record.state[f] THEN origin[f]
                        ELSE IF assembled.state[f] = next.record.state[f] THEN GivenBy(files, f)
                        ELSE IF f = "source_ids" /\ outcome.known # {} THEN "source" ELSE "guess"]
<1>1. files \in Seq(Files)
  BY DEF TypeOK
<1>2. next \in [record: Record, rows: SUBSET Row, hints: Hints]
  <2> HIDE DEF files
  <2> QED BY <1>1, PreparedTyped DEF TypeOK
<1>3. given \in [Fields -> Giver]
  <2> HIDE DEF files, assembled, next
  <2>1. \A f \in Fields : given[f] \in Giver
    BY GivenByTyped DEF TypeOK, Giver
  <2>2. QED BY <2>1
<1>4. /\ uploads' = files /\ draft' = next /\ origin' = given /\ formed' = FALSE
      /\ UNCHANGED <<route, lib, intended, phase, revision, receipt, before, repaired, ready, revisions>>
  BY DEF Prepare
<1>5. QED
  <2> HIDE DEF files, next, given
  <2> QED BY <1>1, <1>2, <1>3, <1>4 DEF TypeOK

LEMMA TypeSaveForm ==
    ASSUME TypeOK, NEW supplied, NEW cleared, NEW confirms \in BOOLEAN,
           SaveForm(supplied, cleared, confirms)
    PROVE  TypeOK'
<1> DEFINE record == Posted(draft.record, supplied, cleared)
           sources == IF "source_ids" \in supplied THEN {NewSource} ELSE record.refs["source_ids"]
           saved == [record EXCEPT !.refs["source_ids"] = sources]
           rows == draft.rows \cup (IF confirms THEN ConfirmedRows(draft, record) ELSE {})
           hints == [draft.hints EXCEPT !.proposed = @ \/ NewSource \in sources]
<1>1. record \in Record
  BY PostedTyped DEF TypeOK
<1>2. saved \in Record
  <2> HIDE DEF record
  <2>1. "source_ids" \in References
    BY DEF References
  <2>2. sources \in SUBSET Ids
    BY <1>1, <2>1, NewSourceAssumption DEF Record, Ids
  <2>3. [record.refs EXCEPT !["source_ids"] = sources] \in [References -> SUBSET Ids]
    BY <1>1, <2>2 DEF Record
  <2>4. saved = [record EXCEPT !.refs = [record.refs EXCEPT !["source_ids"] = sources]]
    OBVIOUS
  <2>5. QED
    <3> HIDE DEF sources, saved
    <3> QED BY <1>1, <2>3, <2>4 DEF Record
<1>3. rows \subseteq Row
  <2> HIDE DEF record
  <2>1. \A f \in NeedsConfirmation(draft) : f \in Fields
    <3>1. Asked \subseteq Fields
      BY FieldsOfGates DEF Asked, Fields, Lists, Patterned, References
    <3>2. QED BY <3>1 DEF NeedsConfirmation
  <2>2. FALSE \in BOOLEAN /\ "researcher-statement" \in Origins
    BY DEF Origins
  <2>3. \A f \in Fields :
           [field |-> f, origin |-> "researcher-statement", uncertain |-> FALSE] \in Row
    BY <2>2 DEF Row
  <2>4. ConfirmedRows(draft, record) \subseteq Row
    BY <2>1, <2>3 DEF ConfirmedRows
  <2>5. QED BY <2>4 DEF TypeOK
<1>4. hints \in Hints
  <2> HIDE DEF sources
  <2> QED BY DEF TypeOK, Hints
<1>5. draft' = [record |-> saved, rows |-> rows, hints |-> hints]
  BY DEF SaveForm
<1>6. draft' \in [record: Record, rows: SUBSET Row, hints: Hints]
  <2> HIDE DEF saved, rows, hints
  <2> QED BY <1>2, <1>3, <1>4, <1>5
<1>7. origin' \in [Fields -> Giver]
  BY DEF SaveForm, TypeOK, Giver
<1>8. /\ formed' = TRUE
      /\ UNCHANGED <<route, lib, uploads, intended, phase, revision, receipt, before, repaired,
                     ready, revisions>>
  BY DEF SaveForm
<1>9. QED BY <1>6, <1>7, <1>8 DEF TypeOK

LEMMA AnsweredTyped ==
    ASSUME TypeOK, NEW answer \in Objects \cup {"none", "distinct"}, NEW governs \in BOOLEAN
    PROVE  /\ Answered(answer, governs) \in Hints
           /\ Target(Answered(answer, governs)) \in Objects \cup {NoId}
<1>1. Answered(answer, governs) \in Hints
  BY DEF TypeOK, Answered, Hints
<1>2. QED BY <1>1 DEF TypeOK, Target

LEMMA TypeConfirm ==
    ASSUME TypeOK, NEW answer \in Objects \cup {"none", "distinct"}, NEW governs \in BOOLEAN,
           Confirm(answer, governs)
    PROVE  TypeOK'
<1> DEFINE hints == Answered(answer, governs)
           frozen == Frozen(draft.record, Target(hints))
<1>1. hints \in Hints /\ Target(hints) \in Objects \cup {NoId}
  BY AnsweredTyped
<1>2. frozen \in Record
  <2> HIDE DEF hints
  <2> QED BY <1>1, FrozenTyped DEF TypeOK
<1>3. revisions' = revisions + 1 /\ revisions < MaxRevisions
  BY DEF Confirm
<1>4. revisions' \in 0..MaxRevisions
  BY <1>3, IntakeAssumption DEF TypeOK
<1>5. /\ intended' = Target(hints) /\ revision' = frozen
      /\ draft' = [draft EXCEPT !.record = frozen, !.hints = hints]
      /\ ready' = Submittable([draft EXCEPT !.hints = hints]) /\ phase' = "submitted"
      /\ UNCHANGED <<route, lib, uploads, receipt, before, repaired, origin, formed>>
  BY DEF Confirm
<1>6. ready' \in BOOLEAN
  BY <1>5 DEF Submittable
<1>7. draft' \in [record: Record, rows: SUBSET Row, hints: Hints]
  <2> HIDE DEF hints, frozen
  <2> QED BY <1>1, <1>2, <1>5 DEF TypeOK
<1>8. QED
  <2> HIDE DEF hints, frozen
  <2> QED BY <1>1, <1>2, <1>4, <1>5, <1>6, <1>7 DEF TypeOK, Phases

LEMMA TypeRest ==
    ASSUME TypeOK
    PROVE  /\ HandIn => TypeOK'
           /\ Evaluate => TypeOK'
           /\ Register => TypeOK'
           /\ StartRepair => TypeOK'
           /\ \A x \in Newcomers : Grow(x) => TypeOK'
<1>1. HandIn => TypeOK'
  <2> SUFFICES ASSUME HandIn PROVE TypeOK'
    OBVIOUS
  <2>1. revisions + 1 \in 0..MaxRevisions
    BY IntakeAssumption DEF HandIn, TypeOK
  <2>2. QED BY <2>1 DEF HandIn, TypeOK, Phases
<1>2. Evaluate => TypeOK'
  <2> SUFFICES ASSUME Evaluate PROVE TypeOK'
    OBVIOUS
  <2> DEFINE details == Evaluation(revision, Evaluated)
  <2>1. details \subseteq Detail
    BY EvaluationTyped
  <2>2. BuildReceipt(revision, details) \in Receipt
    <3> HIDE DEF details
    <3> QED BY <2>1, ReceiptTyped
  <2>3. /\ receipt' \in Receipt /\ phase' = "decided"
        /\ UNCHANGED <<route, lib, uploads, draft, intended, revision, before, repaired, origin,
                       formed, ready, revisions>>
    BY <2>2 DEF Evaluate
  <2>4. QED BY <2>3 DEF TypeOK, Phases
<1>3. Register => TypeOK'
  <2> SUFFICES ASSUME Register PROVE TypeOK'
    OBVIOUS
  <2>1. lib' = Registering(route, revision, lib)
    BY AsOperators DEF Register
  <2>2. IsRegistry(lib')
    BY <2>1, RegisteringTyped DEF TypeOK
  <2>3. /\ phase' = "registered"
        /\ UNCHANGED <<route, uploads, draft, intended, revision, receipt, before, repaired, origin,
                       formed, ready, revisions>>
    BY DEF Register
  <2>4. QED BY <2>2, <2>3 DEF TypeOK, Phases
<1>4. StartRepair => TypeOK'
  <2> SUFFICES ASSUME StartRepair PROVE TypeOK'
    OBVIOUS
  <2> DEFINE next == [revision EXCEPT !.version = @ + 1, !.state["date"] = "undeclared"]
  <2>1. next \in Record
    <3>1. [revision.state EXCEPT !["date"] = "undeclared"] \in [Fields -> Statuses]
      BY DEF TypeOK, Record, Statuses
    <3>2. revision.version + 1 \in Nat
      BY DEF TypeOK, Record
    <3>3. next = [revision EXCEPT !.version = revision.version + 1,
                                  !.state = [revision.state EXCEPT !["date"] = "undeclared"]]
      OBVIOUS
    <3>4. QED
      <4> HIDE DEF next
      <4> QED BY <3>1, <3>2, <3>3 DEF TypeOK, Record
  <2>2. draft' = [draft EXCEPT !.record = IF phase = "decided" THEN revision ELSE next]
    BY DEF StartRepair
  <2>3. draft' \in [record: Record, rows: SUBSET Row, hints: Hints]
    <3> HIDE DEF next
    <3> QED BY <2>1, <2>2 DEF TypeOK
  <2>4. /\ phase' = "draft"
        /\ UNCHANGED <<route, lib, uploads, intended, revision, receipt, before, repaired, origin,
                       formed, ready, revisions>>
    BY DEF StartRepair
  <2>5. QED BY <2>3, <2>4 DEF TypeOK, Phases
<1>5. ASSUME NEW x \in Newcomers, Grow(x) PROVE TypeOK'
  <2>1. x \in Authors \cup SourceIds \cup Relations
    BY IntakeAssumption
  <2>2. IsRegistry(lib')
    BY <1>5, <2>1, RegistryGrows DEF Grow, TypeOK
  <2>3. UNCHANGED <<route, uploads, draft, intended, phase, revision, receipt, before, repaired, origin,
                    formed, ready, revisions>>
    BY <1>5 DEF Grow
  <2>4. QED BY <2>2, <2>3 DEF TypeOK
<1>6. QED BY <1>1, <1>2, <1>3, <1>4, <1>5

LEMMA TypeSupplyListed ==
    ASSUME TypeOK, NEW fields, fields \subseteq Fields, SupplyListed(fields)
    PROVE  TypeOK'
<1> DEFINE state == [f \in Fields |-> IF f \in fields THEN "stated" ELSE revision.state[f]]
           refs == [f \in References |-> IF f \notin fields THEN revision.refs[f]
                                         ELSE IF f = "authors" THEN lib.authors ELSE {}]
           gaps == IF "missingness" \in fields THEN {} ELSE revision.gaps
           next == [revision EXCEPT !.state = state, !.refs = refs, !.gaps = gaps]
<1>1. next \in Record
  <2>1. state \in [Fields -> Statuses]
    BY DEF TypeOK, Record, Statuses
  <2>2. lib.authors \subseteq Ids
    BY DEF TypeOK, IsRegistry, Ids
  <2>3. refs \in [References -> SUBSET Ids] /\ gaps \in SUBSET MissingnessClasses
    BY <2>2 DEF TypeOK, Record
  <2>4. QED
    <3> HIDE DEF state, refs, gaps
    <3> QED BY <2>1, <2>3 DEF TypeOK, Record
<1>2. Supplied(revision, fields) = next
  BY DEF Supplied
<1>3. draft' \in [record: Record, rows: SUBSET Row, hints: Hints]
  <2> HIDE DEF next
  <2> QED BY <1>1, <1>2 DEF SupplyListed, TypeOK
<1>4. receipt.listed \subseteq Detail
  BY DEF TypeOK, NoReceipt, Receipt
<1>5. /\ before' = receipt.listed /\ repaired' = fields /\ phase' = "draft"
      /\ UNCHANGED <<route, lib, uploads, intended, revision, receipt, origin, formed, ready,
                     revisions>>
  BY DEF SupplyListed
<1>6. QED
  <2> HIDE DEF next
  <2> QED BY <1>1, <1>3, <1>4, <1>5 DEF TypeOK, Phases

LEMMA FieldsListed ==
    ASSUME TypeOK
    PROVE  {d.field : d \in receipt.listed} \subseteq Fields /\ RepairFocus(receipt) \subseteq Fields
<1>1. receipt.listed \subseteq Detail
  BY DEF TypeOK, NoReceipt, Receipt
<1>2. \A d \in Detail : d.field \in Fields
  BY DEF Detail
<1>3. \A d \in Detail : FocusOf(d) \in Fields \cup {"none"}
  BY <1>2, FieldsOfGates DEF FocusOf
<1>4. QED
  BY <1>1, <1>2, <1>3 DEF RepairFocus

LEMMA TypeStep ==
    ASSUME TypeOK, [Next]_vars
    PROVE  TypeOK'
<1>1. ASSUME NEW file \in Files, NEW outcome \in Outcomes, Prepare(file, outcome) PROVE TypeOK'
  BY <1>1, TypePrepare
<1>2. ASSUME NEW e \in Edits, NEW confirms \in BOOLEAN,
             SaveForm(e.supplied \ e.cleared, e.cleared, confirms)
      PROVE  TypeOK'
  BY <1>2, TypeSaveForm
<1>3. ASSUME NEW answer \in Objects \cup {"none", "distinct"}, NEW governs \in BOOLEAN,
             Confirm(answer, governs)
      PROVE  TypeOK'
  BY <1>3, TypeConfirm
<1>4. ASSUME NEW fields \in {{d.field : d \in receipt.listed}, RepairFocus(receipt)},
             SupplyListed(fields)
      PROVE  TypeOK'
  BY <1>4, FieldsListed, TypeSupplyListed
<1>5. ASSUME UNCHANGED vars PROVE TypeOK'
  BY <1>5 DEF vars, TypeOK
<1>6. QED
  BY <1>1, <1>2, <1>3, <1>4, <1>5, TypeRest DEF Next

(* Every record, row and receipt the steps build from each other stays in    *)
(* its type, and the registry stays one.                                    *)
THEOREM TypeCorrect == Spec => []TypeOK
<1>1. TypeOK /\ [Next]_vars => TypeOK'
  BY TypeStep
<1>2. QED BY <1>1, TypeInit, PTL DEF Spec

-----------------------------------------------------------------------------
(* The registry as the steps of a work and of others leave it: the file of   *)
(* an object is named by its id, the proposed source is as it was proposed.  *)
Stands(reg) ==
    /\ IsRegistry(reg) /\ NamedByIds(reg)
    /\ NewSource \in DOMAIN reg.sources => reg.sources[NewSource] = ProposedSource(0)

(* A registry that has what another has.                                    *)
Extends(more, reg) ==
    /\ \A f \in References : Registered(reg, f) \subseteq Registered(more, f)
    /\ \A x \in DOMAIN reg.relations : more.relations[x] = reg.relations[x]
    /\ Held(reg) \subseteq Held(more)

LEMMA AcceptedInMore ==
    ASSUME NEW r, NEW reg, NEW more, Extends(more, reg), Evaluation(r, reg) = {}
    PROVE  Evaluation(r, more) = {}
<1>1. DOMAIN reg.sources \subseteq DOMAIN more.sources
  <2>1. Registered(reg, "source_ids") \subseteq Registered(more, "source_ids")
    BY DEF Extends, References
  <2>2. QED BY <2>1 DEF Registered
<1>2. \A x \in NamedRelations(r, reg) : \A end \in x.ends : Resolves(r, more, end)
  <2>1. \A x \in NamedRelations(r, reg) : \A end \in x.ends : Resolves(r, reg, end)
    BY NothingDangling
  <2>2. \A end : Resolves(r, reg, end) => Resolves(r, more, end)
    BY <1>1 DEF Resolves, Extends, Held
  <2>3. QED BY <2>1, <2>2
<1>3. QED BY <1>2, StillAccepted DEF Extends

(* What proposing and registering change.                                   *)
LEMMA ProposingIs ==
    ASSUME NEW reg, Stands(reg), NEW way, NEW r \in Record, NEW more, more = Proposing(way, r, reg)
    PROVE  /\ more.authors = reg.authors /\ more.objects = reg.objects
           /\ more.relations = reg.relations /\ more.governing = reg.governing
           /\ DOMAIN reg.sources \subseteq DOMAIN more.sources
           /\ way = "portal" /\ NewSource \in Names(r, "source_ids") => NewSource \in DOMAIN more.sources
           /\ \A s \in DOMAIN more.sources :
                 IF s \in DOMAIN reg.sources THEN more.sources[s] = reg.sources[s]
                 ELSE s = NewSource /\ way = "portal" /\ s \in Names(r, "source_ids") /\ more.sources[s] = ProposedSource(0)
           /\ Stands(more)
<1>1. reg = [authors |-> reg.authors, objects |-> reg.objects, sources |-> reg.sources,
             relations |-> reg.relations, governing |-> reg.governing]
  BY DEF Stands, IsRegistry
<1>2. /\ more.authors = reg.authors /\ more.objects = reg.objects
      /\ more.relations = reg.relations /\ more.governing = reg.governing
      /\ more.sources = IF way = "portal" /\ NewSource \in Names(r, "source_ids")
                        THEN Filed(NewSource, ProposedSource(0), reg.sources) ELSE reg.sources
  BY <1>1 DEF Proposing
<1>3. /\ DOMAIN reg.sources \subseteq DOMAIN more.sources
      /\ way = "portal" /\ NewSource \in Names(r, "source_ids") => NewSource \in DOMAIN more.sources
      /\ NewSource \in DOMAIN more.sources => more.sources[NewSource] = ProposedSource(0)
      /\ \A s \in DOMAIN more.sources :
            IF s \in DOMAIN reg.sources THEN more.sources[s] = reg.sources[s]
            ELSE s = NewSource /\ way = "portal" /\ s \in Names(r, "source_ids") /\ more.sources[s] = ProposedSource(0)
  <2> HIDE DEF ProposedSource
  <2> QED BY <1>2 DEF Filed, Stands
<1>4. IsRegistry(more)
  BY RegisteringTyped DEF Stands
<1>5. QED
  BY <1>2, <1>3, <1>4 DEF Stands, NamedByIds

LEMMA RegisteringIs ==
    ASSUME NEW reg, Stands(reg), NEW way, NEW r \in Record, NEW more, more = Registering(way, r, reg)
    PROVE  /\ more.authors = reg.authors /\ more.sources = Proposing(way, r, reg).sources
           /\ more.relations = reg.relations /\ more.governing = reg.governing
           /\ DOMAIN more.objects = DOMAIN reg.objects \cup {r.id}
           /\ more.objects[r.id] = r
           /\ \A f \in DOMAIN reg.objects \ {r.id} : more.objects[f] = reg.objects[f]
           /\ Stands(more) /\ Held(reg) \subseteq Held(more)
<1> DEFINE mid == Proposing(way, r, reg)
<1>1. /\ mid.authors = reg.authors /\ mid.objects = reg.objects
      /\ mid.relations = reg.relations /\ mid.governing = reg.governing /\ Stands(mid)
  <2> HIDE DEF mid
  <2>1. mid = Proposing(way, r, reg)
    BY DEF mid
  <2>2. QED BY <2>1, ProposingIs
<1>2. mid = [authors |-> mid.authors, objects |-> mid.objects, sources |-> mid.sources,
             relations |-> mid.relations, governing |-> mid.governing]
  <2> HIDE DEF mid
  <2> QED BY <1>1 DEF Stands, IsRegistry
<1>3. more = [mid EXCEPT !.objects = Filed(r.id, r, mid.objects)]
  BY DEF Registering
<1>4. /\ more.authors = reg.authors /\ more.sources = mid.sources
      /\ more.relations = reg.relations /\ more.governing = reg.governing
      /\ more.objects = Filed(r.id, r, reg.objects)
  <2> HIDE DEF mid
  <2> QED BY <1>1, <1>2, <1>3
<1>5. /\ DOMAIN more.objects = DOMAIN reg.objects \cup {r.id}
      /\ more.objects[r.id] = r
      /\ \A f \in DOMAIN reg.objects \ {r.id} : more.objects[f] = reg.objects[f]
  BY <1>4 DEF Filed
<1>6. NamedByIds(more)
  BY <1>5 DEF Stands, NamedByIds
<1>7. Held(reg) \subseteq Held(more)
  <2>1. \A f \in DOMAIN reg.objects : f \in DOMAIN more.objects /\ more.objects[f].id = reg.objects[f].id
    BY <1>5 DEF Stands, NamedByIds
  <2>2. QED BY <2>1 DEF Held
<1>8. IsRegistry(more)
  BY RegisteringTyped DEF Stands
<1>9. Stands(more)
  <2> HIDE DEF mid
  <2> QED BY <1>1, <1>4, <1>6, <1>8 DEF Stands
<1>10. QED
  BY <1>4, <1>5, <1>7, <1>9

-----------------------------------------------------------------------------
(* An accepted record, its candidate and what was accepted earlier.         *)
Accepted ==
    /\ phase = "decided" /\ receipt.decision = "ACCEPTED" =>
          Evaluation(revision, Proposing(route, revision, lib)) = {}
    /\ phase = "registered" =>
          receipt.decision = "ACCEPTED" /\ Evaluation(revision, lib) = {}

Standing == TypeOK /\ Stands(lib) /\ Accepted

LEMMA ProposingExtends ==
    ASSUME NEW way, NEW r \in Record, NEW reg, NEW more, Stands(reg), Stands(more), Extends(more, reg)
    PROVE  Extends(Proposing(way, r, more), Proposing(way, r, reg))
<1> DEFINE p == Proposing(way, r, reg)
           q == Proposing(way, r, more)
<1>1. /\ p.authors = reg.authors /\ p.objects = reg.objects
      /\ p.relations = reg.relations /\ p.governing = reg.governing
      /\ \A s \in DOMAIN p.sources :
            s \in DOMAIN reg.sources \/ (s = NewSource /\ way = "portal" /\ s \in Names(r, "source_ids"))
  <2>1. \E x : x = p
    OBVIOUS
  <2>2. QED BY <2>1, ProposingIs
<1>2. /\ q.authors = more.authors /\ q.objects = more.objects
      /\ q.relations = more.relations /\ q.governing = more.governing
      /\ DOMAIN more.sources \subseteq DOMAIN q.sources
      /\ way = "portal" /\ NewSource \in Names(r, "source_ids") => NewSource \in DOMAIN q.sources
  BY ProposingIs
<1> HIDE DEF p, q
<1>3. DOMAIN p.sources \subseteq DOMAIN q.sources
  <2>1. DOMAIN reg.sources \subseteq DOMAIN more.sources
    <3>1. Registered(reg, "source_ids") \subseteq Registered(more, "source_ids")
      BY DEF Extends, References
    <3>2. QED BY <3>1 DEF Registered
  <2>2. QED BY <1>1, <1>2, <2>1
<1>4. \A f \in References : Registered(p, f) \subseteq Registered(q, f)
  <2>1. \A f \in References : Registered(reg, f) \subseteq Registered(more, f)
    BY DEF Extends
  <2>2. QED BY <1>1, <1>2, <1>3, <2>1 DEF Registered, References
<1>5. Held(p) \subseteq Held(q)
  BY <1>1, <1>2 DEF Extends, Held
<1>6. Extends(q, p)
  BY <1>1, <1>2, <1>4, <1>5 DEF Extends
<1>7. QED BY <1>6 DEF p, q

LEMMA RegisteringExtends ==
    ASSUME NEW way, NEW r \in Record, NEW reg, Stands(reg)
    PROVE  Extends(Registering(way, r, reg), Proposing(way, r, reg))
<1> DEFINE p == Proposing(way, r, reg)
           q == Registering(way, r, reg)
<1>1. /\ p.authors = reg.authors /\ p.objects = reg.objects
      /\ p.relations = reg.relations /\ p.governing = reg.governing
  BY ProposingIs
<1>2. /\ q.authors = reg.authors /\ q.sources = p.sources
      /\ q.relations = reg.relations /\ q.governing = reg.governing
      /\ Held(reg) \subseteq Held(q)
  BY RegisteringIs
<1> HIDE DEF p, q
<1>3. Extends(q, p)
  BY <1>1, <1>2 DEF Extends, Held, Registered, References
<1>4. QED BY <1>3 DEF p, q

LEMMA GrowExtends ==
    ASSUME TypeOK, Stands(lib), NEW x \in Newcomers, Grow(x), NEW more, more = lib'
    PROVE  Stands(more) /\ Extends(more, lib)
<1>1. lib = [authors |-> lib.authors, objects |-> lib.objects, sources |-> lib.sources,
             relations |-> lib.relations, governing |-> lib.governing]
  BY DEF Stands, IsRegistry
<1>2. x \in Authors \cup SourceIds \cup Relations
  BY IntakeAssumption
<1>3. x \notin lib.authors \cup DOMAIN lib.sources \cup DOMAIN lib.relations
  BY DEF Grow
<1>4. \/ more = [lib EXCEPT !.authors = @ \cup {x}]
      \/ x \in SourceIds /\ more = [lib EXCEPT !.sources = Filed(x, ProposedSource(0), @)]
      \/ x \in Relations
         /\ more = [lib EXCEPT !.relations = Filed(x, [controlled |-> TRUE, ends |-> {}], @)]
  BY <1>2 DEF Grow
<1>5. IsRegistry(more)
  <2>1. TypeOK'
    BY TypeRest
  <2>2. QED BY <2>1 DEF TypeOK
<1>6. CASE more = [lib EXCEPT !.authors = @ \cup {x}]
  <2>1. /\ more.objects = lib.objects /\ more.sources = lib.sources /\ more.relations = lib.relations
        /\ more.governing = lib.governing /\ more.authors = lib.authors \cup {x}
    BY <1>1, <1>6
  <2>2. QED BY <1>5, <2>1 DEF Stands, NamedByIds, Extends, Held, Registered, References
<1>7. CASE x \in SourceIds /\ more = [lib EXCEPT !.sources = Filed(x, ProposedSource(0), @)]
  <2>1. /\ more.objects = lib.objects /\ more.authors = lib.authors /\ more.relations = lib.relations
        /\ more.governing = lib.governing
        /\ more.sources = Filed(x, ProposedSource(0), lib.sources)
    BY <1>1, <1>7
  <2>2. /\ DOMAIN more.sources = DOMAIN lib.sources \cup {x}
        /\ NewSource \in DOMAIN more.sources => more.sources[NewSource] = ProposedSource(0)
    <3> HIDE DEF ProposedSource
    <3> QED BY <2>1 DEF Filed, Stands
  <2>3. QED BY <1>5, <2>1, <2>2 DEF Stands, NamedByIds, Extends, Held, Registered, References
<1>8. CASE x \in Relations
           /\ more = [lib EXCEPT !.relations = Filed(x, [controlled |-> TRUE, ends |-> {}], @)]
  <2>1. /\ more.objects = lib.objects /\ more.authors = lib.authors /\ more.sources = lib.sources
        /\ more.governing = lib.governing
        /\ more.relations = Filed(x, [controlled |-> TRUE, ends |-> {}], lib.relations)
    BY <1>1, <1>8
  <2>2. /\ DOMAIN more.relations = DOMAIN lib.relations \cup {x}
        /\ \A y \in DOMAIN lib.relations : more.relations[y] = lib.relations[y]
    BY <1>3, <2>1 DEF Filed
  <2>3. QED BY <1>5, <2>1, <2>2 DEF Stands, NamedByIds, Extends, Held, Registered, References
<1>9. QED BY <1>4, <1>6, <1>7, <1>8

LEMMA StandingInit == Init => Standing
<1> SUFFICES ASSUME Init PROVE Standing
  OBVIOUS
<1>1. TypeOK
  BY TypeInit
<1>2. Stands(lib)
  BY IntakeAssumption DEF Init, Stands
<1>3. QED BY <1>1, <1>2 DEF Init, Standing, Accepted

LEMMA StandingStep ==
    ASSUME Standing, [Next]_vars
    PROVE  Standing'
<1> USE DEF Standing
<1>1. TypeOK'
  BY TypeStep
<1>2. ASSUME lib' = lib, phase' \in {"draft", "submitted"} PROVE Standing'
  BY <1>1, <1>2 DEF Stands, NamedByIds, IsRegistry, Accepted
<1>3. ASSUME NEW file \in Files, NEW outcome \in Outcomes, Prepare(file, outcome) PROVE Standing'
  BY <1>2, <1>3 DEF Prepare
<1>4. ASSUME NEW supplied, NEW cleared, NEW confirms, SaveForm(supplied, cleared, confirms)
      PROVE  Standing'
  BY <1>2, <1>4 DEF SaveForm
<1>5. ASSUME NEW answer, NEW governs, Confirm(answer, governs) PROVE Standing'
  BY <1>2, <1>5 DEF Confirm
<1>6. ASSUME HandIn PROVE Standing'
  BY <1>2, <1>6 DEF HandIn
<1>7. ASSUME StartRepair PROVE Standing'
  BY <1>2, <1>7 DEF StartRepair
<1>8. ASSUME NEW fields, SupplyListed(fields) PROVE Standing'
  BY <1>2, <1>8 DEF SupplyListed
<1>9. ASSUME Evaluate PROVE Standing'
  <2> DEFINE details == Evaluation(revision, Proposing(route, revision, lib))
  <2>1. /\ lib' = lib /\ revision' = revision /\ phase' = "decided" /\ route' = route
        /\ receipt' = BuildReceipt(revision, details)
    BY <1>9, AsOperators DEF Evaluate
  <2>2. receipt'.decision = "ACCEPTED" => details = {}
    <3> HIDE DEF details
    <3> QED BY <2>1, AcceptedIsNothing DEF BuildReceipt
  <2>3. Proposing(route, revision, lib)' = Proposing(route, revision, lib)
    BY <2>1 DEF Proposing
  <2>4. Accepted'
    BY <2>1, <2>2, <2>3 DEF Accepted
  <2>5. QED BY <1>1, <2>1, <2>4 DEF Stands, NamedByIds, IsRegistry
<1>10. ASSUME Register PROVE Standing'
  <2>1. revision \in Record
    BY DEF TypeOK
  <2>2. PICK r, way : r \in Record /\ r = revision /\ way = route
    BY <2>1
  <2>3. PICK more : more = Registering(way, r, lib)
    OBVIOUS
  <2>4. /\ lib' = more /\ revision' = r /\ route' = way /\ phase' = "registered" /\ receipt' = receipt
        /\ phase = "decided" /\ receipt.decision = "ACCEPTED"
    BY <1>10, <2>2, <2>3, AsOperators DEF Register
  <2>5. Stands(more) /\ Extends(more, Proposing(way, r, lib))
    BY <2>2, <2>3, RegisteringIs, RegisteringExtends
  <2>6. Evaluation(r, Proposing(way, r, lib)) = {}
    BY <2>2, <2>4 DEF Accepted
  <2>7. Evaluation(r, more) = {}
    BY <2>2, <2>5, <2>6, AcceptedInMore
  <2>8. Accepted' /\ Stands(lib)'
    BY <2>4, <2>5, <2>7 DEF Accepted
  <2>9. QED BY <1>1, <2>8
<1>11. ASSUME NEW x \in Newcomers, Grow(x) PROVE Standing'
  <2>1. revision \in Record
    BY DEF TypeOK
  <2>2. PICK r, way : r \in Record /\ r = revision /\ way = route
    BY <2>1
  <2>3. PICK more : more = lib'
    OBVIOUS
  <2>4. PICK reg : reg = lib
    OBVIOUS
  <2>5. Stands(reg) /\ Stands(more) /\ Extends(more, reg)
    BY <1>11, <2>3, <2>4, GrowExtends
  <2>6. revision' = r /\ route' = way /\ phase' = phase /\ receipt' = receipt
    BY <1>11, <2>2 DEF Grow
  <2>7. Evaluation(r, reg) = {} => Evaluation(r, more) = {}
    BY <2>2, <2>5, AcceptedInMore
  <2>8. Extends(Proposing(way, r, more), Proposing(way, r, reg))
    BY <2>2, <2>5, ProposingExtends
  <2>9. Evaluation(r, Proposing(way, r, reg)) = {} => Evaluation(r, Proposing(way, r, more)) = {}
    BY <2>2, <2>8, AcceptedInMore
  <2>10. Accepted' /\ Stands(lib)'
    BY <2>2, <2>3, <2>4, <2>5, <2>6, <2>7, <2>9 DEF Accepted
  <2>11. QED BY <1>1, <2>10
<1>12. ASSUME UNCHANGED vars PROVE Standing'
  BY <1>1, <1>12 DEF vars, Stands, NamedByIds, IsRegistry, Accepted, Proposing
<1>13. QED
  BY <1>3, <1>4, <1>5, <1>6, <1>7, <1>8, <1>9, <1>10, <1>11, <1>12 DEF Next

LEMMA StandingHolds == Spec => []Standing
<1>1. Standing /\ [Next]_vars => Standing'
  BY StandingStep
<1>2. QED BY <1>1, StandingInit, PTL DEF Spec

(* What was accepted stays acceptable while the registry grows, and from     *)
(* its registration on in the registry as it is.                            *)
THEOREM StaysAcceptedHolds == Spec => []StaysAccepted
<1>1. Standing => StaysAccepted
  BY AsOperators, AcceptedIsNothing DEF Standing, Accepted, StaysAccepted
<1>2. QED BY <1>1, StandingHolds, PTL

-----------------------------------------------------------------------------
(* The issues a candidate can bring, check by check.                        *)
LEMMA OwnIssues ==
    ASSUME NEW way, NEW r \in Record, NEW reg, Stands(reg), NEW more, more = Registering(way, r, reg),
           Evaluation(r, more) = {}
    PROVE  /\ RecordIssues(more) \subseteq RecordIssues(reg)
           /\ UniqueIds(more) = {}
           /\ ObjectReferences(more) \subseteq ObjectReferences(reg)
           /\ TaxonomyReferences(more) \subseteq TaxonomyReferences(reg)
           /\ MissingnessClassIssues(more) \subseteq MissingnessClassIssues(reg)
<1>1. /\ more.authors = reg.authors /\ more.sources = Proposing(way, r, reg).sources
      /\ more.relations = reg.relations /\ more.governing = reg.governing
      /\ DOMAIN more.objects = DOMAIN reg.objects \cup {r.id}
      /\ more.objects[r.id] = r
      /\ \A f \in DOMAIN reg.objects \ {r.id} : more.objects[f] = reg.objects[f]
      /\ NamedByIds(more)
  BY RegisteringIs DEF Stands
<1>2. /\ \A f \in Fields : SchemaError(f, r.state[f]) = "none"
      /\ \A f \in RequiredPresence : ~Missing(r, f)
      /\ \A f \in Patterned : ~Missing(r, f) /\ r.state[f] # "alien"
      /\ \A f \in Axes \cup Vocabularies : r.state[f] \notin {"alien", "blank"}
      /\ r.state["missingness"] # "alien"
  BY NothingMissing
<1>3. RecordIssues(more) \subseteq RecordIssues(reg)
  <2> DEFINE S(q, file) ==
               {Issue("schema-validity", file) : f \in {x \in Fields : SchemaError(x, q.state[x]) # "none"}}
             M(q, file) ==
               {Issue("missing", file) : f \in {x \in RequiredPresence : Missing(q, x)}}
             P(q, file) ==
               {Issue("formats", file) : f \in {x \in Patterned : q.state[x] \in {"alien", "blank"}}}
             I(q, file) == S(q, file) \cup M(q, file) \cup P(q, file)
  <2>1. I(r, r.id) = {}
    BY <1>2 DEF Missing
  <2>2. RecordIssues(more) = UNION {I(more.objects[file], file) : file \in DOMAIN more.objects}
    BY DEF RecordIssues
  <2>3. RecordIssues(reg) = UNION {I(reg.objects[file], file) : file \in DOMAIN reg.objects}
    BY DEF RecordIssues
  <2>4. QED
    <3> HIDE DEF I
    <3> QED BY <1>1, <2>1, <2>2, <2>3
<1>4. UniqueIds(more) = {}
  BY <1>1 DEF UniqueIds, Issues, NamedByIds
<1>5. ObjectReferences(more) \subseteq ObjectReferences(reg)
  <2>1. \A x \in References : ~Dangling(r, more, x)
    BY NothingDangling
  <2>2. DOMAIN reg.sources \subseteq DOMAIN more.sources
    BY <1>1, ProposingIs
  <2>3. \A x \in References : Registered(reg, x) \subseteq Registered(more, x)
    BY <1>1, <2>2 DEF Registered, References
  <2>4. \A f \in DOMAIN reg.objects, x \in References :
           Dangling(reg.objects[f], more, x) => Dangling(reg.objects[f], reg, x)
    BY <2>3 DEF Dangling
  <2>5. {f \in DOMAIN more.objects : \E x \in References : Dangling(more.objects[f], more, x)}
          \subseteq {f \in DOMAIN reg.objects : \E x \in References : Dangling(reg.objects[f], reg, x)}
    BY <1>1, <2>1, <2>4
  <2>6. QED BY <2>5 DEF ObjectReferences, Issues
<1>6. TaxonomyReferences(more) \subseteq TaxonomyReferences(reg)
  <2>1. {f \in DOMAIN more.objects :
           \E x \in Axes \cup Vocabularies : more.objects[f].state[x] \in {"alien", "blank"}}
          \subseteq {f \in DOMAIN reg.objects :
           \E x \in Axes \cup Vocabularies : reg.objects[f].state[x] \in {"alien", "blank"}}
    BY <1>1, <1>2
  <2>2. QED BY <1>1, <2>1 DEF TaxonomyReferences, Issues
<1>7. MissingnessClassIssues(more) \subseteq MissingnessClassIssues(reg)
  BY <1>1, <1>2 DEF MissingnessClassIssues, Issues
<1>8. QED BY <1>3, <1>4, <1>5, <1>6, <1>7

LEMMA SharedIssues ==
    ASSUME NEW way, NEW r \in Record, NEW reg, Stands(reg), NEW more, more = Registering(way, r, reg)
    PROVE  /\ BrokenRelations(more) \subseteq BrokenRelations(reg)
           /\ SourceLinks(more) \subseteq SourceLinks(reg)
           /\ SourceDois(more) \subseteq SourceDois(reg)
           /\ SourceLineage(more) \subseteq SourceLineage(reg)
           /\ GoverningViews(more) = GoverningViews(reg)
           /\ GoverningSupersession(more) = GoverningSupersession(reg)
<1>1. /\ more.relations = reg.relations /\ more.governing = reg.governing
      /\ Held(reg) \subseteq Held(more)
      /\ DOMAIN reg.sources \subseteq DOMAIN more.sources
      /\ \A s \in DOMAIN more.sources :
            IF s \in DOMAIN reg.sources THEN more.sources[s] = reg.sources[s]
            ELSE s = NewSource /\ more.sources[s] = ProposedSource(0)
  <2>1. more.sources = Proposing(way, r, reg).sources
    BY RegisteringIs
  <2>2. PICK mid : mid = Proposing(way, r, reg)
    OBVIOUS
  <2>3. /\ DOMAIN reg.sources \subseteq DOMAIN mid.sources
        /\ \A s \in DOMAIN mid.sources :
              IF s \in DOMAIN reg.sources THEN mid.sources[s] = reg.sources[s]
              ELSE s = NewSource /\ mid.sources[s] = ProposedSource(0)
    BY <2>2, ProposingIs
  <2>4. QED BY <2>1, <2>2, <2>3, RegisteringIs
<1>2. BrokenRelations(more) \subseteq BrokenRelations(reg)
  BY <1>1 DEF BrokenRelations, Issues
<1>3. SourceLinks(more) \subseteq SourceLinks(reg)
  BY <1>1 DEF SourceLinks, Issues, ProposedSource
<1>4. SourceDois(more) \subseteq SourceDois(reg)
  BY <1>1 DEF SourceDois, Issues, ProposedSource, Own
<1>5. SourceLineage(more) \subseteq SourceLineage(reg)
  BY <1>1 DEF SourceLineage, Issues, ProposedSource
<1>6. GoverningViews(more) = GoverningViews(reg) /\ GoverningSupersession(more) = GoverningSupersession(reg)
  BY <1>1 DEF GoverningViews, GoverningSupersession
<1>7. QED BY <1>2, <1>3, <1>4, <1>5, <1>6

(* No accepted record brings an issue of its own into the registry's checks  *)
(* but the two that no gate looks at.                                       *)
THEOREM AcceptedIsCleanHolds == Spec => []AcceptedIsClean
<1>1. ASSUME Standing, phase = "decided", receipt.decision = "ACCEPTED"
      PROVE  {i.check : i \in RegistryIssues(Candidate) \ RegistryIssues(lib)}
               \subseteq {"supersession-references", "duplicate-object-collisions"}
  <2>1. PICK more : more = Registering(route, revision, lib)
    OBVIOUS
  <2>2. Candidate = more
    BY <2>1, AsOperators
  <2>3. revision \in Record /\ Stands(lib)
    BY <1>1 DEF Standing, TypeOK
  <2>4. Evaluation(revision, Proposing(route, revision, lib)) = {}
    BY <1>1 DEF Standing, Accepted
  <2>5. Extends(more, Proposing(route, revision, lib))
    BY <2>1, <2>3, RegisteringExtends
  <2>6. Evaluation(revision, more) = {}
    BY <2>4, <2>5, AcceptedInMore
  <2>7. RegistryIssues(more) \ RegistryIssues(lib) \subseteq Supersession(more) \cup Collisions(more)
    BY <2>1, <2>3, <2>6, OwnIssues, SharedIssues DEF RegistryIssues
  <2>8. \A i \in Supersession(more) \cup Collisions(more) :
           i.check \in {"supersession-references", "duplicate-object-collisions"}
    BY DEF Supersession, Collisions, Issues, Issue
  <2>9. QED BY <2>2, <2>7, <2>8
<1>2. Standing => AcceptedIsClean
  BY <1>1 DEF AcceptedIsClean
<1>3. QED BY <1>2, StandingHolds, PTL

-----------------------------------------------------------------------------
(* The ids a draft may carry when no answer names one.                      *)
OwnIds(target, files) == {NewObject, target} \cup {files[i].id : i \in DOMAIN files}

IdsKept ==
    route = "portal" =>
        /\ draft.record.id \in OwnIds(intended, uploads)
        /\ revision.id \in OwnIds(intended, uploads)
        /\ phase = "submitted" /\ draft.hints.answer \in Objects => revision.id = draft.hints.answer

LEMMA IdsKeptStep ==
    ASSUME TypeOK, IdsKept, [Next]_vars
    PROVE  IdsKept'
<1>1. ASSUME route' = route, uploads' = uploads, intended' = intended, draft'.record.id = draft.record.id,
             revision'.id = revision.id, phase' = "draft"
      PROVE  IdsKept'
  BY <1>1 DEF IdsKept, OwnIds
<1>2. ASSUME NEW file \in Files, NEW outcome \in Outcomes, Prepare(file, outcome) PROVE IdsKept'
  <2>1. PICK files : files = Append(uploads, file)
    OBVIOUS
  <2>2. PICK record \in Record : record = draft.record
    BY DEF TypeOK
  <2>3. files \in Seq(Files)
    BY <2>1 DEF TypeOK
  <2>4. draft'.record.id = Assembled(record, files).id
    <3>1. draft'.record = [Assembled(record, files) EXCEPT
                             !.state = Sourced(Suggested(Assembled(record, files).state, outcome),
                                               NewSources(draft, Suggested(Assembled(record, files).state, outcome), outcome)),
                             !.refs["source_ids"] = @ \cup
                                  NewSources(draft, Suggested(Assembled(record, files).state, outcome), outcome)]
      BY <1>2, <2>1, <2>2 DEF Prepare, Prepared
    <3>2. Assembled(record, files) \in Record
      BY <2>3, AssembledTyped
    <3>3. QED BY <3>1, <3>2 DEF Record
  <2>5. Assembled(record, files).id \in {record.id} \cup {files[i].id : i \in DOMAIN files}
    <3>1. "object_id" \in Fields
      BY DEF Fields, Patterned
    <3>2. TakenFrom(record, files, "object_id") \in {0} \cup DOMAIN files
      BY <2>3, <3>1, TakenFromSays DEF Sayers
    <3>3. record = [state |-> record.state, refs |-> record.refs, gaps |-> record.gaps, id |-> record.id,
                    title |-> record.title, version |-> record.version, supersedes |-> record.supersedes]
      BY DEF Record
    <3>4. Assembled(record, files).id =
             IF TakenFrom(record, files, "object_id") = 0 THEN record.id
             ELSE files[TakenFrom(record, files, "object_id")].id
      BY <3>1, <3>3 DEF Assembled
    <3>5. QED BY <3>2, <3>4
  <2>6. {uploads[i].id : i \in DOMAIN uploads} \subseteq {files[i].id : i \in DOMAIN files}
    BY <2>1 DEF TypeOK
  <2>7. /\ uploads' = files /\ intended' = intended /\ revision' = revision /\ route' = route
        /\ phase' = "draft"
    BY <1>2, <2>1 DEF Prepare
  <2>8. QED BY <2>2, <2>4, <2>5, <2>6, <2>7 DEF IdsKept, OwnIds
<1>3. ASSUME NEW supplied, NEW cleared, NEW confirms, SaveForm(supplied, cleared, confirms)
      PROVE  IdsKept'
  <2>1. draft'.record.id = Posted(draft.record, supplied, cleared).id
    <3>1. Posted(draft.record, supplied, cleared) \in Record
      BY PostedTyped DEF TypeOK
    <3>2. QED BY <1>3, <3>1 DEF SaveForm, Record
  <2>2. Posted(draft.record, supplied, cleared).id = draft.record.id
    BY DEF Posted, TypeOK, Record
  <2>3. QED BY <1>1, <1>3, <2>1, <2>2 DEF SaveForm
<1>4. ASSUME NEW answer \in Objects \cup {"none", "distinct"}, NEW governs \in BOOLEAN,
             Confirm(answer, governs)
      PROVE  IdsKept'
  <2>1. PICK hints \in Hints : hints = Answered(answer, governs)
    BY AnsweredTyped
  <2>2. PICK target \in Objects \cup {NoId} : target = Target(hints)
    BY <2>1, AnsweredTyped
  <2>3. PICK frozen \in Record : frozen = Frozen(draft.record, target)
    BY FrozenTyped DEF TypeOK
  <2>4. frozen.id = IF target # NoId THEN target ELSE draft.record.id
    BY <2>3 DEF Frozen, TypeOK, Record
  <2>5. /\ route' = "portal" /\ uploads' = uploads /\ intended' = target /\ revision' = frozen
        /\ draft' = [draft EXCEPT !.record = frozen, !.hints = hints]
    BY <1>4, <2>1, <2>2, <2>3 DEF Confirm
  <2>6. draft'.record = frozen /\ draft'.hints = hints
    BY <2>5 DEF TypeOK
  <2>7. hints.answer \in Objects => frozen.id = hints.answer
    BY <2>2, <2>4, IntakeAssumption DEF Target
  <2>8. frozen.id \in OwnIds(target, uploads)
    <3>1. draft.record.id \in Objects /\ route = "portal"
      BY <1>4 DEF TypeOK, Record, Confirm
    <3>2. target = NoId => intended = NoId
      BY <2>2, IntakeAssumption DEF Target
    <3>3. QED BY <2>4, <3>1, <3>2, IntakeAssumption DEF IdsKept, OwnIds
  <2>9. QED BY <2>5, <2>6, <2>7, <2>8 DEF IdsKept
<1>5. ASSUME StartRepair PROVE IdsKept'
  <2>1. draft'.record.id = revision.id
    BY <1>5 DEF StartRepair, TypeOK, Record
  <2>2. QED BY <1>5, <2>1 DEF StartRepair, IdsKept, OwnIds
<1>6. ASSUME route' = "cli" PROVE IdsKept'
  BY <1>6 DEF IdsKept
<1>7. ASSUME route' = route, uploads' = uploads, intended' = intended, draft' = draft, revision' = revision,
             phase' # "submitted" \/ phase = "submitted"
      PROVE  IdsKept'
  BY <1>7 DEF IdsKept, OwnIds
<1>8. ASSUME HandIn \/ \E fields : SupplyListed(fields) PROVE IdsKept'
  BY <1>6, <1>8 DEF HandIn, SupplyListed
<1>9. ASSUME Evaluate \/ Register \/ (\E x : Grow(x)) \/ UNCHANGED vars PROVE IdsKept'
  BY <1>7, <1>9 DEF Evaluate, Register, Grow, vars
<1>10. QED
  BY <1>2, <1>3, <1>4, <1>5, <1>8, <1>9 DEF Next

(* The record is frozen under the id the researcher's answer names; without  *)
(* one, under its own, one a file states, or that of an earlier answer.     *)
THEOREM AnswerIsFollowedHolds == Spec => []AnswerIsFollowed
<1>1. Init => IdsKept
  <2>1. Init /\ route = "portal" => draft.record.id = NewObject /\ revision.id = NewObject /\ phase = "draft"
    BY DEF Init, Draft, EmptyRecord
  <2>2. QED BY <2>1 DEF Init, IdsKept, OwnIds
<1>2. TypeOK /\ IdsKept /\ [Next]_vars => IdsKept'
  BY IdsKeptStep
<1>3. IdsKept => AnswerIsFollowed
  BY DEF IdsKept, AnswerIsFollowed, OwnIds
<1>4. QED BY <1>1, <1>2, <1>3, TypeCorrect, PTL DEF Spec

-----------------------------------------------------------------------------
(* The rows of a draft that are uncertain: a suggestion's, a file's or a     *)
(* proposed source's.                                                       *)
UncertainRows ==
    \A x \in draft.rows : x.uncertain =>
        \/ x.origin = "library-classification" /\ x.field \in Suggestible
        \/ \E i \in DOMAIN uploads : x \in RowsOf(uploads[i])
        \/ x.field = "source_ids" /\ uploads # << >>

(* A value that is a guess has an uncertain row, unless it is the source of  *)
(* an earlier preparation; a statement for it is a record file's.           *)
Guessed ==
    \A f \in Fields : origin[f] = "guess" =>
        /\ f \in Suggestible \cup {"title", "source_ids"}
        /\ \/ \E x \in draft.rows : x.field = f /\ x.uncertain
           \/ f = "source_ids" /\ Len(uploads) > 1
        /\ Confirmed(draft.rows, f) =>
              \E i \in DOMAIN uploads : uploads[i].record /\ f \in Says(uploads[i])

Vouched == UncertainRows /\ Guessed /\ ReadyIsStated

LEMMA VouchedPrepare ==
    ASSUME TypeOK, Vouched, NEW file \in Files, NEW outcome \in Outcomes, Prepare(file, outcome)
    PROVE  Vouched'
<1>1. PICK files : files = Append(uploads, file) /\ files \in Seq(Files)
  <2>1. Append(uploads, file) \in Seq(Files)
    BY DEF TypeOK
  <2>2. QED BY <2>1
<1>2. PICK d \in [record: Record, rows: SUBSET Row, hints: Hints] : d = draft
  BY DEF TypeOK
<1>3. PICK assembled \in Record : assembled = Assembled(d.record, files)
  <2>1. Assembled(d.record, files) \in Record
    BY <1>1, AssembledTyped
  <2>2. QED BY <2>1
<1>4. PICK next : next = Prepared(d, files, outcome)
  OBVIOUS
<1>5. PICK named : /\ named = NewSources(d, Suggested(assembled.state, outcome), outcome)
                   /\ next.rows = (UNION {RowsOf(files[i]) : i \in DOMAIN files})
                                    \cup SuggestionRows(outcome) \cup SourceRows(named, outcome)
                   /\ \A f \in Fields : next.record.state[f] # assembled.state[f] =>
                         \/ f \in Suggestible /\ outcome.suggests[f] = "term"
                         \/ f = "source_ids" /\ named # {}
  <2>1. PICK state : state = Suggested(assembled.state, outcome)
    OBVIOUS
  <2>2. PICK named : named = NewSources(d, state, outcome)
    OBVIOUS
  <2>3. /\ next.rows = (UNION {RowsOf(files[i]) : i \in DOMAIN files})
                         \cup SuggestionRows(outcome) \cup SourceRows(named, outcome)
        /\ next.record = [assembled EXCEPT !.state = Sourced(state, named),
                                           !.refs["source_ids"] = @ \cup named]
    BY <1>3, <1>4, <2>1, <2>2 DEF Prepared
  <2>4. next.record.state = Sourced(state, named)
    BY <2>3 DEF Record
  <2>5. state \in [Fields -> Statuses]
    BY <2>1 DEF Suggested, Record, Statuses
  <2>6. \A f \in Fields : state[f] # assembled.state[f] =>
           f \in Suggestible /\ outcome.suggests[f] = "term"
    BY <2>1 DEF Suggested, Record
  <2>7. \A f \in Fields : next.record.state[f] # state[f] => f = "source_ids" /\ named # {}
    BY <2>4, <2>5 DEF Sourced
  <2>8. QED BY <2>1, <2>2, <2>3, <2>6, <2>7
<1>6. /\ uploads' = files /\ draft' = next /\ phase' = "draft"
      /\ \A x \in d.rows : x.origin = "library-classification" => outcome.suggests[x.field] # "none"
      /\ \A f \in Fields : origin'[f] =
            IF d.record.state[f] = next.record.state[f] THEN origin[f]
            ELSE IF assembled.state[f] = next.record.state[f] THEN GivenBy(files, f)
            ELSE IF f = "source_ids" /\ outcome.known # {} THEN "source" ELSE "guess"
  BY <1>1, <1>2, <1>3, <1>4 DEF Prepare
<1>7. /\ DOMAIN files = 1..(Len(uploads) + 1) /\ Len(files) = Len(uploads) + 1 /\ files # << >>
      /\ \A i \in DOMAIN uploads : i \in DOMAIN files /\ files[i] = uploads[i]
  BY <1>1 DEF TypeOK
<1>8. UncertainRows'
  <2>1. \A x \in SourceRows(named, outcome) : x.field = "source_ids"
    BY DEF SourceRows
  <2>2. \A x \in SuggestionRows(outcome) : x.origin = "library-classification" /\ x.field \in Suggestible
    BY DEF SuggestionRows
  <2>3. QED BY <1>5, <1>6, <1>7, <2>1, <2>2 DEF UncertainRows
<1>9. \A f \in Suggestible : outcome.suggests[f] # "none" =>
         \E x \in next.rows : x.field = f /\ x.uncertain
  <2> SUFFICES ASSUME NEW f \in Suggestible, outcome.suggests[f] # "none"
               PROVE  \E x \in next.rows : x.field = f /\ x.uncertain
    OBVIOUS
  <2>1. [field |-> f, origin |-> "library-classification", uncertain |-> TRUE] \in SuggestionRows(outcome)
    BY DEF SuggestionRows
  <2>2. [field |-> f, origin |-> "library-classification", uncertain |-> TRUE] \in next.rows
    BY <1>5, <2>1
  <2>3. QED BY <2>2
<1>10. \A f \in Fields : Confirmed(next.rows, f) =>
          \E i \in DOMAIN files : files[i].record /\ f \in Says(files[i])
  <2> SUFFICES ASSUME NEW f \in Fields,
                      NEW x \in next.rows, x.field = f, x.origin = "researcher-statement"
               PROVE  \E i \in DOMAIN files : files[i].record /\ f \in Says(files[i])
    BY DEF Confirmed
  <2>1. x \notin SuggestionRows(outcome) \cup SourceRows(named, outcome)
    BY DEF SuggestionRows, SourceRows
  <2>2. PICK i \in DOMAIN files : x \in RowsOf(files[i])
    BY <1>5, <2>1
  <2>3. QED BY <2>2 DEF RowsOf
<1>11. ASSUME NEW f \in Fields, origin'[f] = "guess"
       PROVE  /\ f \in Suggestible \cup {"title", "source_ids"}
              /\ \/ \E x \in next.rows : x.field = f /\ x.uncertain
                 \/ f = "source_ids" /\ Len(files) > 1
  <2>1. CASE d.record.state[f] = next.record.state[f]
    <3>1. origin[f] = "guess"
      BY <1>6, <1>11, <2>1
    <3>2. f \in Suggestible \cup {"title", "source_ids"}
      BY <3>1 DEF Vouched, Guessed
    <3>3. CASE f = "source_ids" /\ Len(uploads) > 1
      BY <1>7, <3>2, <3>3 DEF TypeOK
    <3>4. ASSUME NEW x \in d.rows, x.field = f, x.uncertain
          PROVE  \/ \E y \in next.rows : y.field = f /\ y.uncertain
                 \/ f = "source_ids" /\ Len(files) > 1
      <4>1. CASE x.origin = "library-classification" /\ x.field \in Suggestible
        BY <1>6, <1>9, <3>4, <4>1
      <4>2. ASSUME NEW i \in DOMAIN uploads, x \in RowsOf(uploads[i])
            PROVE  \E y \in next.rows : y.field = f /\ y.uncertain
        <5>1. x \in next.rows
          BY <1>5, <1>7, <4>2
        <5>2. QED BY <3>4, <5>1
      <4>3. CASE x.field = "source_ids" /\ uploads # << >>
        BY <1>7, <3>4, <4>3 DEF TypeOK
      <4>4. QED BY <1>2, <3>4, <4>1, <4>2, <4>3 DEF Vouched, UncertainRows
    <3>5. QED BY <1>2, <3>1, <3>2, <3>3, <3>4 DEF Vouched, Guessed
  <2>2. CASE d.record.state[f] # next.record.state[f] /\ assembled.state[f] = next.record.state[f]
    <3>1. GivenBy(files, f) = "guess"
      BY <1>6, <1>11, <2>2
    <3>2. PICK i : /\ i = Min(Tellers(files, f)) /\ Tellers(files, f) # {}
                   /\ ~files[i].record /\ ~files[i].sure
      BY <3>1 DEF GivenBy
    <3>3. i \in Sayers(files, f)
      BY <1>1, <3>2, TellersAreSayers
    <3>4. i \in DOMAIN files /\ f \in Says(files[i])
      BY <3>3 DEF Sayers
    <3>5. f = "title"
      BY <1>1, <3>2, <3>4, FileTyped
    <3>6. PICK b : b = (~files[i].record /\ ~files[i].sure)
      OBVIOUS
    <3>7. "title" \notin Axes
      BY DEF Axes
    <3>8. [field |-> f, origin |-> "source-extraction", uncertain |-> b] \in RowsOf(files[i])
      BY <3>2, <3>4, <3>5, <3>6, <3>7 DEF RowsOf
    <3>9. [field |-> f, origin |-> "source-extraction", uncertain |-> b] \in next.rows
      BY <1>5, <3>4, <3>8
    <3>10. b
      BY <3>2, <3>6
    <3>11. QED BY <3>5, <3>9, <3>10
  <2>3. CASE d.record.state[f] # next.record.state[f] /\ assembled.state[f] # next.record.state[f]
    <3>1. ~(f = "source_ids" /\ outcome.known # {})
      BY <1>6, <1>11, <2>3
    <3>2. CASE f \in Suggestible /\ outcome.suggests[f] = "term"
      BY <1>9, <3>2
    <3>3. CASE f = "source_ids" /\ named # {}
      <4>1. PICK b : b = (outcome.known = {})
        OBVIOUS
      <4>2. b
        BY <3>1, <3>3, <4>1
      <4>3. [field |-> "source_ids", origin |-> "source-extraction", uncertain |-> b]
               \in SourceRows(named, outcome)
        BY <3>3, <4>1 DEF SourceRows
      <4>4. QED BY <1>5, <3>3, <4>2, <4>3
    <3>4. QED BY <1>5, <2>3, <3>2, <3>3
  <2>4. QED BY <2>1, <2>2, <2>3
<1>12. Guessed'
  BY <1>6, <1>10, <1>11 DEF Guessed
<1>13. ReadyIsStated'
  BY <1>6 DEF ReadyIsStated
<1>14. QED BY <1>8, <1>12, <1>13 DEF Vouched

LEMMA VouchedSaveForm ==
    ASSUME TypeOK, Vouched, NEW supplied, NEW cleared, NEW confirms \in BOOLEAN,
           SaveForm(supplied, cleared, confirms)
    PROVE  Vouched'
<1>1. PICK new : /\ new = IF confirms THEN ConfirmedRows(draft, Posted(draft.record, supplied, cleared)) ELSE {}
                 /\ draft'.rows = draft.rows \cup new
  BY DEF SaveForm
<1>2. \A x \in new : x.uncertain = FALSE /\ confirms /\ x.field \in NeedsConfirmation(draft)
  BY <1>1 DEF ConfirmedRows
<1>3. uploads' = uploads /\ phase' = "draft"
  BY DEF SaveForm
<1>4. UncertainRows'
  BY <1>1, <1>2, <1>3 DEF Vouched, UncertainRows
<1>5. \A f \in Fields : origin'[f] = "guess" =>
         origin[f] = "guess" /\ ~(confirms /\ f \in NeedsConfirmation(draft))
  BY DEF SaveForm
<1>6. \A f \in Fields : origin'[f] = "guess" /\ Confirmed(draft'.rows, f) => Confirmed(draft.rows, f)
  BY <1>1, <1>2, <1>5 DEF Confirmed
<1>7. Guessed'
  BY <1>1, <1>3, <1>5, <1>6 DEF Vouched, Guessed
<1>8. QED BY <1>3, <1>4, <1>7 DEF Vouched, ReadyIsStated

LEMMA VouchedConfirm ==
    ASSUME TypeOK, Vouched, NEW answer \in Objects \cup {"none", "distinct"}, NEW governs \in BOOLEAN,
           Confirm(answer, governs)
    PROVE  Vouched'
<1>1. draft'.rows = draft.rows /\ uploads' = uploads /\ origin' = origin
  BY DEF Confirm, TypeOK
<1>2. UncertainRows' /\ Guessed'
  BY <1>1 DEF Vouched, UncertainRows, Guessed
<1>3. ASSUME ready', NEW f \in Asked, origin[f] = "guess"
      PROVE  \/ \E i \in DOMAIN uploads : uploads[i].record /\ f \in Says(uploads[i])
             \/ f = "source_ids" /\ Len(uploads) > 1
  <2>1. f \in Fields
    BY FieldsOfGates DEF Asked, Fields, Lists, Patterned, References
  <2>2. f \in Suggestible \cup {"title", "source_ids"}
    BY <1>3, <2>1 DEF Vouched, Guessed
  <2>3. f \notin MayBeEmpty
    BY <2>2 DEF Suggestible, Axes, MayBeEmpty
  <2>4. PICK d : /\ d = [draft EXCEPT !.hints = Answered(answer, governs)]
                 /\ d.record = draft.record /\ d.rows = draft.rows /\ Submittable(d)
    BY <1>3 DEF Confirm, TypeOK
  <2>5. ~Uncertain(draft.rows, f)
    BY <2>3, <2>4 DEF Submittable, Ready
  <2>6. QED BY <1>3, <2>1, <2>5 DEF Vouched, Guessed, Uncertain
<1>4. ReadyIsStated'
  BY <1>1, <1>3 DEF ReadyIsStated
<1>5. QED BY <1>2, <1>4 DEF Vouched

LEMMA VouchedStep ==
    ASSUME TypeOK, Vouched, [Next]_vars
    PROVE  Vouched'
<1>1. ASSUME draft'.rows = draft.rows, uploads' = uploads, origin' = origin, phase' # "submitted" \/ route' = "cli"
      PROVE  Vouched'
  BY <1>1 DEF Vouched, UncertainRows, Guessed, ReadyIsStated
<1>2. ASSUME StartRepair \/ HandIn \/ Evaluate \/ Register \/ \E fields : SupplyListed(fields)
      PROVE  Vouched'
  <2>1. draft'.rows = draft.rows /\ uploads' = uploads /\ origin' = origin
        /\ (phase' # "submitted" \/ route' = "cli")
    BY <1>2 DEF StartRepair, HandIn, Evaluate, Register, SupplyListed, TypeOK
  <2>2. QED BY <1>1, <2>1
<1>3. ASSUME (\E x : Grow(x)) \/ UNCHANGED vars PROVE Vouched'
  BY <1>3 DEF Grow, vars, Vouched, UncertainRows, Guessed, ReadyIsStated
<1>4. QED
  BY <1>2, <1>3, VouchedPrepare, VouchedSaveForm, VouchedConfirm DEF Next

(* No guess is submitted as ready: it was confirmed in the editor, or a      *)
(* record file has the field too, even with another value or none, or it is *)
(* the proposed source and a later preparation found it in its place.       *)
THEOREM ReadyIsStatedHolds == Spec => []ReadyIsStated
<1>1. Init => Vouched
  <2>1. Init => draft.rows = {} /\ (\A f \in Fields : origin[f] = "nobody") /\ phase = "draft"
    BY DEF Init, Draft
  <2>2. QED BY <2>1 DEF Vouched, UncertainRows, Guessed, ReadyIsStated
<1>2. TypeOK /\ Vouched /\ [Next]_vars => Vouched'
  BY VouchedStep
<1>3. Vouched => ReadyIsStated
  BY DEF Vouched
<1>4. QED BY <1>1, <1>2, <1>3, TypeCorrect, PTL DEF Spec

-----------------------------------------------------------------------------
(* A record as the form posts it, and one that was also submittable when it  *)
(* was frozen.                                                              *)
Shaped(r) ==
    \A f \in Fields :
        /\ r.state[f] \in {"stated", "blank", "undeclared"} \/ (f = "object_id" /\ r.state[f] = "alien")
        /\ r.state[f] = "undeclared" => f \in {"date", "governing_refs"}
        /\ r.state[f] = "blank" => f \notin {"authority", "authors", "version", "object_id", "date",
                                             "governing_refs"}

Whole(r) ==
    /\ \A f \in Texts \cup Vocabularies \cup Axes
                  \cup {"authority", "authors", "version", "date", "claim_layers"} : r.state[f] = "stated"
    /\ r.state["object_id"] \in {"stated", "alien"}
    /\ \A f \in Lists \cup {"missingness", "source_ids"} : r.state[f] \in {"stated", "blank"}
    /\ r.state["governing_refs"] \in {"stated", "undeclared"}

(* What a gate may still list of such a record.                             *)
Declarable(r, d) ==
    \/ d.cause \in {"gap", "unregistered", "endpoint"} \/ d.field = "relations"
    \/ d.field = "object_id" /\ r.state["object_id"] = "alien"

LEMMA ShapedIsWhole ==
    ASSUME NEW r \in Record, Shaped(r), r.state["date"] # "undeclared",
           \A f \in Asked \ MayBeEmpty : ~Missing(r, f)
    PROVE  Whole(r)
<1>1. \A f \in Texts \cup Vocabularies \cup Axes \cup {"version", "claim_layers"} :
         f \in Asked \ MayBeEmpty /\ f \in Fields /\ f # "object_id"
  BY DEF Asked, MayBeEmpty, Structured, Fields, Texts, Vocabularies, Axes, Patterned
<1>2. \A f \in Texts \cup Vocabularies \cup Axes \cup {"version", "claim_layers"} : r.state[f] = "stated"
  BY <1>1 DEF Shaped, Missing
<1>3. {"authority", "authors", "date", "object_id", "governing_refs", "missingness", "source_ids"}
        \cup Lists \subseteq Fields
  BY FieldsOfGates DEF References, Patterned, Structured
<1>4. r.state["authority"] = "stated" /\ r.state["authors"] = "stated" /\ r.state["date"] = "stated"
  BY <1>3 DEF Shaped
<1>5. r.state["object_id"] \in {"stated", "alien"} /\ r.state["governing_refs"] \in {"stated", "undeclared"}
  BY <1>3 DEF Shaped
<1>6. \A f \in Lists \cup {"missingness", "source_ids"} : r.state[f] \in {"stated", "blank"}
  BY <1>3 DEF Shaped, Lists
<1>7. QED BY <1>2, <1>4, <1>5, <1>6 DEF Whole

LEMMA WholeIsEvaluable ==
    ASSUME NEW r \in Record, Whole(r), NEW reg, NEW d \in Evaluation(r, reg)
    PROVE  Declarable(r, d)
<1>1. d \in GateA(r, reg) => Declarable(r, d)
  BY DEF GateA, Block, Fail, Declarable, Whole, Missing, Texts
<1>2. d \notin GateB(r)
  BY DEF GateB, Block, Fail, Whole, Missing
<1>3. d \in GateC(r, reg) => Declarable(r, d)
  BY DEF GateC, Block, Fail, Declarable, Whole, Missing, Given, Texts, Vocabularies
<1>4. d \notin GateD(r)
  <2>1. \A f \in Classified \cup {"main_question"} : r.state[f] = "stated"
    BY DEF Whole, Classified, Vocabularies, Texts
  <2>2. QED BY <2>1 DEF GateD, Block, Fail, Missing
<1>5. d \in GateE(r) => Declarable(r, d)
  BY DEF GateE, Block, Fail, Declarable, Whole, Missing, Given, Texts
<1>6. d \in GateF(r, reg) => Declarable(r, d)
  <2>1. CASE ~Given(r, "relations")
    BY <2>1 DEF GateF, Block, Declarable
  <2>2. CASE Given(r, "relations")
    BY <2>2 DEF GateF, Block, Fail, Declarable
  <2>3. QED BY <2>1, <2>2
<1>7. d \in GateG(r) => Declarable(r, d)
  <2>1. \A f \in {"version", "date"} \cup DurabilityTexts : r.state[f] = "stated"
    BY DEF Whole, DurabilityTexts, Texts
  <2>2. \A f \in Lists \cup {"claim_layers"} : r.state[f] # "undeclared"
    BY DEF Whole
  <2>3. ASSUME NEW f \in Fields
        PROVE  \/ SchemaError(f, r.state[f]) = "none" \/ f = "relations"
               \/ f = "object_id" /\ r.state[f] = "alien"
    <3>1. \/ r.state[f] = "stated"
          \/ f \in Lists \cup {"missingness", "source_ids"} /\ r.state[f] = "blank"
          \/ f = "governing_refs" /\ r.state[f] = "undeclared"
          \/ f = "relations" \/ (f = "object_id" /\ r.state[f] = "alien")
      BY DEF Whole, Fields, Patterned, Structured, References
    <3>2. f \in Lists \cup {"missingness", "source_ids"} =>
             f \notin Texts \cup Vocabularies \cup Axes \cup Patterned \cup {"authors", "authority"}
      BY DEF Lists, Texts, Vocabularies, Axes, Patterned
    <3>3. QED BY <3>1, <3>2 DEF SchemaError
  <2>4. QED BY <2>1, <2>2, <2>3 DEF GateG, Block, Fail, Missing, Declarable
<1>8. QED BY <1>1, <1>2, <1>3, <1>4, <1>5, <1>6, <1>7 DEF Evaluation

(* A malformed id is a file's.                                              *)
AlienIsUploaded ==
    draft.record.state["object_id"] = "alien" =>
        \E i \in DOMAIN uploads : uploads[i].says["object_id"] = "alien"

(* From its freezing on the draft is the revision, complete when it was      *)
(* ready; what the form saved keeps the form's shape through freezing and   *)
(* repair.                                                                  *)
Frozenly ==
    /\ draft.record = revision /\ revision.state["date"] # "undeclared"
    /\ ready => \A f \in Asked \ MayBeEmpty : ~Missing(revision, f)

FormKept ==
    route = "portal" =>
        /\ AlienIsUploaded
        /\ formed => Shaped(draft.record)
        /\ phase # "draft" => Frozenly
        /\ phase = "decided" => \E reg : receipt = BuildReceipt(revision, Evaluation(revision, reg))

LEMMA FrozenState ==
    ASSUME NEW record \in Record, NEW target, NEW f \in Fields
    PROVE  Frozen(record, target).state[f] =
             CASE f = "authority" \/ (f = "object_id" /\ target # NoId) -> "stated"
               [] f \in {"object_id", "authors"} /\ Missing(record, f) -> "stated"
               [] f \in {"source_ids", "relations"} /\ Missing(record, f) -> "blank"
               [] f = "date" /\ record.state[f] = "undeclared" -> "stated"
               [] OTHER -> record.state[f]
<1>1. record = [state |-> record.state, refs |-> record.refs, gaps |-> record.gaps, id |-> record.id,
                title |-> record.title, version |-> record.version, supersedes |-> record.supersedes]
  BY DEF Record
<1>2. QED BY <1>1 DEF Frozen

LEMMA FrozenIsShaped ==
    ASSUME NEW record \in Record, NEW target, NEW frozen, frozen = Frozen(record, target)
    PROVE  /\ Shaped(record) => Shaped(frozen)
           /\ frozen.state["date"] # "undeclared"
           /\ frozen.state["object_id"] = "alien" => record.state["object_id"] = "alien"
           /\ \A f \in Asked \ MayBeEmpty : ~Missing(record, f) => ~Missing(frozen, f)
<1>1. ASSUME NEW f \in Fields
      PROVE  \/ frozen.state[f] = record.state[f]
                  /\ (f = "date" => record.state[f] # "undeclared")
                  /\ (f = "authority" => record.state[f] = "stated")
             \/ frozen.state[f] = "stated"
             \/ f \in {"source_ids", "relations"} /\ frozen.state[f] = "blank" /\ Missing(record, f)
  BY FrozenState
<1>2. {"date", "object_id"} \subseteq Fields
  BY FieldsOfGates DEF Patterned
<1>3. Shaped(record) => Shaped(frozen)
  BY <1>1 DEF Shaped
<1>4. frozen.state["date"] # "undeclared" /\ (frozen.state["object_id"] = "alien" => record.state["object_id"] = "alien")
  BY <1>1, <1>2
<1>5. Asked \subseteq Fields
  BY FieldsOfGates DEF Asked, Fields, Lists, Patterned, References
<1>6. \A f \in Asked \ MayBeEmpty : ~Missing(record, f) => ~Missing(frozen, f)
  BY <1>1, <1>5 DEF Missing
<1>7. QED BY <1>3, <1>4, <1>6

LEMMA FormKeptPrepare ==
    ASSUME TypeOK, FormKept, NEW file \in Files, NEW outcome \in Outcomes, Prepare(file, outcome)
    PROVE  FormKept'
<1>1. PICK files : files = Append(uploads, file) /\ files \in Seq(Files)
  <2>1. Append(uploads, file) \in Seq(Files)
    BY DEF TypeOK
  <2>2. QED BY <2>1
<1>2. PICK record \in Record : record = draft.record
  BY DEF TypeOK
<1>3. PICK assembled \in Record : assembled = Assembled(record, files)
  <2>1. Assembled(record, files) \in Record
    BY <1>1, AssembledTyped
  <2>2. QED BY <2>1
<1>4. /\ uploads' = files /\ formed' = FALSE /\ phase' = "draft" /\ route = "portal"
      /\ draft' = Prepared(draft, files, outcome)
  BY <1>1 DEF Prepare
<1>5. draft'.record.state["object_id"] = assembled.state["object_id"]
  <2>1. PICK state : state = Suggested(assembled.state, outcome)
    OBVIOUS
  <2>2. PICK named : named = NewSources(draft, state, outcome)
    OBVIOUS
  <2>3. draft'.record = [assembled EXCEPT !.state = Sourced(state, named),
                                          !.refs["source_ids"] = @ \cup named]
    BY <1>2, <1>3, <1>4, <2>1, <2>2 DEF Prepared
  <2>4. "object_id" \in Fields /\ "object_id" \notin Suggestible
    BY FieldsOfGates DEF Patterned, Suggestible, Axes
  <2>5. state \in [Fields -> Statuses] /\ state["object_id"] = assembled.state["object_id"]
    BY <2>1, <2>4 DEF Suggested, Record, Statuses
  <2>6. QED BY <2>3, <2>5 DEF Sourced, Record
<1>6. assembled.state["object_id"] = "alien" =>
         \/ record.state["object_id"] = "alien"
         \/ \E i \in DOMAIN files : files[i].says["object_id"] = "alien"
  <2>1. "object_id" \in Fields
    BY FieldsOfGates DEF Patterned
  <2>2. PICK from : from = TakenFrom(record, files, "object_id")
    OBVIOUS
  <2>3. from = 0 \/ from \in DOMAIN files
    BY <1>1, <2>1, <2>2, TakenFromSays DEF Sayers
  <2>4. record = [state |-> record.state, refs |-> record.refs, gaps |-> record.gaps, id |-> record.id,
                  title |-> record.title, version |-> record.version, supersedes |-> record.supersedes]
    BY DEF Record
  <2>5. assembled.state["object_id"] =
           Default("object_id", IF from = 0 THEN record.state["object_id"] ELSE files[from].says["object_id"])
    BY <1>3, <2>1, <2>2, <2>4 DEF Assembled
  <2>6. QED BY <2>3, <2>5 DEF Default
<1>7. \A i \in DOMAIN uploads : i \in DOMAIN files /\ files[i] = uploads[i]
  BY <1>1 DEF TypeOK
<1>8. AlienIsUploaded'
  BY <1>2, <1>4, <1>5, <1>6, <1>7 DEF FormKept, AlienIsUploaded
<1>9. QED BY <1>4, <1>8 DEF FormKept

LEMMA FormKeptSaveForm ==
    ASSUME TypeOK, FormKept, NEW supplied, NEW cleared, NEW confirms \in BOOLEAN,
           SaveForm(supplied, cleared, confirms)
    PROVE  FormKept'
<1>1. PICK record \in Record : record = draft.record
  BY DEF TypeOK
<1>2. PICK posted \in Record : posted = Posted(record, supplied, cleared)
  BY PostedTyped
<1>3. draft'.record.state = posted.state
  BY <1>1, <1>2 DEF SaveForm, Record
<1>4. \A f \in Fields : posted.state[f] =
         IF f \in supplied THEN "stated"
         ELSE RoundTrip(f, IF f \in cleared THEN "blank" ELSE record.state[f])
  <2>1. record = [state |-> record.state, refs |-> record.refs, gaps |-> record.gaps, id |-> record.id,
                  title |-> record.title, version |-> record.version, supersedes |-> record.supersedes]
    BY DEF Record
  <2>2. QED BY <1>2, <2>1 DEF Posted
<1>5. Shaped(posted)
  BY <1>4 DEF Shaped, RoundTrip
<1>6. posted.state["object_id"] = "alien" => record.state["object_id"] = "alien"
  <2>1. "object_id" \in Fields
    BY FieldsOfGates DEF Patterned
  <2>2. QED BY <1>4, <2>1 DEF RoundTrip
<1>7. Shaped(draft'.record)
  BY <1>3, <1>5 DEF Shaped
<1>8. uploads' = uploads /\ phase' = "draft" /\ route = "portal"
  BY DEF SaveForm
<1>9. AlienIsUploaded'
  BY <1>1, <1>3, <1>6, <1>8 DEF FormKept, AlienIsUploaded
<1>10. QED BY <1>7, <1>8, <1>9 DEF FormKept, Shaped

LEMMA FormKeptConfirm ==
    ASSUME TypeOK, FormKept, NEW answer \in Objects \cup {"none", "distinct"}, NEW governs \in BOOLEAN,
           Confirm(answer, governs)
    PROVE  FormKept'
<1>1. PICK record \in Record : record = draft.record
  BY DEF TypeOK
<1>2. PICK frozen : frozen = Frozen(record, Target(Answered(answer, governs)))
  OBVIOUS
<1>3. /\ draft'.record = frozen /\ revision' = frozen /\ phase' = "submitted" /\ formed' = formed
      /\ uploads' = uploads /\ route = "portal"
      /\ ready' = Submittable([draft EXCEPT !.hints = Answered(answer, governs)])
  BY <1>1, <1>2 DEF Confirm, TypeOK
<1>4. /\ Shaped(record) => Shaped(frozen)
      /\ frozen.state["date"] # "undeclared"
      /\ frozen.state["object_id"] = "alien" => record.state["object_id"] = "alien"
      /\ \A f \in Asked \ MayBeEmpty : ~Missing(record, f) => ~Missing(frozen, f)
  BY <1>2, FrozenIsShaped
<1>5. ready' => \A f \in Asked \ MayBeEmpty : ~Missing(record, f)
  BY <1>1, <1>3 DEF Submittable, Ready, TypeOK
<1>6. AlienIsUploaded'
  BY <1>1, <1>3, <1>4 DEF FormKept, AlienIsUploaded
<1>7. Frozenly'
  BY <1>3, <1>4, <1>5 DEF Frozenly, Missing
<1>8. formed => Shaped(frozen)
  BY <1>1, <1>3, <1>4 DEF FormKept
<1>9. QED BY <1>3, <1>6, <1>7, <1>8 DEF FormKept, Shaped

LEMMA FormKeptStartRepair ==
    ASSUME TypeOK, FormKept, StartRepair
    PROVE  FormKept'
<1>1. PICK r \in Record : r = revision
  BY DEF TypeOK
<1>2. /\ uploads' = uploads /\ formed' = formed /\ phase' = "draft" /\ route = "portal" /\ phase # "draft"
      /\ draft'.record = r \/ draft'.record = [r EXCEPT !.version = @ + 1, !.state["date"] = "undeclared"]
  BY <1>1 DEF StartRepair, TypeOK
<1>3. PICK next : next = draft'.record
  OBVIOUS
<1>4. "date" \in Fields /\ "object_id" \in Fields
  BY FieldsOfGates DEF Patterned
<1>5. \A f \in Fields : next.state[f] = r.state[f] \/ (f = "date" /\ next.state[f] = "undeclared")
  <2>1. CASE next = r
    BY <2>1
  <2>2. CASE next = [r EXCEPT !.version = @ + 1, !.state["date"] = "undeclared"]
    <3>1. next.state = [r.state EXCEPT !["date"] = "undeclared"]
      BY <2>2 DEF Record
    <3> QED
      BY <3>1 DEF Record
  <2> QED BY <1>2, <1>3, <2>1, <2>2
<1>6. Shaped(r) => Shaped(next)
  BY <1>5 DEF Shaped
<1>7. draft.record = r
  BY <1>1, <1>2 DEF FormKept, Frozenly
<1>8. AlienIsUploaded'
  BY <1>2, <1>3, <1>4, <1>5, <1>7 DEF FormKept, AlienIsUploaded
<1>9. formed' => Shaped(next)
  BY <1>2, <1>6, <1>7 DEF FormKept
<1>10. QED BY <1>2, <1>3, <1>8, <1>9 DEF FormKept, Shaped

LEMMA FormKeptStep ==
    ASSUME TypeOK, FormKept, [Next]_vars
    PROVE  FormKept'
<1>1. ASSUME HandIn \/ \E fields : SupplyListed(fields) PROVE FormKept'
  BY <1>1 DEF HandIn, SupplyListed, FormKept
<1>2. ASSUME UNCHANGED <<route, uploads, draft, formed, revision, ready>>, phase # "draft" \/ phase' = "draft",
             phase' = "decided" =>
                \E reg : receipt' = BuildReceipt(revision, Evaluation(revision, reg))
      PROVE  FormKept'
  BY <1>2 DEF FormKept, AlienIsUploaded, Shaped, Frozenly, Missing
<1>3. ASSUME Evaluate PROVE FormKept'
  <2>1. \E reg : receipt' = BuildReceipt(revision, Evaluation(revision, reg))
    BY <1>3 DEF Evaluate
  <2>2. QED BY <1>2, <1>3, <2>1 DEF Evaluate
<1>4. ASSUME Register PROVE FormKept'
  BY <1>2, <1>4 DEF Register
<1>5. ASSUME (\E x : Grow(x)) \/ UNCHANGED vars PROVE FormKept'
  <2>1. UNCHANGED <<route, uploads, draft, formed, revision, ready, phase, receipt>>
    BY <1>5 DEF Grow, vars
  <2>2. QED
    BY <2>1 DEF FormKept, AlienIsUploaded, Shaped, Frozenly, Missing
<1>6. QED
  BY <1>1, <1>3, <1>4, <1>5, FormKeptPrepare, FormKeptSaveForm, FormKeptConfirm, FormKeptStartRepair
  DEF Next

(* A draft the form saved and readiness calls submittable is accepted, up    *)
(* to its declared gaps and to what its references name.                    *)
THEOREM FormSavedIsEvaluableHolds == Spec => []FormSavedIsEvaluable
<1>1. Init => FormKept
  <2>1. Init /\ route = "portal" =>
           draft.record.state["object_id"] = "undeclared" /\ phase = "draft" /\ formed = FALSE
    BY FieldsOfGates DEF Init, Draft, EmptyRecord, Patterned
  <2>2. QED BY <2>1 DEF Init, FormKept, AlienIsUploaded
<1>2. TypeOK /\ FormKept /\ [Next]_vars => FormKept'
  BY FormKeptStep
<1>3. ASSUME TypeOK, FormKept, route = "portal", formed, ready, phase = "decided", NEW d \in receipt.listed
      PROVE  \/ d.cause \in {"gap", "unregistered", "endpoint"} \/ d.field = "relations"
             \/ /\ d.field = "object_id"
                /\ \E i \in DOMAIN uploads : uploads[i].says["object_id"] = "alien"
  <2>1. revision \in Record /\ draft.record = revision
    BY <1>3 DEF TypeOK, FormKept, Frozenly
  <2>2. Shaped(revision)
    BY <1>3, <2>1 DEF FormKept
  <2>3. Whole(revision)
    BY <1>3, <2>1, <2>2, ShapedIsWhole DEF FormKept, Frozenly
  <2>4. PICK reg : receipt = BuildReceipt(revision, Evaluation(revision, reg))
    BY <1>3 DEF FormKept
  <2>5. d \in Evaluation(revision, reg)
    BY <1>3, <2>4 DEF BuildReceipt, Listed
  <2>6. Declarable(revision, d)
    BY <2>1, <2>3, <2>5, WholeIsEvaluable
  <2>7. QED BY <1>3, <2>1, <2>6 DEF Declarable, FormKept, AlienIsUploaded
<1>4. TypeOK /\ FormKept => FormSavedIsEvaluable
  BY <1>3 DEF FormSavedIsEvaluable
<1>5. QED BY <1>1, <1>2, <1>4, TypeCorrect, PTL DEF Spec

-----------------------------------------------------------------------------
(* A record with some fields supplied, the authors from a given set.         *)
Mend(r, fields, authors) ==
    [r EXCEPT
       !.state = [f \in Fields |-> IF f \in fields THEN "stated" ELSE r.state[f]],
       !.refs = [f \in References |-> IF f \notin fields THEN r.refs[f]
                                      ELSE IF f = "authors" THEN authors ELSE {}],
       !.gaps = IF "missingness" \in fields THEN {} ELSE r.gaps]

LEMMA MendIs ==
    ASSUME NEW r \in Record, NEW fields, NEW authors, NEW m, m = Mend(r, fields, authors)
    PROVE  /\ m.id = r.id
           /\ \A f \in Fields : m.state[f] = IF f \in fields THEN "stated" ELSE r.state[f]
           /\ \A f \in References \ fields : m.refs[f] = r.refs[f]
           /\ "authors" \in fields => m.refs["authors"] = authors
           /\ \A f \in References \ {"authors"} : f \in fields => m.refs[f] = {}
           /\ m.gaps = IF "missingness" \in fields THEN {} ELSE r.gaps
<1>1. r = [state |-> r.state, refs |-> r.refs, gaps |-> r.gaps, id |-> r.id,
           title |-> r.title, version |-> r.version, supersedes |-> r.supersedes]
  BY DEF Record
<1>2. "authors" \in References
  BY DEF References
<1>3. QED BY <1>1, <1>2 DEF Mend

(* Nothing is listed of a supplied field.                                   *)
LEMMA MendSilences ==
    ASSUME NEW r \in Record, NEW fields, NEW reg, NEW authors, authors \subseteq reg.authors,
           NEW m, m = Mend(r, fields, authors), NEW d \in Evaluation(m, reg)
    PROVE  d.field \notin fields
<1>1. /\ \A f \in Fields : f \in fields => m.state[f] = "stated"
      /\ "authors" \in fields => m.refs["authors"] \subseteq reg.authors
      /\ \A f \in References \ {"authors"} : f \in fields => m.refs[f] = {}
      /\ "missingness" \in fields => m.gaps = {}
  BY MendIs
<1>2. \A f \in Fields : f \in fields => ~Missing(m, f) /\ Given(m, f) /\ m.state[f] \notin {"alien", "partial", "undeclared"}
  BY <1>1 DEF Missing, Given
<1>3. \A f \in References : f \in fields => ~Dangling(m, reg, f)
  BY <1>1, <1>2, FieldsOfGates DEF Dangling, Names, Registered
<1>4. \A f \in Fields : f \in fields => SchemaError(f, m.state[f]) = "none"
  BY <1>1 DEF SchemaError
<1>5. {"object_id", "title", "authors", "authority", "provenance", "source_boundary", "source_ids",
       "claim_layers", "main_question", "authority_boundary", "scope", "missingness", "relations",
       "governing_refs", "version", "date"} \subseteq Fields
  BY DEF Fields, Patterned, Texts, References, Vocabularies, Structured
<1>6. {"authors", "source_ids", "relations", "governing_refs"} \subseteq References
  BY DEF References
<1>7. d \in GateA(m, reg) => d.field \notin fields
  BY <1>2, <1>3, <1>5, <1>6 DEF GateA, Block, Fail
<1>8. d \in GateB(m) => d.field \notin fields
  BY <1>2, <1>5 DEF GateB, Block, Fail
<1>9. d \in GateC(m, reg) => d.field \notin fields
  BY <1>2, <1>3, <1>5, <1>6 DEF GateC, Block, Fail
<1>10. d \in GateD(m) => d.field \notin fields
  BY <1>2, <1>5, FieldsOfGates DEF GateD, Block, Fail
<1>11. d \in GateE(m) => d.field \notin fields
  BY <1>1, <1>2, <1>5 DEF GateE, Block, Fail
<1>12. d \in GateF(m, reg) => d.field \notin fields
  <2>1. "relations" \in fields => NamedRelations(m, reg) = {}
    BY <1>1, <1>6 DEF NamedRelations, Names
  <2>2. CASE ~Given(m, "relations")
    BY <1>2, <1>5, <2>2 DEF GateF, Block
  <2>3. CASE Given(m, "relations")
    BY <1>3, <1>6, <2>1, <2>3 DEF GateF, Block, Fail
  <2>4. QED BY <2>2, <2>3
<1>13. d \in GateG(m) => d.field \notin fields
  BY <1>2, <1>4, <1>5, FieldsOfGates DEF GateG, Block, Fail
<1>14. QED
  BY <1>7, <1>8, <1>9, <1>10, <1>11, <1>12, <1>13 DEF Evaluation

(* What is listed of a field that was not supplied was listed before, but    *)
(* for what gate F reads only with a relations list.                        *)
LEMMA MendAdds ==
    ASSUME NEW r \in Record, NEW fields, NEW authors, NEW m, m = Mend(r, fields, authors),
           NEW reg, NEW more, Extends(more, reg), NEW d \in Evaluation(m, more), d.field \notin fields
    PROVE  \/ \E x \in Evaluation(r, reg) : x.field = d.field
           \/ /\ d \in Block("F", {"governing_refs"}, "unregistered")
              /\ Block("F", {"relations"}, "missing") \subseteq Evaluation(r, reg)
<1> DEFINE Listing == \E x \in Evaluation(r, reg) : x.field = d.field
<1>1. /\ m.id = r.id
      /\ \A f \in Fields : f \notin fields => m.state[f] = r.state[f]
      /\ \A f \in References : f \notin fields => m.refs[f] = r.refs[f]
      /\ "missingness" \notin fields => m.gaps = r.gaps
  BY MendIs
<1>2. \A f \in Fields : f \notin fields => (Missing(m, f) <=> Missing(r, f)) /\ (Given(m, f) <=> Given(r, f))
  BY <1>1 DEF Missing, Given
<1>3. \A f \in References : f \notin fields =>
         Names(m, f) = Names(r, f) /\ (Dangling(m, more, f) => Dangling(r, reg, f))
  <2>1. \A f \in References : Registered(reg, f) \subseteq Registered(more, f)
    BY DEF Extends
  <2>2. QED BY <1>1, <2>1, FieldsOfGates DEF Dangling, Names
<1>4. {"object_id", "title", "authors", "authority", "provenance", "source_boundary", "source_ids",
       "claim_layers", "main_question", "authority_boundary", "scope", "missingness", "relations",
       "governing_refs", "version", "date"} \subseteq Fields
  BY DEF Fields, Patterned, Texts, References, Vocabularies, Structured
<1>5. {"authors", "source_ids", "relations", "governing_refs"} \subseteq References
  BY DEF References
<1>6. d \in GateA(m, more) => d \in GateA(r, reg)
  BY <1>1, <1>2, <1>3, <1>4, <1>5 DEF GateA, Block, Fail
<1>7. d \in GateB(m) => d \in GateB(r)
  BY <1>1, <1>2, <1>4 DEF GateB, Block, Fail
<1>8. d \in GateC(m, more) => d \in GateC(r, reg)
  BY <1>1, <1>2, <1>3, <1>4, <1>5 DEF GateC, Block, Fail
<1>9. d \in GateD(m) => d \in GateD(r)
  BY <1>1, <1>2, <1>4, FieldsOfGates DEF GateD, Block, Fail
<1>10. d \in GateE(m) => d \in GateE(r)
  BY <1>1, <1>2, <1>4 DEF GateE, Block, Fail
<1>11. d \in GateG(m) => d \in GateG(r)
  BY <1>1, <1>2, <1>4, FieldsOfGates DEF GateG, Block, Fail
<1>12. ASSUME d \in GateF(m, more)
       PROVE  \/ Listing
              \/ /\ d \in Block("F", {"governing_refs"}, "unregistered")
                 /\ Block("F", {"relations"}, "missing") \subseteq GateF(r, reg)
  <2>1. CASE ~Given(r, "relations")
    <3>1. Block("F", {"relations"}, "missing") = GateF(r, reg)
      BY <2>1 DEF GateF
    <3>2. [gate |-> "F", verdict |-> "block", field |-> "relations", cause |-> "missing"] \in GateF(r, reg)
      BY <3>1 DEF Block
    <3>3. d.field = "relations" \/ d \in Block("F", {"governing_refs"}, "unregistered")
      BY <1>12 DEF GateF, Block, Fail
    <3>4. QED BY <3>1, <3>2, <3>3 DEF Evaluation
  <2>2. CASE Given(r, "relations")
    <3>1. Given(m, "relations")
      BY <1>2, <1>4, <2>2, MendIs DEF Given
    <3>2. CASE d.field = "governing_refs"
      <4>1. Dangling(m, more, "governing_refs")
        BY <1>12, <3>1, <3>2 DEF GateF, Block, Fail
      <4>2. Dangling(r, reg, "governing_refs")
        BY <1>3, <1>5, <3>2, <4>1
      <4>3. [gate |-> "F", verdict |-> "block", field |-> "governing_refs", cause |-> "unregistered"]
               \in GateF(r, reg)
        BY <2>2, <4>2 DEF GateF, Block
      <4>4. QED BY <3>2, <4>3 DEF Evaluation
    <3>3. CASE d.field = "relations" /\ Dangling(r, reg, "relations")
      <4>1. [gate |-> "F", verdict |-> "block", field |-> "relations", cause |-> "unregistered"]
               \in GateF(r, reg)
        BY <2>2, <3>3 DEF GateF, Block
      <4>2. QED BY <3>3, <4>1 DEF Evaluation
    <3>4. CASE d.field = "relations" /\ ~Dangling(r, reg, "relations")
      <4>1. ~Dangling(m, more, "relations") /\ Names(m, "relations") = Names(r, "relations")
        BY <1>3, <1>5, <3>4
      <4>2. Names(r, "relations") \subseteq DOMAIN reg.relations
        BY <3>4 DEF Dangling, Registered
      <4>3. NamedRelations(m, more) \subseteq NamedRelations(r, reg)
        BY <4>1, <4>2 DEF NamedRelations, Extends
      <4>4. \A end : Resolves(r, reg, end) => Resolves(m, more, end)
        <5>1. Registered(reg, "source_ids") \subseteq Registered(more, "source_ids")
          BY <1>5 DEF Extends
        <5>2. QED BY <1>1, <5>1 DEF Resolves, Extends, Held, Registered
      <4>5. \/ \E x \in NamedRelations(r, reg) : ~x.controlled
            \/ \E x \in NamedRelations(r, reg) : \E end \in x.ends : ~Resolves(r, reg, end)
        BY <1>12, <3>1, <3>4, <4>1, <4>3, <4>4 DEF GateF, Block, Fail
      <4>6. CASE \E x \in NamedRelations(r, reg) : ~x.controlled
        <5>1. [gate |-> "F", verdict |-> "fail", field |-> "relations", cause |-> "vocabulary"]
                 \in GateF(r, reg)
          BY <2>2, <4>6 DEF GateF, Fail
        <5>2. QED BY <3>4, <5>1 DEF Evaluation
      <4>7. CASE \E x \in NamedRelations(r, reg) : \E end \in x.ends : ~Resolves(r, reg, end)
        <5>1. [gate |-> "F", verdict |-> "block", field |-> "relations", cause |-> "endpoint"]
                 \in GateF(r, reg)
          BY <2>2, <4>7 DEF GateF, Block
        <5>2. QED BY <3>4, <5>1 DEF Evaluation
      <4>8. QED BY <4>5, <4>6, <4>7
    <3>5. d.field \in {"relations", "governing_refs"}
      BY <1>12, <3>1 DEF GateF, Block, Fail
    <3>6. QED BY <3>2, <3>3, <3>4, <3>5
  <2>3. QED BY <2>1, <2>2
<1>13. GateF(r, reg) \subseteq Evaluation(r, reg)
  BY DEF Evaluation
<1>14. d \in GateF(m, more) \/ d \in Evaluation(r, reg)
  BY <1>6, <1>7, <1>8, <1>9, <1>10, <1>11 DEF Evaluation
<1>15. QED
  <2> HIDE DEF Listing
  <2>1. d \in Evaluation(r, reg) => Listing
    BY DEF Listing
  <2>2. \/ Listing
        \/ /\ d \in Block("F", {"governing_refs"}, "unregistered")
           /\ Block("F", {"relations"}, "missing") \subseteq Evaluation(r, reg)
    BY <1>12, <1>13, <1>14, <2>1
  <2>3. QED BY <2>2 DEF Listing

(* What a repair at the command line rests on: the receipt before it, the    *)
(* record and the registry it was given for, and that the registry only has *)
(* more since.                                                              *)
FocusMisses == {"authority_boundary", "domain", "governing_refs", "relations", "authors"}

Mending(m) ==
    \E r \in Record : \E reg, authors :
        /\ before = Listed(Evaluation(r, reg))
        /\ {d.field : d \in before} \ repaired \subseteq FocusMisses
        /\ Extends(lib, reg) /\ authors \subseteq lib.authors
        /\ m = Mend(r, repaired, authors)

Mended ==
    /\ route = "portal" => before = {}
    /\ route = "cli" /\ phase = "decided" =>
          \E reg : Extends(lib, reg) /\ receipt = BuildReceipt(revision, Evaluation(revision, reg))
    /\ phase = "draft" /\ before # {} => Mending(draft.record)
    /\ phase = "submitted" /\ before # {} => Mending(revision)
    /\ RepairSuffices

LEMMA ExtendsMore ==
    ASSUME NEW reg, NEW more, NEW most, Extends(more, reg), Extends(most, more)
    PROVE  Extends(most, reg)
<1>1. DOMAIN reg.relations \subseteq DOMAIN more.relations
  <2>1. Registered(reg, "relations") \subseteq Registered(more, "relations")
    BY DEF Extends, References
  <2>2. QED BY <2>1 DEF Registered
<1>2. QED BY <1>1 DEF Extends

(* The fields a repair names are all the receipt lists but for five.         *)
LEMMA FocusOfListed ==
    ASSUME NEW R, R.listed \subseteq Detail, NEW fields \in {{d.field : d \in R.listed}, RepairFocus(R)}
    PROVE  {d.field : d \in R.listed} \ fields \subseteq FocusMisses
<1> SUFFICES ASSUME NEW d \in R.listed, d.field \notin fields PROVE d.field \in FocusMisses
  OBVIOUS
<1>1. fields = RepairFocus(R)
  OBVIOUS
<1>2. d.field \in Fields /\ "none" \notin Fields
  BY DEF Detail, Fields, Axes, Vocabularies, Texts, Patterned, Lists, Structured, References
<1>3. FocusOf(d) # d.field
  BY <1>1, <1>2 DEF RepairFocus
<1>4. QED BY <1>3 DEF FocusOf, FocusMisses

(* What the evaluation of a repaired record comes to.                       *)
SufficesFor(listed, fields, details) ==
    /\ \A d \in Listed(details) : d.field \notin fields
    /\ {d.field : d \in listed} \subseteq fields /\ (\A d \in listed : d.verdict = "block") =>
          \/ details = {}
          \/ /\ Block("F", {"relations"}, "missing") \subseteq listed
             /\ details = Block("F", {"governing_refs"}, "unregistered")

LEMMA MendSuffices ==
    ASSUME NEW r \in Record, NEW reg, NEW fields, NEW more, Extends(more, reg),
           NEW authors, authors \subseteq more.authors
    PROVE  SufficesFor(Listed(Evaluation(r, reg)), fields, Evaluation(Mend(r, fields, authors), more))
<1>0. PICK m, listed, details :
          m = Mend(r, fields, authors) /\ listed = Listed(Evaluation(r, reg)) /\ details = Evaluation(m, more)
  OBVIOUS
<1>1. \A d \in details : d.field \notin fields
  BY <1>0, MendSilences
<1>2. \A d \in Listed(details) : d.field \notin fields
  BY <1>1 DEF Listed
<1>3. ASSUME {d.field : d \in listed} \subseteq fields, \A d \in listed : d.verdict = "block"
      PROVE  \/ details = {}
             \/ /\ Block("F", {"relations"}, "missing") \subseteq listed
                /\ details = Block("F", {"governing_refs"}, "unregistered")
  <2>1. listed = Evaluation(r, reg)
    <3>1. FailedGates(Evaluation(r, reg)) = {}
      BY <1>0, <1>3 DEF Listed, Decision, FailedGates
    <3>2. QED BY <1>0, <3>1 DEF Listed, Decision
  <2>2. ASSUME NEW d \in details
        PROVE  /\ d \in Block("F", {"governing_refs"}, "unregistered")
               /\ Block("F", {"relations"}, "missing") \subseteq listed
    <3>1. ~\E x \in Evaluation(r, reg) : x.field = d.field
      BY <1>1, <1>3, <2>1
    <3>2. QED BY <1>0, <1>1, <2>1, <3>1, MendAdds
  <2>3. CASE details = {}
    BY <2>3
  <2>4. CASE details # {}
    <3>1. Block("F", {"relations"}, "missing") \subseteq listed
      BY <2>2, <2>4
    <3>2. PICK e : Block("F", {"governing_refs"}, "unregistered") = {e}
      <4>1. Block("F", {"governing_refs"}, "unregistered")
              = {[gate |-> "F", verdict |-> "block", field |-> "governing_refs", cause |-> "unregistered"]}
        BY DEF Block
      <4>2. QED BY <4>1
    <3>3. QED BY <2>2, <2>4, <3>1, <3>2
  <2>5. QED BY <2>3, <2>4
<1>4. QED BY <1>0, <1>2, <1>3 DEF SufficesFor

LEMMA MendedEvaluate ==
    ASSUME Standing, Mended, Evaluate
    PROVE  Mended'
<1>1. /\ phase = "submitted" /\ phase' = "decided"
      /\ UNCHANGED <<route, lib, uploads, draft, intended, revision, before, repaired, origin,
                     formed, ready, revisions>>
      /\ receipt' = BuildReceipt(revision, Evaluation(revision, Proposing(route, revision, lib)))
  BY AsOperators DEF Evaluate
<1>2. CASE route = "portal"
  BY <1>1, <1>2 DEF Mended, RepairSuffices
<1>3. CASE route = "cli"
  <2>1. Proposing(route, revision, lib) = lib
    <3>1. lib = [authors |-> lib.authors, objects |-> lib.objects, sources |-> lib.sources,
                 relations |-> lib.relations, governing |-> lib.governing]
      BY DEF Standing, TypeOK, IsRegistry
    <3>2. QED BY <1>3, <3>1 DEF Proposing
  <2>2. PICK details : details = Evaluation(revision, lib) /\ receipt' = BuildReceipt(revision, details)
    BY <1>1, <2>1
  <2>3. Extends(lib, lib)
    BY DEF Extends
  <2>4. \E reg : Extends(lib', reg) /\ receipt' = BuildReceipt(revision', Evaluation(revision', reg))
    <3>1. PICK reg : reg = lib
      OBVIOUS
    <3>2. Extends(lib', reg) /\ receipt' = BuildReceipt(revision', Evaluation(revision', reg))
      BY <1>1, <2>2, <2>3, <3>1
    <3>3. QED BY <3>2
  <2>5. ASSUME before # {}
        PROVE  /\ \A d \in receipt'.listed : d.field \notin repaired
               /\ {d.field : d \in before} \ repaired \subseteq FocusMisses
               /\ {d.field : d \in before} \subseteq repaired /\ (\A d \in before : d.verdict = "block") =>
                     \/ receipt'.decision = "ACCEPTED"
                     \/ /\ Block("F", {"relations"}, "missing") \subseteq before
                        /\ receipt'.listed = Block("F", {"governing_refs"}, "unregistered")
    <3>1. Mending(revision)
      BY <1>1, <2>5 DEF Mended
    <3>2. PICK r, reg, authors :
              /\ r \in Record
              /\ before = Listed(Evaluation(r, reg))
              /\ {d.field : d \in before} \ repaired \subseteq FocusMisses
              /\ Extends(lib, reg) /\ authors \subseteq lib.authors
              /\ revision = Mend(r, repaired, authors)
      BY <3>1 DEF Mending
    <3>3. /\ \A d \in Listed(details) : d.field \notin repaired
          /\ {d.field : d \in before} \subseteq repaired /\ (\A d \in before : d.verdict = "block") =>
                \/ details = {}
                \/ /\ Block("F", {"relations"}, "missing") \subseteq before
                   /\ details = Block("F", {"governing_refs"}, "unregistered")
      <4>1. SufficesFor(Listed(Evaluation(r, reg)), repaired, Evaluation(Mend(r, repaired, authors), lib))
        BY <3>2, MendSuffices
      <4>2. SufficesFor(before, repaired, details)
        BY <2>2, <3>2, <4>1
      <4>3. QED BY <4>2 DEF SufficesFor
    <3>4. receipt'.listed = Listed(details) /\ receipt'.decision = Decision(details)
      BY <2>2 DEF BuildReceipt
    <3>5. details = {} => receipt'.decision = "ACCEPTED"
      BY <3>4, AcceptedIsNothing
    <3>6. details = Block("F", {"governing_refs"}, "unregistered") => receipt'.listed = details
      <4> SUFFICES ASSUME details = Block("F", {"governing_refs"}, "unregistered")
                   PROVE  receipt'.listed = details
        OBVIOUS
      <4>1. \A d \in details : d.verdict # "fail"
        BY DEF Block
      <4>2. FailedGates(details) = {}
        BY <4>1 DEF FailedGates
      <4>3. Decision(details) # "REJECTED"
        BY <4>2 DEF Decision
      <4>4. QED BY <3>4, <4>3 DEF Listed
    <3>7. \A d \in receipt'.listed : d.field \notin repaired
      BY <3>3, <3>4
    <3>8. ASSUME {d.field : d \in before} \subseteq repaired, \A d \in before : d.verdict = "block"
          PROVE  \/ receipt'.decision = "ACCEPTED"
                 \/ /\ Block("F", {"relations"}, "missing") \subseteq before
                    /\ receipt'.listed = Block("F", {"governing_refs"}, "unregistered")
      BY <3>3, <3>5, <3>6, <3>8
    <3>9. QED BY <3>2, <3>7, <3>8
  <2>6. RepairSuffices'
    <3>1. before' = before /\ repaired' = repaired
      BY <1>1
    <3>2. QED BY <2>5, <3>1 DEF RepairSuffices, FocusMisses
  <2>7. QED BY <1>1, <1>3, <2>4, <2>6 DEF Mended
<1>4. QED BY <1>2, <1>3 DEF Standing, TypeOK

LEMMA MendedSupply ==
    ASSUME Standing, Mended,
           NEW fields \in {{d.field : d \in receipt.listed}, RepairFocus(receipt)}, SupplyListed(fields)
    PROVE  Mended'
<1>1. /\ route = "cli" /\ phase = "decided" /\ phase' = "draft" /\ revision' = revision /\ lib' = lib
      /\ route' = route /\ receipt' = receipt /\ before' = receipt.listed /\ repaired' = fields
      /\ draft' = [draft EXCEPT !.record = Supplied(revision, fields)]
  BY DEF SupplyListed
<1>2. PICK reg : Extends(lib, reg) /\ receipt = BuildReceipt(revision, Evaluation(revision, reg))
  BY <1>1 DEF Mended
<1>3. receipt.listed = Listed(Evaluation(revision, reg)) /\ receipt.listed \subseteq Detail
  BY <1>2, EvaluationTyped DEF BuildReceipt, Listed
<1>4. PICK R : R = receipt
  OBVIOUS
<1>5. {d.field : d \in R.listed} \ fields \subseteq FocusMisses
  BY <1>3, <1>4, FocusOfListed
<1>6. draft'.record = Mend(revision, fields, lib.authors)
  BY <1>1 DEF Supplied, Mend, Standing, TypeOK
<1>7. revision \in Record
  BY DEF Standing, TypeOK
<1>8. Mending(draft.record)'
  BY <1>1, <1>2, <1>3, <1>4, <1>5, <1>6, <1>7 DEF Mending
<1>9. QED BY <1>1, <1>8 DEF Mended, RepairSuffices

LEMMA MendedGrow ==
    ASSUME Standing, Mended, NEW x \in Newcomers, Grow(x)
    PROVE  Mended'
<1>1. PICK more : more = lib'
  OBVIOUS
<1>2. PICK old : old = lib
  OBVIOUS
<1>3. Extends(more, old)
  BY <1>1, <1>2, GrowExtends DEF Standing
<1>4. UNCHANGED <<route, phase, receipt, revision, draft, before, repaired>>
  BY DEF Grow
<1>5. \A reg : Extends(old, reg) => Extends(more, reg)
  BY <1>3, ExtendsMore
<1>6. old.authors \subseteq more.authors
  <2>1. Registered(old, "authors") \subseteq Registered(more, "authors")
    BY <1>3 DEF Extends, References
  <2>2. QED BY <2>1 DEF Registered
<1>7. \A m : Mending(m) =>
         \E r \in Record : \E reg, authors :
             /\ before = Listed(Evaluation(r, reg))
             /\ {d.field : d \in before} \ repaired \subseteq FocusMisses
             /\ Extends(more, reg) /\ authors \subseteq more.authors
             /\ m = Mend(r, repaired, authors)
  <2> SUFFICES ASSUME NEW m, Mending(m)
               PROVE  \E r \in Record : \E reg, authors :
                          /\ before = Listed(Evaluation(r, reg))
                          /\ {d.field : d \in before} \ repaired \subseteq FocusMisses
                          /\ Extends(more, reg) /\ authors \subseteq more.authors
                          /\ m = Mend(r, repaired, authors)
    OBVIOUS
  <2>1. PICK r, reg, authors :
            /\ r \in Record
            /\ before = Listed(Evaluation(r, reg))
            /\ {d.field : d \in before} \ repaired \subseteq FocusMisses
            /\ Extends(lib, reg) /\ authors \subseteq lib.authors
            /\ m = Mend(r, repaired, authors)
    BY DEF Mending
  <2>2. Extends(more, reg) /\ authors \subseteq more.authors
    BY <1>2, <1>5, <1>6, <2>1
  <2>3. QED BY <2>1, <2>2
<1>8. /\ phase = "draft" /\ before # {} => Mending(draft.record)'
      /\ phase = "submitted" /\ before # {} => Mending(revision)'
  <2>1. PICK m, n : m = draft.record /\ n = revision
    OBVIOUS
  <2>2. Mending(m) => Mending(m)'
    BY <1>1, <1>4, <1>7 DEF Mending
  <2>3. Mending(n) => Mending(n)'
    BY <1>1, <1>4, <1>7 DEF Mending
  <2>4. QED BY <1>4, <2>1, <2>2, <2>3 DEF Mended
<1>9. route = "cli" /\ phase = "decided" =>
         \E reg : Extends(more, reg) /\ receipt = BuildReceipt(revision, Evaluation(revision, reg))
  BY <1>2, <1>5 DEF Mended
<1>10. QED BY <1>1, <1>4, <1>8, <1>9 DEF Mended, RepairSuffices

LEMMA MendedStep ==
    ASSUME Standing, Mended, [Next]_vars
    PROVE  Mended'
<1>1. ASSUME route = "portal", route' = route, before' = before PROVE Mended'
  BY <1>1 DEF Mended, RepairSuffices
<1>2. ASSUME (\E file, outcome : Prepare(file, outcome))
                \/ (\E supplied, cleared, confirms : SaveForm(supplied, cleared, confirms))
                \/ (\E answer, governs : Confirm(answer, governs)) \/ StartRepair
      PROVE  Mended'
  <2>1. route = "portal" /\ route' = route /\ before' = before
    BY <1>2 DEF Prepare, SaveForm, Confirm, StartRepair
  <2>2. QED BY <1>1, <2>1
<1>3. ASSUME HandIn PROVE Mended'
  <2>1. /\ phase = "draft" /\ phase' = "submitted" /\ revision' = draft.record /\ route = "cli"
        /\ UNCHANGED <<route, lib, draft, before, repaired>>
    BY <1>3 DEF HandIn
  <2>2. PICK m : m = draft.record
    OBVIOUS
  <2>3. Mending(m) => Mending(m)'
    BY <2>1 DEF Mending
  <2>4. QED BY <2>1, <2>2, <2>3 DEF Mended, RepairSuffices
<1>4. ASSUME Register PROVE Mended'
  BY <1>4 DEF Register, Mended, RepairSuffices
<1>5. ASSUME UNCHANGED vars PROVE Mended'
  <2>1. UNCHANGED <<route, phase, receipt, revision, draft, before, repaired, lib>>
    BY <1>5 DEF vars
  <2>2. PICK m, n : m = draft.record /\ n = revision
    OBVIOUS
  <2>3. (Mending(m) => Mending(m)') /\ (Mending(n) => Mending(n)')
    BY <2>1 DEF Mending
  <2>4. QED BY <2>1, <2>2, <2>3 DEF Mended, RepairSuffices
<1>6. QED
  BY <1>2, <1>3, <1>4, <1>5, MendedEvaluate, MendedSupply, MendedGrow DEF Next

(* Supplying what a receipt lists is enough: a returned record is then       *)
(* accepted, up to what gate F reads only with a relations list, and of a   *)
(* rejected one no listed field is listed again; the fields the portal's    *)
(* repair names are all that are listed but for five.                       *)
THEOREM RepairSufficesHolds == Spec => []RepairSuffices
<1>1. Init => Mended
  BY DEF Init, Mended, RepairSuffices
<1>2. Standing /\ Mended /\ [Next]_vars => Mended'
  BY MendedStep
<1>3. Mended => RepairSuffices
  BY DEF Mended
<1>4. QED BY <1>1, <1>2, <1>3, StandingHolds, PTL DEF Spec

=============================================================================
