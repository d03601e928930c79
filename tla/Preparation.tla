---------------------------- MODULE Preparation ----------------------------
(***************************************************************************)
(* How the portal turns files into a draft and a draft into the record it   *)
(* submits: extraction and assembly (portal/submissions/extraction.py),     *)
(* identification, suggestions and readiness (preparation.py), the editor's *)
(* form (forms.py), saving and freezing (services.py).                      *)
(*                                                                         *)
(* What parsers find in a text is a value of File; what the keyword counts, *)
(* title similarity and DOI matches of a run come to is its argument        *)
(* outcome.  Both are chosen by whoever uses these operators.               *)
(***************************************************************************)
EXTENDS AdmissionGates, Sequences, FiniteSetsExt

CONSTANT NewSource \* the source a preparation proposes (SRC-NEW-1, later its SRC id)

ASSUME NewSourceAssumption == NewSource \in SourceIds

(* An upload: a structured record or a document; what it says of fields,    *)
(* whether its title is more than a guess, the versions it states.          *)
File == [record: BOOLEAN, says: [Fields -> Statuses \cup {"silent"}],
         names: [References -> SUBSET Ids], id: Objects, sure: BOOLEAN, versions: SUBSET Nat]

Says(file) == {f \in Fields : file.says[f] # "silent"}

Origins == {"researcher-statement", "source-extraction", "library-classification"}

(* A FieldEvidence row of the draft.                                        *)
Row == [field: Fields, origin: Origins, uncertain: BOOLEAN]

(* The underscore keys of a draft, and whether a source was proposed.       *)
Hints == [found: SUBSET Objects, answer: Objects \cup {"none", "distinct"},
          ambiguous: BOOLEAN, governs: BOOLEAN, proposed: BOOLEAN]

(* What the analysis of the text and the comparison with the registry give. *)
Suggestible == Axes \cup {"functional_locus", "publication_state"}

Outcome == [suggests: [Suggestible -> {"none", "tie", "term"}],
            found: SUBSET Objects, known: SUBSET SourceIds, doi: BOOLEAN]

-----------------------------------------------------------------------------
(* Python's truth of a field's value: an axis' or authority's block is true *)
(* however empty.                                                           *)
Falsy(f, way) ==
    \/ way \in {"null", "undeclared"}
    \/ way = "blank" /\ f \notin Axes \cup {"authority"}

(* The files that have a field, and those whose value of it counts.          *)
Sayers_SilentToo(files, f) == DOMAIN files

Sayers(files, f) == {i \in DOMAIN files : f \in Says(files[i])}

Tellers(files, f) == {i \in Sayers(files, f) : ~Falsy(f, files[i].says[f])}

(* assemble_candidate goes through the files and takes a field from each     *)
(* while the value it has is falsy: from the first that tells it, else from *)
(* the last that has it.  0: the value it had stays.                        *)
TakenFrom(record, files, f) ==
    IF ~Falsy(f, record.state[f]) \/ Sayers(files, f) = {} THEN 0
    ELSE IF Tellers(files, f) # {} THEN Min(Tellers(files, f)) ELSE Max(Sayers(files, f))

Empties == {"secondary_questions", "claim_layers", "relations", "source_ids",
            "exclusions", "missingness", "notes"} \cup Axes

Default(f, way) ==
    IF way # "undeclared" THEN way
    ELSE IF f \in Empties THEN "blank"
    ELSE IF f \in {"authority", "authors", "version"} THEN "stated" ELSE way

Assembled(record, files) ==
    LET from == [f \in Fields |-> TakenFrom(record, files, f)]
        taken(f) == IF from[f] = 0 THEN record.state[f] ELSE files[from[f]].says[f]
    IN  [record EXCEPT
           !.state = [f \in Fields |-> Default(f, taken(f))],
           !.refs = [f \in References |-> IF from[f] = 0 THEN record.refs[f]
                                          ELSE files[from[f]].names[f]],
           !.id = IF from["object_id"] = 0 THEN @ ELSE files[from["object_id"]].id]

(* The rows a file's fields leave.  A record's keys are statements, whether *)
(* or not their values were taken; an axis' key is not the path readiness   *)
(* asks for.                                                                *)
RowsOf(file) ==
    {[field |-> f, origin |-> IF file.record THEN "researcher-statement" ELSE "source-extraction",
      uncertain |-> ~file.record /\ ~file.sure] : f \in Says(file) \ Axes}

(* prepare: the suggestions fill what is still empty; a tie leaves a row.    *)
Suggested(state, outcome) ==
    [f \in Fields |->
       IF /\ f \in Suggestible /\ outcome.suggests[f] = "term"
          /\ state[f] \in {"blank", "null", "undeclared"}
       THEN "stated" ELSE state[f]]

SuggestionRows_Certain(outcome) == {}

SuggestionRows(outcome) ==
    {[field |-> f, origin |-> "library-classification", uncertain |-> TRUE] :
       f \in {x \in Suggestible : outcome.suggests[x] # "none"}}

(* The source the record rests on: those whose DOI matched, else one        *)
(* proposed from the files (_auto_source).                                  *)
Proposes(d, state, outcome) ==
    /\ outcome.known = {} /\ ~d.hints.proposed /\ state["source_ids"] = "blank"
    /\ state["title"] = "stated" \/ outcome.doi

NewSources(d, state, outcome) ==
    IF Proposes(d, state, outcome) THEN {NewSource} ELSE outcome.known

SourceRows(named, outcome) ==
    {[field |-> "source_ids", origin |-> "source-extraction", uncertain |-> outcome.known = {}] :
       s \in named}

Sourced(state, named) ==
    IF named # {} THEN [state EXCEPT !["source_ids"] = "stated"] ELSE state

Versions(files) == UNION {files[i].versions : i \in DOMAIN files}

(* The draft prepared from the draft d, as [record, rows, hints].  A        *)
(* preparation writes all the rows anew; hints it finds no reason for stay. *)
Prepared(d, files, outcome) ==
    LET assembled == Assembled(d.record, files)
        state == Suggested(assembled.state, outcome)
        named == NewSources(d, state, outcome)
    IN  [record |-> [assembled EXCEPT !.state = Sourced(state, named),
                                      !.refs["source_ids"] = @ \cup named],
         rows |-> (UNION {RowsOf(files[i]) : i \in DOMAIN files})
                    \cup SuggestionRows(outcome) \cup SourceRows(named, outcome),
         hints |-> [d.hints EXCEPT
                      !.found = IF outcome.found # {} THEN outcome.found ELSE @,
                      !.ambiguous = @ \/ Cardinality(Versions(files)) > 1,
                      !.proposed = @ \/ NewSource \in named]]

-----------------------------------------------------------------------------
(* preparation.assess.                                                      *)
Asked == Axes \cup Vocabularies \cup Texts \cup Structured
           \cup {"exclusions", "version", "source_ids"}

MayBeEmpty == {"exclusions", "missingness"}

Confirmed(rows, f) == \E x \in rows : x.field = f /\ x.origin = "researcher-statement"

Uncertain(rows, f) == ~Confirmed(rows, f) /\ \E x \in rows : x.field = f /\ x.uncertain

Ready(d, f) ==
    \/ ~Missing(d.record, f) /\ ~Uncertain(d.rows, f)
    \/ f \in MayBeEmpty /\ d.record.state[f] = "blank"

NeedsConfirmation(d) == {f \in Asked : ~Missing(d.record, f) /\ ~Ready(d, f)}

Submittable(d) ==
    /\ \A f \in Asked \ MayBeEmpty : Ready(d, f)
    /\ d.hints.ambiguous => d.hints.governs
    /\ d.hints.found # {} => d.hints.answer # "none"

-----------------------------------------------------------------------------
(* DraftForm: the editor shows the draft (from_submission) and posts it     *)
(* back (to_record), whole.                                                 *)
FormRefuses(record, kept) ==
    \E f \in kept : \/ f \in Structured /\ record.state[f] \in {"alien", "partial"}
                    \/ f \in References \cup {"version", "date"} /\ record.state[f] = "alien"

RoundTrip(f, way) ==
    CASE way = "stated" \/ (f = "object_id" /\ way = "alien") -> way
      [] f \in {"authority", "authors", "version", "object_id"} \/ way = "partial" -> "stated"
      [] f \in {"date", "governing_refs"} -> "undeclared"
      [] OTHER -> "blank"

(* A post in which the researcher supplies some fields and empties others.  *)
Posted_KeepsAsWas(record, supplied, cleared) ==
    [record EXCEPT
       !.state = [f \in Fields |-> IF f \in supplied THEN "stated"
                                   ELSE IF f \in cleared THEN "blank" ELSE record.state[f]]]

Posted(record, supplied, cleared) ==
    [record EXCEPT
       !.state = [f \in Fields |->
                    IF f \in supplied THEN "stated"
                    ELSE RoundTrip(f, IF f \in cleared THEN "blank" ELSE record.state[f])],
       !.refs = [f \in References |-> IF f \in supplied \cup cleared THEN {} ELSE record.refs[f]],
       !.gaps = IF "missingness" \in supplied \cup cleared THEN {} ELSE @]

(* save_draft with confirm_fields: what was uncertain and was kept.          *)
ConfirmedRows(before, record) ==
    {[field |-> f, origin |-> "researcher-statement", uncertain |-> FALSE] :
       f \in {x \in NeedsConfirmation(before) : ~Missing(record, x)}}

(* _auto_source and ProposedSourceForm: the link is the one its DOI          *)
(* resolves to, or the page the file names.                                 *)
ProposedSource(doi) ==
    [preferred |-> 1, repeated |-> FALSE, doi |-> doi, resolver |-> doi, concept |-> 0,
     deposit |-> 0, related |-> {}, status |-> "active", supersedes |-> {}, by |-> NoId]

-----------------------------------------------------------------------------
(* _resolved_record and confirm_and_submit: the record that is frozen, under *)
(* the id of the object it revises if there is one.                         *)
Frozen_OwnFirst(record, target) ==
    [record EXCEPT
       !.id = IF record.state["object_id"] = "stated" \/ target = NoId THEN @ ELSE target,
       !.state = [f \in Fields |-> IF f \in {"object_id", "authors", "authority"} THEN "stated" ELSE @[f]]]

Frozen(record, target) ==
    [record EXCEPT
       !.id = IF target # NoId THEN target ELSE @,
       !.state = [f \in Fields |->
                    CASE f = "authority" \/ (f = "object_id" /\ target # NoId) -> "stated"
                      [] f \in {"object_id", "authors"} /\ Missing(record, f) -> "stated"
                      [] f \in {"source_ids", "relations"} /\ Missing(record, f) -> "blank"
                      [] f = "date" /\ record.state[f] = "undeclared" -> "stated"
                      [] OTHER -> record.state[f]]]

=============================================================================
