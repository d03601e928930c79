------------------------------- MODULE Intake -------------------------------
(***************************************************************************)
(* One work from its draft to its registration: the researcher prepares a   *)
(* draft in the portal or hands a record to the command line, it is         *)
(* evaluated against a registry that grows meanwhile, returned, repaired    *)
(* and evaluated again.  It composes Preparation, AdmissionGates and        *)
(* RegistryChecks.                                                          *)
(*                                                                         *)
(* Jobs, tabs and review cases are SubmissionWorkflow's and the files the   *)
(* engine writes AdmissionEngine's: here a handler is one step.             *)
(***************************************************************************)
EXTENDS Preparation, RegistryChecks

CONSTANTS
    Drafts,      \* the records handed to the command line
    Libraries,   \* the registries to start from
    Files,       \* what may be uploaded
    Outcomes,    \* what the analysis of the uploads may come to
    Edits,       \* posts of the form: the fields supplied and those emptied
    NewObject,   \* the id reserved for the work
    Newcomers,   \* ids others may register meanwhile
    MaxUploads,  \* bound
    MaxRevisions \* bound

(* What the editor's form can supply.                                       *)
FormFields == Fields \ {"object_id", "authority"}

(* The file of an object is named by its id, as register_object names it; of *)
(* a document only the title is a field of the record.                      *)
NamedByIds(reg) == \A f \in DOMAIN reg.objects : reg.objects[f].id = f

ASSUME IntakeAssumption ==
    /\ NoId \notin Objects
    /\ Drafts \subseteq Record /\ Outcomes \subseteq Outcome
    /\ \A x \in Files : x \in File /\ (x.record \/ Says(x) \subseteq {"title"})
    /\ \A reg \in Libraries :
           IsRegistry(reg) /\ NamedByIds(reg) /\ NewSource \notin DOMAIN reg.sources
    /\ \A e \in Edits : e.supplied \subseteq FormFields /\ e.cleared \subseteq Fields
    /\ NewObject \in Objects
    /\ Newcomers \subseteq Authors \cup SourceIds \cup Relations
    /\ MaxUploads \in Nat /\ MaxRevisions \in Nat \ {0}

VARIABLES
    route,     \* "portal" or "cli"
    lib,       \* the registry
    uploads,   \* the files uploaded, in order
    draft,     \* [record, rows, hints]
    intended,  \* Submission.intended_object_id
    phase,     \* of the work
    revision,  \* the record last frozen
    receipt,   \* the receipt of its evaluation
    before,    \* what the receipt before a repair listed
    repaired,  \* and the fields the repair repaired
    origin,    \* origin[f]: who gave the value the draft holds
    formed,    \* the draft was last saved by the form
    ready,     \* the draft was submittable when it was frozen
    revisions  \* revisions so far

vars == <<route, lib, uploads, draft, intended, phase, revision, receipt, before,
          repaired, origin, formed, ready, revisions>>

Phases == {"draft", "submitted", "decided", "registered"}

Giver == {"nobody", "default", "researcher", "guess", "source"}

EmptyRecord ==
    [state |-> [f \in Fields |-> "undeclared"], refs |-> [f \in References |-> {}],
     gaps |-> {}, id |-> NewObject, title |-> 1, version |-> 1, supersedes |-> NoId]

NoHints == [found |-> {}, answer |-> "none", ambiguous |-> FALSE, governs |-> FALSE,
            proposed |-> FALSE]

Draft(record) == [record |-> record, rows |-> {}, hints |-> NoHints]

NoReceipt == [decision |-> "none", listed |-> {}, accepted |-> {}]

(* Every field keeps its type; a check that the records, rows and receipts  *)
(* built from each other stay in their types.                               *)
TypeOK ==
    /\ IsRegistry(lib) /\ uploads \in Seq(Files)
    /\ route \in {"portal", "cli"} /\ phase \in Phases /\ revisions \in 0..MaxRevisions
    /\ draft \in [record: Record, rows: SUBSET Row, hints: Hints] /\ revision \in Record
    /\ intended \in Objects \cup {NoId}
    /\ receipt = NoReceipt \/ receipt \in Receipt
    /\ origin \in [Fields -> Giver] /\ formed \in BOOLEAN /\ ready \in BOOLEAN
    /\ before \subseteq Detail /\ repaired \subseteq Fields

Init ==
    /\ lib \in Libraries
    /\ uploads = << >> /\ intended = NoId /\ phase = "draft"
    /\ revision = EmptyRecord /\ receipt = NoReceipt /\ before = {} /\ repaired = {}
    /\ formed = FALSE /\ ready = FALSE /\ revisions = 0
    /\ origin = [f \in Fields |-> "nobody"]
    /\ \/ route = "portal" /\ draft = Draft(EmptyRecord)
       \/ route = "cli" /\ \E record \in Drafts : draft = Draft(record)

-----------------------------------------------------------------------------
(* Who gave a value that a preparation changes: what neither a file nor the *)
(* registry tells is a suggestion or a proposal, or a default.              *)
GivenBy(files, f) ==
    LET first == files[Min(Tellers(files, f))]
    IN  IF Tellers(files, f) = {} THEN "default"
        ELSE IF first.record THEN "researcher"
        ELSE IF first.sure THEN "source" ELSE "guess"

(* An upload and its preparation.  With "source_ids": null the handler      *)
(* raises, and nothing is prepared.  The keywords are counted in all the     *)
(* files: a suggestion may become a tie and is not lost.                    *)
Prepare(file, outcome) ==
    LET files == Append(uploads, file)
        assembled == Assembled(draft.record, files)
        next == Prepared(draft, files, outcome)
    IN  /\ route = "portal" /\ phase = "draft" /\ Len(uploads) < MaxUploads
        /\ \A i \in DOMAIN uploads : uploads[i] # file
        /\ assembled.state["source_ids"] # "null"
        /\ \A x \in draft.rows : x.origin = "library-classification" =>
                outcome.suggests[x.field] # "none"
        /\ uploads' = files
        /\ draft' = next
        /\ origin' = [f \in Fields |->
                        IF draft.record.state[f] = next.record.state[f] THEN origin[f]
                        ELSE IF assembled.state[f] = next.record.state[f] THEN GivenBy(files, f)
                        ELSE IF f = "source_ids" /\ outcome.known # {} THEN "source" ELSE "guess"]
        /\ formed' = FALSE
        /\ UNCHANGED <<route, lib, intended, phase, revision, receipt, before, repaired, ready, revisions>>

(* The editor's save, or its autosave, which confirms nothing.  A source is  *)
(* repaired by proposing one (add_source).                                  *)
SaveForm(supplied, cleared, confirms) ==
    LET record == Posted(draft.record, supplied, cleared)
        sources == IF "source_ids" \in supplied THEN {NewSource} ELSE record.refs["source_ids"]
    IN  /\ route = "portal" /\ phase = "draft" /\ uploads # << >>
        /\ ~FormRefuses(draft.record, Fields \ (supplied \cup cleared))
        /\ draft' = [record |-> [record EXCEPT !.refs["source_ids"] = sources],
                     rows |-> draft.rows \cup
                                (IF confirms THEN ConfirmedRows(draft, record) ELSE {}),
                     hints |-> [draft.hints EXCEPT !.proposed = @ \/ NewSource \in sources]]
        /\ origin' = [f \in Fields |->
                        IF f \in supplied \/ (confirms /\ f \in NeedsConfirmation(draft))
                        THEN "researcher" ELSE origin[f]]
        /\ formed' = TRUE
        /\ UNCHANGED <<route, lib, uploads, intended, phase, revision, receipt, before, repaired,
                       ready, revisions>>

(* confirm(): the page posts its answers, they are saved with the draft and  *)
(* the record is frozen.  The id of a revision of another object stays with *)
(* the submission.                                                          *)
Answered(answer, governs) ==
    [draft.hints EXCEPT !.answer = IF answer = "none" THEN @ ELSE answer,
                        !.governs = @ \/ governs]

Target(hints) == IF hints.answer \in Objects THEN hints.answer ELSE intended

Confirm(answer, governs) ==
    LET hints == Answered(answer, governs)
        frozen == Frozen(draft.record, Target(hints))
    IN  /\ route = "portal" /\ phase = "draft" /\ uploads # << >> /\ revisions < MaxRevisions
        /\ IF draft.hints.found = {} THEN answer = "none" ELSE hints.answer # "none"
        /\ governs = draft.hints.ambiguous
        /\ intended' = Target(hints)
        /\ revision' = frozen
        /\ draft' = [draft EXCEPT !.record = frozen, !.hints = hints]
        /\ ready' = Submittable([draft EXCEPT !.hints = hints])
        /\ revisions' = revisions + 1
        /\ phase' = "submitted"
        /\ UNCHANGED <<route, lib, uploads, receipt, before, repaired, origin, formed>>

(* python -m validators.admit takes the record as it is.                    *)
HandIn ==
    /\ route = "cli" /\ phase = "draft" /\ revisions < MaxRevisions
    /\ revision' = draft.record
    /\ revisions' = revisions + 1
    /\ phase' = "submitted"
    /\ UNCHANGED <<route, lib, uploads, draft, intended, receipt, before, repaired, origin, formed, ready>>

-----------------------------------------------------------------------------
(* The registry the revision is evaluated in: the source the portal proposes *)
(* with it is there, the command line takes the registry as it is.          *)
Evaluated ==
    [lib EXCEPT !.sources = IF route = "portal" /\ NewSource \in Names(revision, "source_ids")
                            THEN Filed(NewSource, ProposedSource(0), @) ELSE @]

(* register_object: the file of an object is written over.                   *)
Candidate == [Evaluated EXCEPT !.objects = Filed(revision.id, revision, @)]

(* ... but not with other content at its version: then the worker reports    *)
(* an error, and there is no decision.                                      *)
Registrable ==
    revision.id \in DOMAIN lib.objects => lib.objects[revision.id].version # revision.version

Evaluate ==
    LET details == Evaluation(revision, Evaluated)
    IN  /\ phase = "submitted"
        /\ Decision(details) = "ACCEPTED" => Registrable
        /\ receipt' = BuildReceipt(revision, details)
        /\ phase' = "decided"
        /\ UNCHANGED <<route, lib, uploads, draft, intended, revision, before, repaired, origin,
                       formed, ready, revisions>>

(* An accepted candidate is published once its required check passes, which *)
(* validates the whole registry.                                            *)
Register ==
    /\ phase = "decided" /\ receipt.decision = "ACCEPTED"
    /\ RegistryIssues(Candidate) = {}
    /\ lib' = Candidate
    /\ phase' = "registered"
    /\ UNCHANGED <<route, uploads, draft, intended, revision, receipt, before, repaired, origin,
                   formed, ready, revisions>>

(* start_repair: a draft from the frozen record, with its rows; a revision  *)
(* of what is registered takes the next version and a new date.             *)
StartRepair ==
    /\ route = "portal" /\ phase \in {"decided", "registered"}
    /\ phase = "decided" => receipt.decision # "ACCEPTED"
    /\ draft' = [draft EXCEPT
                   !.record = IF phase = "decided" THEN revision
                              ELSE [revision EXCEPT !.version = @ + 1,
                                                    !.state["date"] = "undeclared"]]
    /\ phase' = "draft"
    /\ UNCHANGED <<route, lib, uploads, intended, revision, receipt, before, repaired, origin,
                   formed, ready, revisions>>

(* At the command line the author supplies the fields the receipt lists or  *)
(* those the portal's repair would name, all of them and nothing else, and  *)
(* what was not registered is dropped.                                      *)
Supplied(record, fields) ==
    [record EXCEPT
       !.state = [f \in Fields |-> IF f \in fields THEN "stated" ELSE @[f]],
       !.refs = [f \in References |-> IF f \notin fields THEN @[f]
                                      ELSE IF f = "authors" THEN lib.authors ELSE {}],
       !.gaps = IF "missingness" \in fields THEN {} ELSE @]

SupplyListed(fields) ==
    /\ route = "cli" /\ phase = "decided" /\ receipt.decision # "ACCEPTED"
    /\ draft' = [draft EXCEPT !.record = Supplied(revision, fields)]
    /\ before' = receipt.listed
    /\ repaired' = fields
    /\ phase' = "draft"
    /\ UNCHANGED <<route, lib, uploads, intended, revision, receipt, origin, formed, ready,
                   revisions>>

(* Others register records.                                                 *)
Grow(x) ==
    /\ lib' = CASE x \in Authors -> [lib EXCEPT !.authors = @ \cup {x}]
                [] x \in SourceIds -> [lib EXCEPT !.sources = Filed(x, ProposedSource(0), @)]
                [] x \in Relations -> [lib EXCEPT !.relations = Filed(x, [controlled |-> TRUE, ends |-> {}], @)]
    /\ x \notin lib.authors \cup DOMAIN lib.sources \cup DOMAIN lib.relations
    /\ UNCHANGED <<route, uploads, draft, intended, phase, revision, receipt, before, repaired, origin,
                   formed, ready, revisions>>

Next ==
    \/ \E file \in Files, outcome \in Outcomes : Prepare(file, outcome)
    \/ \E e \in Edits, confirms \in BOOLEAN : SaveForm(e.supplied \ e.cleared, e.cleared, confirms)
    \/ \E answer \in Objects \cup {"none", "distinct"}, governs \in BOOLEAN : Confirm(answer, governs)
    \/ HandIn
    \/ Evaluate
    \/ Register
    \/ StartRepair
    \/ \E fields \in {{d.field : d \in receipt.listed}, RepairFocus(receipt)} :
         SupplyListed(fields)
    \/ \E x \in Newcomers : Grow(x)

Spec == Init /\ [][Next]_vars

-----------------------------------------------------------------------------
(* No accepted record brings an issue of its own into the registry's checks *)
(* but the two that no gate looks at: what it supersedes, and a distinct    *)
(* object of its title and version.                                         *)
AcceptedIsClean ==
    phase = "decided" /\ receipt.decision = "ACCEPTED" =>
        {i.check : i \in RegistryIssues(Candidate) \ RegistryIssues(lib)}
          \subseteq {"supersession-references", "duplicate-object-collisions"}

(* What was accepted stays acceptable while the registry grows, and from    *)
(* its registration on in the registry as it is.                            *)
StaysAccepted ==
    phase \in {"decided", "registered"} /\ receipt.decision = "ACCEPTED" =>
        Decision(Evaluation(revision, IF phase = "registered" THEN lib ELSE Evaluated)) = "ACCEPTED"

(* Supplying what a receipt lists is enough: a returned record is then       *)
(* accepted, and of a rejected one no listed field is listed again.  The     *)
(* fields the portal's repair names are enough but for five, which its       *)
(* patterns miss in some messages.  Only gate F may have one more thing to   *)
(* say: without a relations list it does not read the governing references. *)
RepairSuffices ==
    phase = "decided" /\ before # {} =>
        LET fields == {d.field : d \in before}
        IN  /\ {d.field : d \in receipt.listed} \cap fields \cap repaired = {}
            /\ fields \ repaired \subseteq
                  {"authority_boundary", "domain", "governing_refs", "relations", "authors"}
            /\ fields \subseteq repaired /\ (\A d \in before : d.verdict = "block") =>
                  \/ receipt.decision = "ACCEPTED"
                  \/ /\ Block("F", {"relations"}, "missing") \subseteq before
                     /\ receipt.listed = Block("F", {"governing_refs"}, "unregistered")

(* A draft the form saved and readiness calls submittable is accepted, up   *)
(* to its declared gaps and to what its references name.                    *)
FormSavedIsEvaluable ==
    route = "portal" /\ formed /\ ready /\ phase = "decided" =>
        \A d \in receipt.listed :
            \/ d.cause \in {"gap", "unregistered", "endpoint"} \/ d.field = "relations"
            \/ /\ d.field = "object_id"
               /\ \E i \in DOMAIN uploads : uploads[i].says["object_id"] = "alien"

(* The record is frozen under the id the researcher's answer names; without *)
(* one, under its own, one a file states, or that of an earlier answer.     *)
AnswerIsFollowed ==
    route = "portal" /\ phase = "submitted" =>
        revision.id \in
            IF draft.hints.answer \in Objects THEN {draft.hints.answer}
            ELSE {NewObject, intended} \cup {uploads[i].id : i \in DOMAIN uploads}

(* No guess is submitted as ready: it was confirmed in the editor, or a     *)
(* record file has the field too, even with another value or none, or it is *)
(* the proposed source and a later preparation found it in its place.       *)
ReadyIsStated ==
    route = "portal" /\ phase = "submitted" /\ ready =>
        \A f \in Asked : origin[f] = "guess" =>
            \/ \E i \in DOMAIN uploads : uploads[i].record /\ f \in Says(uploads[i])
            \/ f = "source_ids" /\ Len(uploads) > 1

(* What is submitted as ready is present and reliably extracted or confirmed.*)
ReadyIsReliable ==
    route = "portal" /\ phase = "submitted" /\ ready => \A f \in Asked : origin[f] # "guess"

(* A record whose only defect is what it leaves out is returned for repair,  *)
(* not rejected.                                                            *)
MissingIsReturned ==
    phase = "decided" /\ (\A f \in Fields : revision.state[f] = "stated" \/ Missing(revision, f)) =>
        /\ revision.gaps = {} => receipt.decision # "REJECTED"

=============================================================================
