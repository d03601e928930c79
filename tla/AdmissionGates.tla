--------------------------- MODULE AdmissionGates ---------------------------
(***************************************************************************)
(* The seven admission gates (validators/gates.py), the receipt their       *)
(* decision is written into (validators/receipts.py) and the fields the     *)
(* portal's repair names after one (portal/submissions/preparation.py).     *)
(*                                                                         *)
(* An evaluation is the set of the details the gates record; a gate has     *)
(* failed when one of its details is a failure, is blocked when it has      *)
(* details and none is, and passes without any.                             *)
(***************************************************************************)
EXTENDS ResearchRecord

Gates == {"A", "B", "C", "D", "E", "F", "G"}

Causes == {"missing", "unregistered", "namespace", "vocabulary", "class", "gap",
           "layer", "endpoint", "schema"}

Detail == [gate: Gates, verdict: {"block", "fail"}, field: Fields, cause: Causes]

Block(g, fields, cause) ==
    {[gate |-> g, verdict |-> "block", field |-> f, cause |-> cause] : f \in fields}

Fail(g, fields, cause) ==
    {[gate |-> g, verdict |-> "fail", field |-> f, cause |-> cause] : f \in fields}

(* What the gates read of the registry.                                     *)
Relation == [controlled: BOOLEAN, ends: SUBSET Ids]

Registered(lib, f) ==
    CASE f = "authors" -> lib.authors
      [] f = "source_ids" -> DOMAIN lib.sources
      [] f = "relations" -> DOMAIN lib.relations
      [] f = "governing_refs" -> DOMAIN lib.governing

(* A reference list naming something the registry does not have; an entry   *)
(* of no namespace is one of them.                                          *)
Dangling(r, lib, f) ==
    r.state[f] = "alien" \/ ~(Names(r, f) \subseteq Registered(lib, f))

-----------------------------------------------------------------------------
GateA_IdTaken(r, lib) ==
    Block("A", {f \in {"object_id", "title", "authors"} : Missing(r, f)}, "missing")
      \cup Block("A", {f \in {"object_id"} : r.id \in DOMAIN lib.objects}, "namespace")

GateA(r, lib) ==
    Block("A", {f \in {"object_id", "title", "authors"} : Missing(r, f)}, "missing")
      \cup Fail("A", {f \in {"object_id", "authors"} : r.state[f] = "alien"}, "namespace")
      \cup Block("A", {f \in {"authors"} : r.state[f] = "stated" /\ Dangling(r, lib, f)},
                 "unregistered")

GateB(r) ==
    Block("B", {f \in {"authority"} : Missing(r, f)}, "missing")
      \cup Fail("B", {f \in {"authority"} : r.state[f] = "alien"}, "vocabulary")

GateC(r, lib) ==
    Block("C", {f \in {"provenance", "source_boundary"} : Missing(r, f)}, "missing")
      \cup Fail("C", {f \in {"provenance"} : r.state[f] = "alien"}, "vocabulary")
      \cup Block("C", {f \in {"source_ids"} : ~Given(r, f)}, "missing")
      \cup Block("C", {f \in {"source_ids"} : Dangling(r, lib, f)}, "unregistered")
      \cup Block("C", {f \in {"claim_layers"} : r.state[f] = "partial"}, "layer")

Classified == Axes \cup {"maturity", "functional_locus", "publication_state"}

GateD(r) ==
    Block("D", {f \in Classified \cup {"main_question"} : Missing(r, f)}, "missing")
      \cup Fail("D", {f \in Classified : r.state[f] = "alien"}, "vocabulary")

GateE(r) ==
    Block("E", {f \in {"authority_boundary", "scope"} : Missing(r, f)}, "missing")
      \cup Block("E", {f \in {"missingness"} : ~Given(r, f)}, "missing")
      \cup Block("E", {f \in {"missingness"} : r.state[f] = "alien"}, "class")
      \cup Fail("E", {f \in {"missingness"} : "CONTRACT_VIOLATING" \in r.gaps}, "gap")
      \cup Block("E", {f \in {"missingness"} :
                         {"EVALUABILITY_BLOCKING", "REPAIRABLE"} \cap r.gaps # {}}, "gap")

(* Whether an end of a relation resolves; the record's own id counts.       *)
Resolves(r, lib, end) ==
    \/ end \in SourceIds /\ end \in DOMAIN lib.sources
    \/ end \in Objects /\ end \in {lib.objects[f].id : f \in DOMAIN lib.objects} \cup {r.id}

NamedRelations(r, lib) == {lib.relations[x] : x \in Names(r, "relations") \cap DOMAIN lib.relations}

(* Without a relations list the gate returns before the governing refs.     *)
GateF(r, lib) ==
    LET named == NamedRelations(r, lib)
    IN  IF ~Given(r, "relations")
        THEN Block("F", {"relations"}, "missing")
        ELSE Block("F", {f \in {"governing_refs", "relations"} : Dangling(r, lib, f)},
                   "unregistered")
               \cup Fail("F", {f \in {"relations"} : \E x \in named : ~x.controlled},
                         "vocabulary")
               \cup Block("F", {f \in {"relations"} :
                                  \E x \in named : \E end \in x.ends : ~Resolves(r, lib, end)},
                          "endpoint")

DurabilityTexts == {"next_burden", "repair_route", "preserved_meaning",
                    "object_of_study", "lens", "distortion_or_substitution_risk"}

GateG_SchemaLast(r) ==
    LET own == Block("G", {f \in {"version", "date"} \cup DurabilityTexts : Missing(r, f)}, "missing")
        error(f) == SchemaError(f, r.state[f])
    IN  IF own # {} THEN own
        ELSE Block("G", {f \in Fields : error(f) \in {"required", "minLength", "minItems"}},
                   "schema")
               \cup Fail("G", {f \in Fields : error(f) \in {"pattern", "enum", "type"}},
                         "schema")

GateG_SchemaUnread(r) ==
    Block("G", {f \in {"version", "date"} \cup DurabilityTexts : Missing(r, f)}, "missing")
      \cup Fail("G", {f \in {"version", "date"} : r.state[f] = "alien"}, "namespace")
      \cup Block("G", {f \in Lists \cup {"claim_layers"} : r.state[f] = "undeclared"}, "missing")

GateG(r) ==
    Block("G", {f \in {"version", "date"} \cup DurabilityTexts : Missing(r, f)}, "missing")
      \cup Fail("G", {f \in {"version", "date"} : r.state[f] = "alien"}, "namespace")
      \cup Block("G", {f \in Lists \cup {"claim_layers"} : r.state[f] = "undeclared"}, "missing")
      \cup LET error(f) == SchemaError(f, r.state[f])
           IN  Block("G", {f \in Fields : error(f) \in {"required", "minLength", "minItems"}},
                     "schema")
                 \cup Fail("G", {f \in Fields : error(f) \in {"pattern", "enum", "type"}},
                           "schema")

Evaluation(r, lib) ==
    GateA(r, lib) \cup GateB(r) \cup GateC(r, lib) \cup GateD(r) \cup GateE(r)
      \cup GateF(r, lib) \cup GateG(r)

FailedGates(details) == {d.gate : d \in {x \in details : x.verdict = "fail"}}

BlockedGates(details) == {d.gate : d \in details} \ FailedGates(details)

Decisions == {"ACCEPTED", "RETURNED_FOR_REPAIR", "REJECTED"}

Decision(details) ==
    IF FailedGates(details) # {} THEN "REJECTED"
    ELSE IF details # {} THEN "RETURNED_FOR_REPAIR" ELSE "ACCEPTED"

-----------------------------------------------------------------------------
(* receipts._accepted_fields: the fields given whose gate passed.           *)
GateOf(f) ==
    CASE f \in {"object_id", "title", "authors"} -> "A"
      [] f = "authority" -> "B"
      [] f \in {"provenance", "source_ids", "source_boundary"} -> "C"
      [] f \in Classified \cup {"main_question"} -> "D"
      [] f \in {"authority_boundary", "scope", "missingness"} -> "E"
      [] f = "relations" -> "F"
      [] f \in {"version", "date", "next_burden", "repair_route"} -> "G"
      [] OTHER -> "none"

AcceptedFields(r, details) ==
    {f \in Fields :
       /\ GateOf(f) \notin {d.gate : d \in details} \cup {"none"}
       /\ Given(r, f)
       /\ f \in Texts \cup Vocabularies \cup Patterned => ~Missing(r, f)}

(* The details a receipt lists: of the blocked gates when it returns the    *)
(* record, of the failed ones when it rejects it.                           *)
Listed(details) ==
    IF Decision(details) = "REJECTED"
    THEN {d \in details : d.gate \in FailedGates(details)}
    ELSE details

Receipt == [decision: Decisions, listed: SUBSET Detail, accepted: SUBSET Fields]

BuildReceipt(r, details) ==
    [decision |-> Decision(details), listed |-> Listed(details),
     accepted |-> IF Decision(details) = "RETURNED_FOR_REPAIR"
                  THEN AcceptedFields(r, details) ELSE {}]

-----------------------------------------------------------------------------
(* preparation.repair_focus: the field whose pattern the text of a detail   *)
(* matches first, "none" when no pattern does.  The messages of             *)
(* authority_boundary match the pattern of authority; the schema's own      *)
(* messages say "authors", "relations", "governing_refs" and "domain" in    *)
(* words that no pattern has.                                               *)
FocusOf(d) ==
    IF d.field = "authority_boundary" THEN "authority"
    ELSE IF d.cause = "schema" /\ d.field \in {"authors", "relations", "governing_refs", "domain"}
    THEN "none" ELSE d.field

RepairFocus(receipt) == {FocusOf(d) : d \in receipt.listed} \ {"none"}

=============================================================================
