--------------------------- MODULE ResearchRecord ---------------------------
(***************************************************************************)
(* A research-object record as the admission code tells records apart       *)
(* (schema/object.schema.json): how each field is given, which registered   *)
(* records its reference lists name, which classes of missingness it        *)
(* declares, and the values two records are compared by.                    *)
(*                                                                         *)
(* A field is "stated"; "blank": an empty string or list, for an axis a     *)
(* block with an empty primary, for authority an empty tier; "null";        *)
(* "undeclared": the key is absent; "alien": a value its taxonomy,          *)
(* namespace, pattern or enumeration does not have; "partial": an axis      *)
(* without secondary, a claim without layer, a gap without item.            *)
(***************************************************************************)
EXTENDS Naturals, FiniteSets

CONSTANTS
    Objects, Authors, SourceIds, Relations, Governing, \* identifiers
    NoId

Axes == {"tier2_class", "domain", "structural_focus", "evidence_mode"}

Vocabularies == {"provenance", "maturity", "functional_locus", "publication_state"}

Texts == {"title", "object_of_study", "lens", "main_question", "source_boundary",
          "authority_boundary", "scope", "preserved_meaning",
          "distortion_or_substitution_risk", "next_burden", "repair_route"}

Patterned == {"object_id", "version", "date"}

Lists == {"secondary_questions", "exclusions", "notes"}

Structured == {"claim_layers", "missingness"}

References == {"authors", "source_ids", "relations", "governing_refs"}

Fields == Axes \cup Vocabularies \cup Texts \cup Patterned \cup Lists
            \cup Structured \cup References \cup {"authority"}

Ids == Objects \cup Authors \cup SourceIds \cup Relations \cup Governing

MissingnessClasses ==
    {"NON_BLOCKING", "EVALUABILITY_BLOCKING", "CONTRACT_VIOLATING", "REPAIRABLE",
     "UNRESOLVED_SEAM"}

Statuses == {"stated", "blank", "null", "undeclared", "alien", "partial"}

(* The ways a field can be given.                                           *)
Ways(f) ==
    {"stated", "blank", "null", "undeclared"}
      \cup (IF f \in Texts \cup Lists THEN {} ELSE {"alien"})
      \cup (IF f \in Axes \cup Structured THEN {"partial"} ELSE {})

Record == [state: [Fields -> Statuses], refs: [References -> SUBSET Ids],
           gaps: SUBSET MissingnessClasses, id: Objects, title: Nat, version: Nat,
           supersedes: Objects \cup {NoId}]

Given(r, f) == r.state[f] \notin {"null", "undeclared"}

(* gates._missing of a string, an axis' primary or a tier.                   *)
Missing(r, f) == r.state[f] \in {"blank", "null", "undeclared"}

Names(r, f) == IF r.state[f] = "stated" THEN r.refs[f] ELSE {}

(* The records of g with x filed as v.                                      *)
Filed(x, v, g) == [y \in DOMAIN g \cup {x} |-> IF y = x THEN v ELSE g[y]]

(* The keyword by which the object schema refuses a field: the one error    *)
(* jsonschema reports for it, "none" when it is valid.                      *)
SchemaError(f, way) ==
    CASE way = "undeclared" -> IF f = "governing_refs" THEN "none" ELSE "required"
      [] way = "null" -> "type"
      [] way = "partial" -> "required"
      [] way = "blank" -> CASE f \in Texts \cup Vocabularies \cup Axes -> "minLength"
                            [] f = "authors" -> "minItems"
                            [] f \in Patterned -> "pattern"
                            [] f = "authority" -> "enum"
                            [] OTHER -> "none"
      [] way = "alien" -> CASE f \in Patterned \cup References -> "pattern"
                            [] f \in Structured \cup {"authority"} -> "enum"
                            [] OTHER -> "none"
      [] OTHER -> "none"

=============================================================================
