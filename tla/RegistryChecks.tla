--------------------------- MODULE RegistryChecks ---------------------------
(***************************************************************************)
(* The automated checks of a whole registry (validators/checks.py, the      *)
(* ledger check of validators/allocation.py) as the set of the issues they  *)
(* report.  They are what the required check of a pull request runs, what   *)
(* the worker runs before and after it evaluates, and what `python -m       *)
(* validators.validate` reports.                                            *)
(*                                                                         *)
(* A registry is                                                            *)
(*   authors    the registered AuthorIDs                                    *)
(*   objects    file -> Record; two files may declare one id                *)
(*   sources    SourceID -> Source, relations RelationID -> Relation        *)
(*   governing  SR-GOV id -> GoverningRecord                                *)
(* and the other inputs are the receipts, the ledger and the hashes of the  *)
(* released governing records.                                              *)
(***************************************************************************)
EXTENDS AdmissionGates

Issue(check, record) == [check |-> check, record |-> record]

Issues(check, records) == {Issue(check, x) : x \in records}

Source == [preferred: 0..2, repeated: BOOLEAN,             \* its links
           doi: Nat, resolver: Nat, concept: Nat, deposit: Nat, \* its DOIs; 0 is none
           related: SUBSET Nat,
           status: {"active", "superseded"},
           supersedes: SUBSET SourceIds, by: SourceIds \cup {NoId}]

Views == {"tier-1", "tier-0", "mixed", "root"}

GoverningRecord == [content: Nat, view: Views,
                    tier1: BOOLEAN, tier0: BOOLEAN,   \* whether each scope lists burdens
                    status: {"active", "superseded", "historical"},
                    supersedes: Governing \cup {NoId}, by: Governing \cup {NoId}]

IsRegistry(reg) ==
    /\ reg \in [authors: SUBSET Authors,
               objects: [DOMAIN reg.objects -> Record], sources: [DOMAIN reg.sources -> Source],
               relations: [DOMAIN reg.relations -> Relation],
               governing: [DOMAIN reg.governing -> GoverningRecord]]
    /\ DOMAIN reg.objects \subseteq Objects /\ DOMAIN reg.sources \subseteq SourceIds
    /\ DOMAIN reg.relations \subseteq Relations /\ DOMAIN reg.governing \subseteq Governing

Held(reg) == {reg.objects[f].id : f \in DOMAIN reg.objects}

-----------------------------------------------------------------------------
(* check_schema_validity, check_required_fields, the date and version        *)
(* formats and the namespace of ids: what each object record alone breaks.   *)
RequiredPresence ==
    {"tier2_class", "domain", "structural_focus", "main_question", "evidence_mode",
     "provenance", "authority_boundary", "source_boundary", "next_burden"}

RecordIssues(reg) ==
    UNION {LET r == reg.objects[file]
           IN  {Issue("schema-validity", file) : f \in {x \in Fields : SchemaError(x, r.state[x]) # "none"}}
                 \cup {Issue("missing", file) : f \in {x \in RequiredPresence : Missing(r, x)}}
                 \cup {Issue("formats", file) :
                         f \in {x \in Patterned : r.state[x] \in {"alien", "blank"}}}
           : file \in DOMAIN reg.objects}

(* check_unique_ids: one file per identifier.                               *)
UniqueIds(reg) ==
    Issues("unique-ids", {f \in DOMAIN reg.objects :
        \E g \in DOMAIN reg.objects \ {f} : reg.objects[f].id = reg.objects[g].id})

(* check_references.                                                        *)
ObjectReferences(reg) ==
    Issues("references", {f \in DOMAIN reg.objects :
        \E x \in References : Dangling(reg.objects[f], reg, x)})

Supersession(reg) ==
    Issues("supersession-references", {f \in DOMAIN reg.objects :
        reg.objects[f].supersedes \notin Held(reg) \cup {NoId}})

BrokenRelations(reg) ==
    Issues("broken-relations", {x \in DOMAIN reg.relations :
        \E end \in reg.relations[x].ends :
           end \notin Held(reg) \cup DOMAIN reg.sources})

(* check_taxonomy_references.                                               *)
TaxonomyReferences(reg) ==
    Issues("taxonomy-references",
           {f \in DOMAIN reg.objects :
              \E x \in Axes \cup Vocabularies : reg.objects[f].state[x] \in {"alien", "blank"}})
      \cup Issues("taxonomy-references",
                  {x \in DOMAIN reg.relations : ~reg.relations[x].controlled})

(* check_duplicate_object_collisions: distinct objects of one title and     *)
(* version.  Of two such files, as of two that declare one id, the code     *)
(* reports the one it reads second; here both are.                          *)
Collisions(reg) ==
    Issues("duplicate-object-collisions", {f \in DOMAIN reg.objects :
        \E g \in DOMAIN reg.objects :
           LET r == reg.objects[f]
               q == reg.objects[g]
           IN  /\ <<r.title, r.version>> = <<q.title, q.version>> /\ r.id # q.id
               /\ {r.state["title"], r.state["version"]} \cap {"null", "undeclared"} = {}})

(* check_missingness_classes.                                               *)
MissingnessClassIssues(reg) ==
    Issues("missingness-classes", {f \in DOMAIN reg.objects :
        reg.objects[f].state["missingness"] = "alien"})

-----------------------------------------------------------------------------
(* check_source_links and check_source_lineage.                             *)
SourceLinks(reg) ==
    Issues("source-links", {s \in DOMAIN reg.sources :
        LET x == reg.sources[s]
        IN  \/ x.preferred > 1
            \/ x.repeated
            \/ x.resolver # 0 /\ x.doi # 0 /\ x.resolver # x.doi})

Own(x) == {x.doi, x.concept, x.deposit} \ {0}

SourceDois(reg) ==
    Issues("source-lineage", {s \in DOMAIN reg.sources :
        LET x == reg.sources[s]
        IN  \/ x.doi # 0 /\ {x.concept, x.deposit} # {0} /\ x.doi \notin {x.concept, x.deposit}
            \/ x.concept # 0 /\ x.concept = x.deposit
            \/ x.related \cap Own(x) # {}})

SourceLineage(reg) ==
    Issues("source-lineage", {s \in DOMAIN reg.sources :
        LET x == reg.sources[s]
            known(o) == o \in DOMAIN reg.sources
        IN  \/ \E o \in x.supersedes :
                  ~(known(o) /\ reg.sources[o].by = s /\ reg.sources[o].status # "active")
            \/ x.by # NoId /\ ~(known(x.by) /\ s \in reg.sources[x.by].supersedes)
            \/ (x.by # NoId) # (x.status = "superseded")})

-----------------------------------------------------------------------------
(* check_governing: views, supersession, released records.  A record whose  *)
(* hash was released is its content; status and by may change.              *)
ExpectedView(view) ==
    CASE view = "tier-1" -> <<TRUE, FALSE>>
      [] view = "tier-0" -> <<FALSE, TRUE>>
      [] view = "mixed" -> <<TRUE, TRUE>>
      [] view = "root" -> <<FALSE, FALSE>>

GoverningViews(reg) ==
    Issues("governing-view", {g \in DOMAIN reg.governing :
        LET x == reg.governing[g] IN ExpectedView(x.view) # <<x.tier1, x.tier0>>})

GoverningSupersession(reg) ==
    Issues("governing-supersession", {g \in DOMAIN reg.governing :
        LET x == reg.governing[g]
            known(o) == o \in DOMAIN reg.governing
        IN  \/ /\ x.supersedes # NoId
               /\ ~(/\ known(x.supersedes)
                    /\ reg.governing[x.supersedes].by = g
                    /\ reg.governing[x.supersedes].status \in {"superseded", "historical"})
            \/ x.by # NoId /\ ~(known(x.by) /\ reg.governing[x.by].supersedes = g)
            \/ x.by # NoId /\ x.status = "active"
            \/ x.by = NoId /\ x.status = "superseded"})

(* released: SR-GOV id -> the content hashed by a release manifest.          *)
GoverningImmutability(reg, released) ==
    Issues("governing-immutability", {g \in DOMAIN released :
        \/ g \notin DOMAIN reg.governing
        \/ reg.governing[g].content # released[g]})

-----------------------------------------------------------------------------
(* check_reserved_identities: an id on a receipt that did not accept it, and *)
(* on none that did.  receipts is a set of [id, decision].                   *)
ReservedIdentities(reg, receipts) ==
    LET named(ds) == {x.id : x \in {y \in receipts : y.decision \in ds}}
    IN  Issues("reserved-identities", {f \in DOMAIN reg.objects :
            /\ reg.objects[f].id \in named({"RETURNED_FOR_REPAIR", "REJECTED"})
            /\ reg.objects[f].id \notin named({"ACCEPTED"})})

(* allocation.check_reservations of a ledger, value -> state, against the    *)
(* values committed records carry; a withdrawn value is not looked at.       *)
Reservations(committed, ledger) ==
    Issues("reservation-ledger", {v \in DOMAIN ledger :
        \/ ledger[v] = "reserved" /\ v \in committed
        \/ ledger[v] = "published" /\ v \notin committed})

(* validate_registry.                                                       *)
RegistryIssues(reg) ==
    RecordIssues(reg) \cup UniqueIds(reg) \cup ObjectReferences(reg)
      \cup Supersession(reg) \cup BrokenRelations(reg) \cup TaxonomyReferences(reg)
      \cup Collisions(reg) \cup MissingnessClassIssues(reg) \cup SourceLinks(reg)
      \cup SourceDois(reg) \cup SourceLineage(reg) \cup GoverningViews(reg)
      \cup GoverningSupersession(reg)

ValidateRegistry(reg, released, receipts, committed, ledger) ==
    RegistryIssues(reg) \cup ReservedIdentities(reg, receipts)
      \cup GoverningImmutability(reg, released) \cup Reservations(committed, ledger)

=============================================================================
