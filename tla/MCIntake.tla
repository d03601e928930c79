------------------------------ MODULE MCIntake ------------------------------
(* Instances of Intake for TLC: a registry of one registered object, its    *)
(* author, source, relation and governing record; at the command line a     *)
(* complete record with one or two deviations; in the portal two uploads of *)
(* four files and three outcomes of their analysis.                         *)
EXTENDS Intake, TLC

CONSTANTS o1, o2, a1, a2, s1, s2, r1, r2, g1, g2

Complete ==
    [state |-> [f \in Fields |-> IF f \in {"governing_refs", "date"} THEN "undeclared" ELSE "stated"],
     refs |-> [f \in References |->
                 CASE f = "authors" -> {a1} [] f = "source_ids" -> {s1} [] OTHER -> {}],
     gaps |-> {}, id |-> o1, title |-> 1, version |-> 1, supersedes |-> NoId]

Dated == [Complete EXCEPT !.state["date"] = "stated"]

Registry ==
    [authors |-> {a1},
     objects |-> (o2 :> [Dated EXCEPT !.id = o2, !.title = 2]),
     sources |-> (s1 :> ProposedSource(0)),
     relations |-> (r1 :> [controlled |-> TRUE, ends |-> {o2, s1}]),
     governing |-> (g1 :> [content |-> 1, view |-> "root", tier1 |-> FALSE, tier0 |-> FALSE,
                           status |-> "active", supersedes |-> NoId, by |-> NoId])]

MCLibraries ==
    {Registry,
     [Registry EXCEPT !.relations = (r1 :> [controlled |-> TRUE, ends |-> {o1, s2}])]}

With(record, f, way) == [record EXCEPT !.state[f] = way]

Naming(record, f, names) == [record EXCEPT !.state[f] = "stated", !.refs[f] = names]

Named(record) ==
    {Naming(record, "authors", {a2}), Naming(record, "source_ids", {s2}),
     Naming(record, "relations", {r1}), Naming(record, "relations", {r2}),
     Naming(record, "governing_refs", {g1}), Naming(record, "governing_refs", {g2}), [record EXCEPT !.supersedes = o2],
     [record EXCEPT !.id = o2], [record EXCEPT !.title = 2],
     [record EXCEPT !.gaps = {"REPAIRABLE"}], [record EXCEPT !.gaps = {"CONTRACT_VIOLATING"}],
     [record EXCEPT !.gaps = {"NON_BLOCKING"}]}

Deviations(record) ==
    UNION {{With(record, f, way) : way \in Ways(f)} : f \in Fields} \cup Named(record)

MCDrafts ==
    LET second(x) ==
          {With(x, "missingness", "partial"), With(x, "missingness", "alien"),
           With(x, "relations", "undeclared"), With(x, "domain", "alien"),
           With(x, "governing_refs", "null"), Naming(x, "authors", {a2}),
           [x EXCEPT !.gaps = {"REPAIRABLE"}]}
    IN  UNION {{x} \cup second(x) : x \in Deviations(Dated)}

(* Those whose deviations are values left out.                              *)
MCBlank == {x \in MCDrafts : x.gaps = {} /\ \A f \in Fields :
                 x.state[f] \in {"stated", "blank", "null", "undeclared"}
                 /\ (x.state[f] = "stated" /\ f \in References => x.refs[f] = Dated.refs[f])}

MCEdits ==
    {[supplied |-> FormFields \ {"title", "claim_layers"}, cleared |-> {"exclusions"}],
     [supplied |-> FormFields \ {"functional_locus", "source_ids"}, cleared |-> {}],
     [supplied |-> {}, cleared |-> {}]}

Silent == [f \in Fields |-> "silent"]

Nothing == [f \in References |-> {}]

Manuscript ==
    [record |-> FALSE, says |-> [Silent EXCEPT !["title"] = "stated"],
     names |-> Nothing, id |-> o1, sure |-> FALSE, versions |-> {1, 2}]

Paper == [Manuscript EXCEPT !.sure = TRUE, !.versions = {}]

Json ==
    [record |-> TRUE, says |-> [Dated.state EXCEPT !["governing_refs"] = "silent", !["lens"] = "blank"],
     names |-> Dated.refs, id |-> o2, sure |-> TRUE, versions |-> {}]

Partial ==
    [Json EXCEPT !.says["object_id"] = "silent", !.says["functional_locus"] = "alien",
                 !.says["claim_layers"] = "partial", !.says["source_ids"] = "null",
                 !.says["relations"] = "stated", !.names["relations"] = {r2}]

Misnamed == [Json EXCEPT !.says["object_id"] = "alien", !.says["source_ids"] = "silent"]

MCPapers == {Manuscript, Paper}

MCFiles == {Manuscript, Json, Partial, Misnamed}

Nowhere == [suggests |-> [f \in Suggestible |-> "none"], found |-> {}, known |-> {}, doi |-> FALSE]

MCOutcomes ==
    {Nowhere, [Nowhere EXCEPT !.found = {o2}, !.doi = TRUE],
     [Nowhere EXCEPT !.suggests = [f \in Suggestible |-> IF f = "domain" THEN "tie" ELSE "term"],
                     !.known = {s1}]}
=============================================================================
