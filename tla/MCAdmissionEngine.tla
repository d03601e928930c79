------------------------- MODULE MCAdmissionEngine -------------------------
(* Instance of AdmissionEngine for TLC: one author, source and governing    *)
(* record; an object and two ways to change it under one new version, the   *)
(* second with a gap that the gates return it for and no check refuses.     *)
EXTENDS AdmissionEngine, TLC

CONSTANTS b1, b2, o1, o2, a1, s1, s2, g1, g2

Work1 ==
    [state |-> [f \in Fields |-> IF f = "governing_refs" THEN "undeclared" ELSE "stated"],
     refs |-> [f \in References |->
                 CASE f = "authors" -> {a1} [] f = "source_ids" -> {s1} [] OTHER -> {}],
     gaps |-> {}, id |-> o1, title |-> 1, version |-> 1, supersedes |-> NoId]

Work2 == [Work1 EXCEPT !.version = 2, !.state["notes"] = "blank"]

Work2b == [Work1 EXCEPT !.version = 2, !.gaps = {"EVALUABILITY_BLOCKING"}]

MCWorks == {Work1, Work2, Work2b}

ASource ==
    [preferred |-> 1, repeated |-> FALSE, doi |-> 0, resolver |-> 0, concept |-> 0,
     deposit |-> 0, related |-> {}, status |-> "active", supersedes |-> {}, by |-> NoId]

AGoverning ==
    [content |-> 1, view |-> "root", tier1 |-> FALSE, tier0 |-> FALSE, status |-> "active",
     supersedes |-> NoId, by |-> NoId]

MCSeed ==
    (<<"authors", a1>> :> 1) @@ (<<"sources", s1>> :> ASource) @@ (<<"governing", g1>> :> AGoverning)

MCProposals == {s2 :> ASource, s2 :> [ASource EXCEPT !.preferred = 0]}

MCEdits ==
    {<<"governing", g1>> :> [AGoverning EXCEPT !.content = 2],
     (<<"governing", g1>> :> [AGoverning EXCEPT !.status = "superseded", !.by = g2])
       @@ (<<"governing", g2>> :> [AGoverning EXCEPT !.content = 3, !.supersedes = g1])}

(* Runs and edits of objects on the one hand, governing records and their    *)
(* releases on the other touch no path in common: they are not mixed.       *)
Apart ==
    \/ runs = 0 /\ bare = {}
    \/ \A files \in {main} \cup Range(tree) :
         /\ Under(files, "manifests") = {}
         /\ Dir(files, "governing") = Dir(Seed, "governing")

(* A process touches its own working tree alone, and what it left there is   *)
(* seen when it lands: no two of them run at once.                          *)
OneProcess ==
    Cardinality({b \in Branches : run[b].step \notin {"idle", "pushed"}}) <= 1

Symmetry == Permutations(Branches)
=============================================================================
