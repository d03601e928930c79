------------------------ MODULE MCSubmissionWorkflow ------------------------
(* Symmetry of SubmissionWorkflow, and the two halves of its instance for    *)
(* TLC: what happens to a state, and what happens to a draft.               *)
EXTENDS SubmissionWorkflow, TLC

Symmetry ==
    Permutations(Tabs) \cup Permutations(Reviewers) \cup Permutations(Uploads)
      \cup Permutations(Standing) \cup Permutations(Conditions \ Standing)

Untouched(s) == prep[s].step = "none"

(* States, review cases and evaluations: one tab, no edit, no upload; and     *)
(* after a fault two reviewers at a time only on the first revision.         *)
AboutStates ==
    /\ \E t \in Tabs : \A u \in Tabs \ {t} : page[u] = NoPage /\ request[u] = Idle
    /\ edits = 0 /\ \A s \in Uploads : Untouched(s)
    /\ \A t \in Tabs : request[t].source = "none"
    /\ \/ faults = 0 \/ Len(revision) <= 1
       \/ \E v \in Reviewers : \A u \in Reviewers \ {v} : review[u] = NoReview

(* Drafts and versions: one job at a time, no reference, no review, no fault. *)
AboutDrafts ==
    /\ \A s \in References : Untouched(s)
    /\ \A r \in DOMAIN revision :
          revision[r].triggers = {} /\ \A c \in Conditions : revision[r].cases[c] = "none"
    /\ \A k \in DOMAIN evaluation :
          /\ evaluation[k].decision # "ACCEPTED"
          /\ evaluation[k].publication \in {"none", "pending"}
          /\ k > 1 => evaluation[k].step = "queued"
    /\ faults = 0
    /\ Cardinality({s \in Sources : prep[s].step \in {"reading", "writing"}})
         + Cardinality({k \in DOMAIN evaluation : evaluation[k].step \in {"fetching", "engine"}}) <= 1

OneHalf == AboutStates \/ AboutDrafts
=============================================================================
