-------------------------- MODULE MCAuthorIdentity --------------------------
(* Instance of AuthorIdentity for TLC: two authors were registered before.   *)
EXTENDS AuthorIdentity, TLC

CONSTANTS c1, c2, p1, p2

MCExisting == {1, 2}

MCClaimable == {1}

Symmetry == Permutations(Accounts) \cup Permutations(Readers)

(* Claims and grants, or refreshes, in one behaviour: they share the ids that *)
(* register_author reserves and no row.  AuthorIdentityProofs has both.      *)
Granting == \E a \in Accounts : granted[a] # {} \/ \E x \in Claimable : claim[a][x] # "none"

Refreshing == stamps > 0 \/ \E w \in Readers : reader[w] # NoRead

OneHalf == ~(Granting /\ Refreshing)
=============================================================================
