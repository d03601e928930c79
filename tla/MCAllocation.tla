---------------------------- MODULE MCAllocation ----------------------------
(* Instance of Allocation for TLC: two attempts of one submission, one of    *)
(* another; contributors are interchangeable.                               *)
EXTENDS Allocation, TLC

CONSTANTS k1, k2, k3, s1, s2

TwoAndOne == k1 :> s1 @@ k2 :> s1 @@ k3 :> s2

Symmetry == Permutations(Contributors)
=============================================================================
