--------------------------- MODULE IssuedNumbers ---------------------------
(***************************************************************************)
(* What identifier allocation promises, "the same operation key always      *)
(* returns the same value" and "a reserved value is never reused" (the       *)
(* contract of docs/IDENTIFIERS.md that registry_bridge/allocation.py       *)
(* implements): an operation is issued a number once, above every number    *)
(* issued before, and keeps it.  Allocation is shown to implement it.       *)
(***************************************************************************)
EXTENDS Naturals

CONSTANTS
    Operations,
    Numbers     \* what can be issued; 0 stands for none

VARIABLE issued \* issued[o]: the number of operation o

Init == issued = [o \in Operations |-> 0]

Issue(o) ==
    /\ issued[o] = 0
    /\ \E n \in Numbers :
         /\ \A p \in Operations : issued[p] < n
         /\ issued' = [issued EXCEPT ![o] = n]

Next == \E o \in Operations : Issue(o)

Spec == Init /\ [][Next]_issued

=============================================================================
