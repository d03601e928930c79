--------------------------- MODULE MCPublication ---------------------------
(* Instance of Publication for TLC.                                         *)
EXTENDS Publication, TLC
=============================================================================
