---------------------------- MODULE MCJobOutbox ----------------------------
(* Instance of JobOutbox for TLC: a publish job and another one, of which   *)
(* one is requested.                                                        *)
EXTENDS JobOutbox, FiniteSets, TLC

OneRequested == Cardinality({j \in Jobs : row[j].state # "absent"}) <= 1
=============================================================================
