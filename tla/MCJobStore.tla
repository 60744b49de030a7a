----------------------------- MODULE MCJobStore -----------------------------
(* Instances of JobStore for TLC.                                          *)
EXTENDS JobStore

CONSTANTS j1, j2, p1, t1

OneProject == [j \in Jobs |-> p1]
OneTarget == [j \in Jobs |-> t1]
=============================================================================
