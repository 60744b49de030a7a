---------------------------- MODULE MCEngineBarrier ----------------------------
(* The instance TLC checks of EngineBarrier: two attempts of one job in two    *)
(* processes, a build of another job and a query in the first.                *)
EXTENDS EngineBarrier, TLC

CONSTANTS b1, b2, b3, q1, p1, p2, j1, j2, j3

MCProcessOf == b1 :> p1 @@ b2 :> p2 @@ b3 :> p1 @@ q1 :> p1
MCJobOf == b1 :> j1 @@ b2 :> j1 @@ b3 :> j2 @@ q1 :> j3
================================================================================
