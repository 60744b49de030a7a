--------------------------- MODULE MCDeployments ---------------------------
(* Instances of Deployments for TLC.                                       *)
EXTENDS Deployments, TLC

CONSTANTS c1, c2, r1, r2, g1, g2

NoStep == {}
OneStep == {<<c1, c2>>}
ReconcilerSymmetry == Permutations(Reconcilers)
=============================================================================
