---------------------------- MODULE MCArtifacts ----------------------------
(* Instances of Artifacts for TLC: builds, each in a project of its own.   *)
EXTENDS Artifacts

NoTarget == [j \in Jobs |-> None]
OwnProject == [j \in Jobs |-> j]
=============================================================================
