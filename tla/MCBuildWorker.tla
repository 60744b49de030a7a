--------------------------- MODULE MCBuildWorker ---------------------------
(* Instances of BuildWorker for TLC.                                       *)
EXTENDS BuildWorker, TLC

CONSTANTS j1, j2, p1, t1, i1, i2, w1, w2

OneProject == [j \in Jobs |-> p1]
OneTarget == [j \in Jobs |-> t1]
OneSlotEach == w1 :> i1 @@ w2 :> i2
OneHost == [s \in Slots |-> i1]
HostSymmetry == Permutations(Jobs)
    \cup {p @@ q : p \in {w1 :> w2 @@ w2 :> w1}, q \in {i1 :> i2 @@ i2 :> i1}}

\* Bounds: at most two executions of all jobs, three with the crashes and
\* shutdowns.  A third execution in processes that live on, and a second crash or
\* shutdown after two executions, are followed while an execution that nobody can
\* account for is writing.
FewExecutions ==
    LET executions == attempt_no[j1] + attempt_no[j2]
    IN  \/ executions <= 2 /\ executions + restarts <= 3
        \/ /\ executions <= 2 \/ (executions = 3 /\ restarts = 0)
           /\ \E j \in Jobs, n \in Attempts :
                 Writing(j, n) /\ state[j][n] = "EXPIRED_UNCONFIRMED"
=============================================================================
