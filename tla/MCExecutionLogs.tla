---------------------------- MODULE MCExecutionLogs ----------------------------
(* The instance TLC checks of ExecutionLogs and OutputRedaction.  The two      *)
(* share no state, so their steps are not interleaved: one of them moves while *)
(* the other is where it began.                                               *)
EXTENDS ExecutionLogs, OutputRedaction

CONSTANTS w1, w2

MCMaxEvents == w1 :> 3 @@ w2 :> 1

Words(n) == UNION {[1..k -> {"a", "b"}] : k \in 1..n}
MCChunks == Words(2)
MCSecretSets == {s \in SUBSET Words(3) : Cardinality(s) <= 2}

MCInit == LogInit /\ OutputInit

MCNext ==
    \/ LogNext /\ secrets = {} /\ printed = <<>> /\ ~finished /\ UNCHANGED outputVars
    \/ OutputNext /\ LogInit /\ UNCHANGED vars

MCSpec == MCInit /\ [][MCNext]_<<vars, outputVars>> /\ LogFairness
================================================================================
