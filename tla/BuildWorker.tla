---------------------------- MODULE BuildWorker ----------------------------
(***************************************************************************)
(* The build workers (workers/build.py, execution/build.py and the thread  *)
(* barriers of execution/embedded.py and execution/threads.py) driving the *)
(* control store of JobStore, together with what the store cannot see: the *)
(* dbt engine writing to the warehouse, SQL that runs on there without its *)
(* engine, and the administrator.                                          *)
(*                                                                         *)
(* A service process (Instances) runs some worker slots and one engine at  *)
(* a time.  A slot carries one leased attempt from claim to release; pc    *)
(* names the await it is at:                                               *)
(*   idle, source, target, lock, authorized, engine, publish, finish       *)
(*   then the report of a failure, by the exception that led there:        *)
(*   failed        ExecutionError, execution known to have stopped         *)
(*   undetermined  ExecutionError, not known to have stopped               *)
(*   broken        any other exception                                     *)
(*   cancelled     CancelledError, the execution task has been awaited     *)
(*   and release (the finally block), stopped (the slot task has ended).   *)
(***************************************************************************)
EXTENDS JobStore

CONSTANTS
    Instances,     \* service processes
    Slots,         \* worker slots of all processes
    InstanceOf,    \* the process of each slot
    MaxRestarts    \* bound: crashes and shutdowns in a behaviour

ASSUME WorkerAssumption ==
    /\ InstanceOf \in [Slots -> Instances]
    /\ MaxRestarts \in Nat

VARIABLES
    pc, held,      \* where a slot is, and the attempt <<job, number>> it serves
    cancel,        \* the slot's execution has been asked to stop
    finisher,      \* the finish call of a slot: none, pending or open (sealing)
    stopping,      \* the process is closing
    orphans,       \* attempts whose SQL runs on although their engine is gone
    restarts

slotVars == <<pc, held, cancel, finisher>>
hostVars == <<stopping, orphans, restarts>>
workerVars == <<slotVars, hostVars>>
allVars == <<vars, workerVars>>

Executing == {"source", "target", "lock", "authorized", "engine", "publish"}
Reporting == {"failed", "undetermined", "broken", "cancelled"}
Location == Executing \cup Reporting \cup {"idle", "finish", "release", "stopped"}
NoAttempt == <<None, 0>>

WorkerTypeOK ==
    /\ pc \in [Slots -> Location]
    /\ held \in [Slots -> (Jobs \X Attempts) \cup {NoAttempt}]
    /\ cancel \in [Slots -> BOOLEAN]
    /\ finisher \in [Slots -> {"none", "pending", "open"}]
    /\ stopping \in [Instances -> BOOLEAN]
    /\ orphans \subseteq Jobs \X Attempts
    /\ restarts \in 0..MaxRestarts
    /\ \A s \in Slots :
         pc[s] \notin {"idle", "stopped"} \/ finisher[s] # "none" => held[s] # NoAttempt

WorkerInit ==
    /\ Init
    /\ pc = [s \in Slots |-> "idle"]
    /\ held = [s \in Slots |-> NoAttempt]
    /\ cancel = [s \in Slots |-> FALSE]
    /\ finisher = [s \in Slots |-> "none"]
    /\ stopping = [i \in Instances |-> FALSE]
    /\ orphans = {}
    /\ restarts = 0

J(s) == held[s][1]
N(s) == held[s][2]

Go(s, place) == pc' = [pc EXCEPT ![s] = place]

\* Only pc of slot s moves.
Moves(s, place) ==
    /\ Go(s, place)
    /\ UNCHANGED <<held, cancel, finisher, hostVars>>

\* A fact transaction of s that its lease does not authorise.
Refused(s) == FactOn(J(s)) /\ ~Authorized(J(s), N(s))

SlotsOf(i) == {s \in Slots : InstanceOf[s] = i}

\* ENGINE_LOCK: held from before the authorisation until the engine thread exits.
EngineFree(i) == \A s \in SlotsOf(i) : pc[s] \notin {"authorized", "engine"}

-----------------------------------------------------------------------------
(* _slot: claim one job.                                                   *)

\* Fault: the slot counts the attempt once more than the store.
ClaimJobNext(s, j) ==
    /\ pc[s] = "idle"
    /\ ~stopping[InstanceOf[s]]
    /\ Claim(j)
    /\ Go(s, "source")
    /\ held' = [held EXCEPT ![s] = <<j, attempt_no[j] + 2>>]
    /\ UNCHANGED <<cancel, finisher, hostVars>>

ClaimJob(s, j) ==
    /\ pc[s] = "idle"
    /\ ~stopping[InstanceOf[s]]
    /\ Claim(j)
    /\ Go(s, "source")
    /\ held' = [held EXCEPT ![s] = <<j, attempt_no[j] + 1>>]
    /\ UNCHANGED <<cancel, finisher, hostVars>>

\* The claim committed, and the slot never heard of it: a lost answer, or the
\* slot was cancelled while the thread ran on.
ClaimLost(s, j) ==
    /\ pc[s] \in {"idle", "stopped"}
    /\ Claim(j)
    /\ UNCHANGED workerVars

-----------------------------------------------------------------------------
(* BuildExecutor._build.                                                   *)

\* _prepare_build_source: an input fixed by an earlier attempt is reused.
SourceReady(s) ==
    /\ pc[s] = "source"
    /\ \/ input[J(s)] # None /\ UNCHANGED vars
       \/ \E source \in Sources : AttachInput(J(s), N(s), source)
    /\ Moves(s, "target")

\* attach_input is refused, or the source cannot be fetched or read.
SourceFails(s) ==
    /\ pc[s] = "source"
    /\ Moves(s, "failed")
    /\ UNCHANGED vars

\* The claim loop stays at target while another owner may still run; a job
\* without a physical target passes.
TargetClaimed(s) ==
    /\ pc[s] = "target"
    /\ \/ /\ ClaimTarget(J(s), N(s))
          /\ Moves(s, IF claimed'[J(s)] THEN "lock" ELSE "target")
       \/ /\ TargetOf[J(s)] = None
          /\ AuthorizedFact(J(s), N(s))
          /\ Moves(s, "lock")
          /\ UNCHANGED vars

TargetLeaseLost(s) ==
    /\ pc[s] = "target"
    /\ Refused(s)
    /\ Moves(s, "failed")
    /\ UNCHANGED vars

\* run_serialized takes the process lock, and only then marks the attempt
\* EXTERNAL and so checks the lease again.
AuthorizeEngine(s) ==
    /\ pc[s] = "lock"
    /\ EngineFree(InstanceOf[s])
    /\ StartExternal(J(s), N(s))
    /\ Moves(s, "authorized")

AuthorizeRefused(s) ==
    /\ pc[s] = "lock"
    /\ EngineFree(InstanceOf[s])
    /\ Refused(s)
    /\ Moves(s, "undetermined")
    /\ UNCHANGED vars

StartEngine(s) ==
    /\ pc[s] = "authorized"
    /\ ~cancel[s]
    /\ Moves(s, "engine")
    /\ UNCHANGED vars

\* The engine thread exits, and a cancelled caller sees it only now.  Here dbt
\* has answered: it succeeded, or it failed and says so (exit 1); either way it
\* has waited for all of its statements.
EngineAnswers(s) ==
    /\ pc[s] = "engine"
    /\ \E outcome \in {"publish", "failed"} :
          Moves(s, IF cancel[s] THEN "cancelled" ELSE outcome)
    /\ UNCHANGED vars

\* dbt, or what runs around it, has raised: a lost connection does not prove
\* that the warehouse has stopped, so that statements may run on.  If closing
\* the log raises as well, the slot sees that exception instead.
EngineRaises(s) ==
    /\ pc[s] = "engine"
    /\ \E outcome \in {"undetermined", "broken"} :
          Go(s, IF cancel[s] THEN "cancelled" ELSE outcome)
    /\ \E left \in SUBSET {held[s]} : orphans' = orphans \cup left
    /\ UNCHANGED <<held, cancel, finisher, stopping, restarts, vars>>

\* The output is captured, and the slot calls finish in a thread.
Publish(s) ==
    /\ pc[s] = "publish"
    /\ ~cancel[s]
    /\ Go(s, "finish")
    /\ finisher' = [finisher EXCEPT ![s] = "pending"]
    /\ UNCHANGED <<held, cancel, hostVars, vars>>

\* Any step of the executor may raise what _execute catches as Exception: an
\* output too large, a workspace that cannot be made, a database error whose
\* transaction may or may not have committed.
ExecutionBreaks(s) ==
    /\ pc[s] \in Executing \ {"engine"}
    /\ \/ UNCHANGED vars
       \/ pc[s] = "lock" /\ EngineFree(InstanceOf[s]) /\ StartExternal(J(s), N(s))
    /\ Moves(s, "broken")

-----------------------------------------------------------------------------
(* finish, in its thread.  close may cancel the slot while the thread runs *)
(* on; the slot then leaves "finish" and the thread finds out by itself.   *)

AfterFinish(s, place) ==
    /\ finisher' = [finisher EXCEPT ![s] = "none"]
    /\ IF pc[s] = "finish" THEN Go(s, place) ELSE UNCHANGED pc
    /\ UNCHANGED <<held, cancel, hostVars>>

FinishOpens(s) ==
    /\ finisher[s] = "pending"
    /\ FinishBegin(J(s), N(s))
    /\ finisher' = [finisher EXCEPT ![s] = "open"]
    /\ UNCHANGED <<pc, held, cancel, hostVars>>

FinishRefused(s) ==
    /\ finisher[s] = "pending"
    /\ Refused(s)
    /\ AfterFinish(s, "release")
    /\ UNCHANGED vars

FinishCommits(s) ==
    /\ finisher[s] = "open"
    /\ FinishCommit(J(s))
    /\ \E place \in {"release", "broken"} : AfterFinish(s, place)

\* The lease ran out while sealing (finish answers False), or finish raised.
FinishRollsBack(s) ==
    /\ finisher[s] = "open"
    /\ FactRollback
    /\ \/ ~Authorized(J(s), N(s)) /\ AfterFinish(s, "release")
       \/ AfterFinish(s, "broken")

-----------------------------------------------------------------------------
(* The except and finally blocks of _execute.                              *)

\* gather(execution) has returned: no thread of this attempt runs any more in
\* this process, except perhaps a finish call.
Cancelled(s) ==
    /\ cancel[s]
    /\ pc[s] \in (Executing \ {"engine"}) \cup {"finish"}
    /\ Moves(s, "cancelled")
    /\ UNCHANGED vars

Prepared(s) == stage[J(s)][N(s)] = "PREPARING"

\* Fault: once its thread has exited, the execution is taken for stopped.
ReportStopped(s) ==
    /\ \/ pc[s] \in {"failed", "broken"} /\ Fail(J(s), N(s), "OTHER", TRUE)
       \/ pc[s] \in {"undetermined", "cancelled"}
          /\ Fail(J(s), N(s), "EXECUTION_OUTCOME_UNKNOWN", TRUE)
    /\ Moves(s, "release")

\* The report says stopped where dbt has answered, or where the attempt never
\* came to be marked EXTERNAL.
Report(s) ==
    /\ \/ pc[s] = "failed" /\ Fail(J(s), N(s), "OTHER", TRUE)
       \/ pc[s] = "undetermined"
          /\ Fail(J(s), N(s), "EXECUTION_OUTCOME_UNKNOWN", FALSE)
       \/ pc[s] = "broken" /\ Fail(J(s), N(s), "OTHER", Prepared(s))
       \/ pc[s] = "cancelled"
          /\ Fail(J(s), N(s), "EXECUTION_OUTCOME_UNKNOWN", Prepared(s))
    /\ Moves(s, "release")

\* fail was refused, or the database could not be reached.
ReportLost(s) ==
    /\ pc[s] \in Reporting
    /\ Moves(s, "release")
    /\ UNCHANGED vars

\* Nothing is done when the store finds no proof that the attempt stopped.
Release(s) ==
    /\ pc[s] = "release"
    /\ ReleaseTarget(J(s), N(s)) \/ UNCHANGED vars
    /\ Go(s, IF stopping[InstanceOf[s]] THEN "stopped" ELSE "idle")
    /\ IF finisher[s] = "none"
       THEN held' = [held EXCEPT ![s] = NoAttempt] ELSE UNCHANGED held
    /\ cancel' = [cancel EXCEPT ![s] = FALSE]
    /\ UNCHANGED <<finisher, hostVars>>

-----------------------------------------------------------------------------
(* _heartbeat, _maintain, close, and the death of a process.               *)

\* The loop looks at the execution before it sleeps, so that one more heartbeat
\* may follow its end.
HeartbeatSent(s) ==
    /\ pc[s] \notin {"idle", "stopped"}
    /\ HeartbeatBegin(J(s), N(s))
    /\ UNCHANGED workerVars

HeartbeatDone(j) ==
    /\ HeartbeatCommit(j) \/ HeartbeatAbort(j)
    /\ UNCHANGED workerVars

\* The store refused the heartbeat, or could not be reached for half a lease.
HeartbeatCancels(s) ==
    /\ pc[s] \in Executing
    /\ ~cancel[s]
    /\ cancel' = [cancel EXCEPT ![s] = TRUE]
    /\ UNCHANGED <<pc, held, finisher, hostVars, vars>>

\* Any process that is not closing recovers expired leases.
Maintain ==
    /\ \E i \in Instances : ~stopping[i]
    /\ RecoverSelect \/ RecoverApply \/ (fact.op = "RECOVER" /\ FactRollback)
    /\ UNCHANGED workerVars

Close(i) ==
    /\ ~stopping[i]
    /\ restarts < MaxRestarts
    /\ restarts' = restarts + 1
    /\ stopping' = [stopping EXCEPT ![i] = TRUE]
    /\ cancel' = [s \in Slots |->
                    \/ cancel[s]
                    \/ /\ s \in SlotsOf(i)
                       /\ pc[s] \in Executing \cup {"finish"}]
    /\ pc' = [s \in Slots |-> IF s \in SlotsOf(i) /\ pc[s] = "idle"
                              THEN "stopped" ELSE pc[s]]
    /\ UNCHANGED <<held, finisher, orphans, vars>>

Restart(i) ==
    /\ stopping[i]
    /\ \A s \in SlotsOf(i) : pc[s] = "stopped" /\ finisher[s] = "none"
    /\ stopping' = [stopping EXCEPT ![i] = FALSE]
    /\ pc' = [s \in Slots |-> IF s \in SlotsOf(i) THEN "idle" ELSE pc[s]]
    /\ held' = [s \in Slots |-> IF s \in SlotsOf(i) THEN NoAttempt ELSE held[s]]
    /\ UNCHANGED <<cancel, finisher, orphans, restarts, vars>>

\* The process dies and a new one takes its place.  Statements dbt has sent
\* may run on in the warehouse; an open transaction rolls back, unless its
\* commit was already on the way.
Crash(i) ==
    /\ restarts < MaxRestarts
    /\ restarts' = restarts + 1
    /\ orphans' = orphans \cup {held[s] : s \in {t \in SlotsOf(i) : pc[t] = "engine"}}
    /\ pc' = [s \in Slots |-> IF s \in SlotsOf(i) THEN "idle" ELSE pc[s]]
    /\ held' = [s \in Slots |-> IF s \in SlotsOf(i) THEN NoAttempt ELSE held[s]]
    /\ cancel' = [s \in Slots |-> cancel[s] /\ s \notin SlotsOf(i)]
    /\ finisher' = [s \in Slots |-> IF s \in SlotsOf(i) THEN "none" ELSE finisher[s]]
    /\ stopping' = [stopping EXCEPT ![i] = FALSE]
    /\ IF \E s \in SlotsOf(i) : finisher[s] = "open"
       THEN FactRollback \/ (\E s \in SlotsOf(i) :
                                finisher[s] = "open" /\ FinishCommit(J(s)))
       ELSE UNCHANGED vars

-----------------------------------------------------------------------------
(* The callers of the API, the warehouse and the administrator.            *)

Submit(j) == Reserve(j) /\ UNCHANGED workerVars

Clock ==
    /\ \E j \in Jobs : BackoffEnds(j) \/ \E n \in Issued(j) : LeaseExpires(j, n)
    /\ UNCHANGED workerVars

OrphanEnds(a) ==
    /\ a \in orphans
    /\ orphans' = orphans \ {a}
    /\ UNCHANGED <<slotVars, stopping, restarts, vars>>

\* SQL of the attempt may be running in the warehouse: under its engine, or on
\* its own after the engine raised or its process died.
Writing(j, n) ==
    \/ <<j, n>> \in orphans
    \/ \E s \in Slots : held[s] = <<j, n>> /\ pc[s] = "engine"

\* reconcile-attempt: an operator vouches that the execution has ended; no
\* process is left that could still start or continue it.
Reconcile(j, n) ==
    /\ ~Writing(j, n)
    /\ \A s \in Slots : held[s] = <<j, n>> => pc[s] # "authorized"
    /\ ConfirmStopped(j, n)
    /\ UNCHANGED workerVars

-----------------------------------------------------------------------------

SlotStep(s) ==
    \/ SourceReady(s) \/ SourceFails(s) \/ TargetClaimed(s) \/ TargetLeaseLost(s)
    \/ AuthorizeEngine(s) \/ AuthorizeRefused(s) \/ StartEngine(s)
    \/ EngineAnswers(s) \/ EngineRaises(s) \/ Publish(s)
    \/ FinishOpens(s) \/ FinishRefused(s) \/ FinishCommits(s) \/ FinishRollsBack(s)
    \/ Cancelled(s) \/ Report(s) \/ ReportLost(s) \/ Release(s)

WorkerNext ==
    \/ \E j \in Jobs : Submit(j) \/ HeartbeatDone(j)
    \/ \E s \in Slots, j \in Jobs : ClaimJob(s, j) \/ ClaimLost(s, j)
    \/ \E s \in Slots : SlotStep(s)
    \/ \E s \in Slots : ExecutionBreaks(s) \/ HeartbeatSent(s) \/ HeartbeatCancels(s)
    \/ Maintain \/ Clock
    \/ \E i \in Instances : Close(i) \/ Restart(i) \/ Crash(i)
    \/ \E j \in Jobs, n \in Attempts : OrphanEnds(<<j, n>>) \/ Reconcile(j, n)

WorkerSpec == WorkerInit /\ [][WorkerNext]_allVars

\* Nobody renews the lease of an attempt no slot serves.
Served(j, n) == \E s \in Slots : held[s] = <<j, n>> /\ pc[s] \notin {"idle", "stopped"}

AbandonedLeaseExpires(j, n) ==
    /\ ~Served(j, n)
    /\ LeaseExpires(j, n)
    /\ UNCHANGED workerVars

\* Slots are scheduled, polls come around, statements in the warehouse end, a
\* closed process is started again, and the administrator settles what the
\* service cannot.  A slot that waits for a row or for ENGINE_LOCK gets it in
\* the end although others take it in between, and recovery does not fail for
\* ever; the rest needs no more than weak fairness.
Fairness ==
    /\ \A s \in Slots : SF_allVars(SlotStep(s))
    /\ SF_allVars(RecoverApply /\ UNCHANGED workerVars)
    /\ WF_allVars(\E s \in Slots, j \in Jobs : ClaimJob(s, j))
    /\ \A j \in Jobs : WF_allVars(HeartbeatDone(j))
    /\ WF_allVars(Maintain)
    /\ WF_allVars(\E j \in Jobs : BackoffEnds(j) /\ UNCHANGED workerVars)
    /\ WF_allVars(\E j \in Jobs, n \in Attempts : AbandonedLeaseExpires(j, n))
    /\ WF_allVars(\E j \in Jobs, n \in Attempts : OrphanEnds(<<j, n>>))
    /\ WF_allVars(\E j \in Jobs, n \in Attempts : Reconcile(j, n))
    /\ WF_allVars(\E i \in Instances : Restart(i))

\* Stalls come to an end: from some time on a slot renews its lease in time.
Punctual ==
    <>[][\A j \in Jobs, n \in Attempts :
            Served(j, n) /\ lease[j][n] = "LIVE" => lease'[j][n] = "LIVE"]_allVars

FairWorkerSpec == WorkerSpec /\ Fairness /\ Punctual

-----------------------------------------------------------------------------
(* Properties.                                                             *)

\* Two builds never write to the same physical target at the same time, also
\* when a worker stalls past its lease, a process dies in the middle of a
\* build, the engine raises and its SQL runs on, or the waiting build is
\* retried meanwhile.
NoOverlappingWrites ==
    \A i \in Jobs, m \in Attempts : Writing(i, m) /\ TargetOf[i] # None =>
        \A j \in Jobs, n \in Attempts :
            Writing(j, n) /\ TargetOf[j] = TargetOf[i] => j = i /\ n = m

\* The proof of a stop the store keeps is true: no attempt recorded as stopped,
\* by its worker, by recovery or by the administrator, is writing.  A worker is
\* there when its engine exits, and still does not know whether the SQL ended.
StopEvidenceIsTrue ==
    \A j \in Jobs, n \in Attempts : stopped[j][n] => ~Writing(j, n)

\* Whatever is being written, the public status of its build is not a final
\* verdict: RUNNING, or OUTCOME_UNKNOWN; this is so after the worker's report of
\* a cancelled, broken or undetermined execution too.
WritesAreVisible ==
    \A j \in Jobs, n \in Attempts :
        Writing(j, n) => build[j] \in {"RUNNING", "OUTCOME_UNKNOWN"}

\* Every accepted build ends, through lost workers, failed reports, retries and
\* targets that are held by an execution nobody can account for.
EveryBuildEnds ==
    \A j \in Jobs : status[j] = "QUEUED" ~> status[j] \in Terminal

\* 2026-09-30-postgresql-stateless-service-design.md:243-245 keep the code
\* EXECUTION_OUTCOME_UNKNOWN for executions that had started; a task that had
\* not started external execution may be retried.
UnknownOutcomeMeansStarted ==
    \A j \in Jobs :
        build[j] = "OUTCOME_UNKNOWN" => \E n \in Attempts : stage[j][n] = "EXTERNAL"
=============================================================================
