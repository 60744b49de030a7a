------------------------------ MODULE JobStore ------------------------------
(***************************************************************************)
(* The PostgreSQL control store of build execution: the runtime_job,       *)
(* runtime_attempt and runtime_project rows that storage/jobs.py and       *)
(* storage/execution_targets.py read and write, and the engine_build row   *)
(* the engine_sync_job trigger keeps beside every job.                     *)
(*                                                                         *)
(* One action is one transaction.  Fact transactions hold a schema-wide    *)
(* advisory lock from their first statement to their commit, so they never *)
(* overlap; two of them are long enough for the clock to move inside and   *)
(* are split (finish seals artifacts, recover selects and then updates).   *)
(* heartbeat is the one writer outside that lock: it holds the row locks   *)
(* of the job and its attempt, and is split too.                           *)
(*                                                                         *)
(* A lease token is unique to an attempt, so the pair (job, attempt        *)
(* number) stands for it.  The callers are arbitrary: any holder of any    *)
(* token issued so far may call any operation at any time.  A call the     *)
(* store refuses changes nothing and is not an action.                     *)
(***************************************************************************)
EXTENDS Naturals

CONSTANTS
    Jobs,         \* jobs that may be reserved
    Projects,     \* runtime_project rows
    ProjectOf,    \* the project of each job
    Targets,      \* physical target keys
    TargetOf,     \* the physical_target_key of each job, or None
    WriteJobs,    \* jobs reserved with write=True
    NeverRetry,   \* jobs reserved with retry_policy NEVER
    MaxAttempts,  \* max_attempts of every job
    Sources,      \* sealed source sets of the job's project
    None          \* SQL NULL

ASSUME ConstantsAssumption ==
    /\ ProjectOf \in [Jobs -> Projects]
    /\ TargetOf \in [Jobs -> Targets \cup {None}]
    /\ WriteJobs \subseteq Jobs
    /\ NeverRetry \subseteq Jobs
    /\ MaxAttempts \in Nat \ {0}
    /\ None \notin Jobs \cup Targets \cup Sources

VARIABLES
    \* columns of runtime_job
    status, attempt_no, current, due, error, unknown, input, claimed,
    \* columns of runtime_attempt
    state, stage, stopped, lease,
    \* engine_build.build_status and runtime_project.busy_job_id
    build, busy,
    \* open transactions
    fact, beat

jobVars == <<status, attempt_no, current, due, error, unknown, input, claimed>>
attemptVars == <<state, stage, stopped, lease>>
vars == <<jobVars, attemptVars, build, busy, fact, beat>>

Attempts == 1..MaxAttempts
JobStatus == {"ABSENT", "QUEUED", "RUNNING", "SUCCEEDED", "FAILED"}
ErrorCodes == {"NONE", "EXECUTION_OUTCOME_UNKNOWN", "LEASE_EXPIRED", "OTHER"}
AttemptState == {"ABSENT", "EXECUTING", "SUCCEEDED", "FAILED", "STOPPED",
                 "EXPIRED_UNCONFIRMED"}
BuildStatus == {"ABSENT", "QUEUED", "RUNNING", "SUCCEEDED", "FAILED",
                "OUTCOME_UNKNOWN"}
Terminal == {"SUCCEEDED", "FAILED"}
ActiveStates == {"EXECUTING", "EXPIRED_UNCONFIRMED"}

TypeOK ==
    /\ status \in [Jobs -> JobStatus]
    /\ attempt_no \in [Jobs -> 0..MaxAttempts]
    /\ current \in [Jobs -> 0..MaxAttempts]
    /\ due \in [Jobs -> BOOLEAN]
    /\ error \in [Jobs -> ErrorCodes]
    /\ unknown \in [Jobs -> BOOLEAN]
    /\ input \in [Jobs -> Sources \cup {None}]
    /\ claimed \in [Jobs -> BOOLEAN]
    /\ state \in [Jobs -> [Attempts -> AttemptState]]
    /\ stage \in [Jobs -> [Attempts -> {"PREPARING", "EXTERNAL"}]]
    /\ stopped \in [Jobs -> [Attempts -> BOOLEAN]]
    /\ lease \in [Jobs -> [Attempts -> {"LIVE", "EXPIRED"}]]
    /\ build \in [Jobs -> BuildStatus]
    /\ busy \in [Projects -> Jobs \cup {None}]
    /\ fact \in [op: {"NONE", "FINISH", "RECOVER"}, jobs: SUBSET Jobs]
    /\ beat \in [Jobs -> 0..MaxAttempts]

Init ==
    /\ status = [j \in Jobs |-> "ABSENT"]
    /\ attempt_no = [j \in Jobs |-> 0]
    /\ current = [j \in Jobs |-> 0]
    /\ due = [j \in Jobs |-> FALSE]
    /\ error = [j \in Jobs |-> "NONE"]
    /\ unknown = [j \in Jobs |-> FALSE]
    /\ input = [j \in Jobs |-> None]
    /\ claimed = [j \in Jobs |-> FALSE]
    /\ state = [j \in Jobs |-> [n \in Attempts |-> "ABSENT"]]
    /\ stage = [j \in Jobs |-> [n \in Attempts |-> "PREPARING"]]
    /\ stopped = [j \in Jobs |-> [n \in Attempts |-> FALSE]]
    /\ lease = [j \in Jobs |-> [n \in Attempts |-> "LIVE"]]
    /\ build = [j \in Jobs |-> "ABSENT"]
    /\ busy = [p \in Projects |-> None]
    /\ fact = [op |-> "NONE", jobs |-> {}]
    /\ beat = [j \in Jobs |-> 0]

-----------------------------------------------------------------------------
(* Locks and the conditions the operations share.                          *)

NoFact == [op |-> "NONE", jobs |-> {}]
FactFree == fact = NoFact

\* A heartbeat holds the rows of the job and its attempt.  A fact transaction
\* that needs them waits for it, and re-reads them once it has them.
RowFree(j) == beat[j] = 0

\* Fault: the token and its lease are taken for the whole authority.
AuthorizedByLease(j, n) == current[j] = n /\ lease[j][n] = "LIVE"

Authorized(j, n) ==
    /\ status[j] = "RUNNING"
    /\ current[j] = n
    /\ state[j][n] = "EXECUTING"
    /\ lease[j][n] = "LIVE"

\* A fact transaction may open, has the rows of j, and found n authorised.
FactOn(j) == FactFree /\ RowFree(j)
AuthorizedFact(j, n) == FactOn(j) /\ Authorized(j, n)

\* Fault: there is no projection.
PublicStatusRaw(s, code, outcomeUnknown) == s

\* engine_sync_job: the public status of a job that is now in status s.
PublicStatus(s, code, outcomeUnknown) ==
    IF code = "EXECUTION_OUTCOME_UNKNOWN" \/ outcomeUnknown
    THEN "OUTCOME_UNKNOWN" ELSE s

\* The trigger fires on the rows of S, after their columns have changed.
SyncBuilds(S) ==
    build' = [j \in Jobs |-> IF j \in S
                THEN PublicStatus(status'[j], error'[j], unknown'[j])
                ELSE build[j]]

\* Fault: an execution that is not recorded as executing is taken for stopped.
StopAssumed(j) == \A n \in Attempts : state'[j][n] # "EXECUTING"

\* _release_project, for the jobs of S, after stop_confirmed_at has changed.
StopProven(j) ==
    \A n \in Attempts : stage[j][n] = "EXTERNAL" => stopped'[j][n]

ReleaseProjects(S) ==
    busy' = [p \in Projects |->
        IF \E j \in S : busy[p] = j /\ StopProven(j) THEN None ELSE busy[p]]

\* Fault: an attempt that has ended still counts.
HasAttempts(j) == \E n \in Attempts : state[j][n] # "ABSENT"

HasActive(j) == \E n \in Attempts : state[j][n] \in ActiveStates

-----------------------------------------------------------------------------
(* The clock.                                                              *)

\* Only the lease of an executing attempt is ever read.
LeaseExpires(j, n) ==
    /\ state[j][n] = "EXECUTING"
    /\ lease[j][n] = "LIVE"
    /\ lease' = [lease EXCEPT ![j][n] = "EXPIRED"]
    /\ UNCHANGED <<jobVars, state, stage, stopped, build, busy, fact, beat>>

\* available_at of a job queued again passes.
BackoffEnds(j) ==
    /\ status[j] = "QUEUED"
    /\ ~due[j]
    /\ due' = [due EXCEPT ![j] = TRUE]
    /\ UNCHANGED <<status, attempt_no, current, error, unknown, input, claimed,
                   attemptVars, build, busy, fact, beat>>

-----------------------------------------------------------------------------
(* Jobs and attempts.                                                      *)

Reserve(j) ==
    /\ FactFree
    /\ status[j] = "ABSENT"
    /\ j \in WriteJobs => busy[ProjectOf[j]] = None
    /\ status' = [status EXCEPT ![j] = "QUEUED"]
    /\ due' = [due EXCEPT ![j] = TRUE]
    /\ build' = [build EXCEPT ![j] = "QUEUED"]
    /\ busy' = IF j \in WriteJobs
               THEN [busy EXCEPT ![ProjectOf[j]] = j] ELSE busy
    /\ UNCHANGED <<attempt_no, current, error, unknown, input, claimed,
                   attemptVars, fact, beat>>

Claim(j) ==
    /\ FactOn(j)
    /\ status[j] = "QUEUED"
    /\ due[j]
    /\ LET n == attempt_no[j] + 1
       IN  /\ state' = [state EXCEPT ![j][n] = "EXECUTING"]
           /\ attempt_no' = [attempt_no EXCEPT ![j] = n]
           /\ current' = [current EXCEPT ![j] = n]
    /\ status' = [status EXCEPT ![j] = "RUNNING"]
    /\ UNCHANGED <<due, error, unknown, input, claimed, stage, stopped, lease,
                   busy, fact, beat>>
    /\ SyncBuilds({j})

\* heartbeat reads the lease under the row locks, and renews it later.  finish
\* holds the same rows while it seals.
HeartbeatBegin(j, n) ==
    /\ RowFree(j)
    /\ ~(fact.op = "FINISH" /\ j \in fact.jobs)
    /\ Authorized(j, n)
    /\ beat' = [beat EXCEPT ![j] = n]
    /\ UNCHANGED <<jobVars, attemptVars, build, busy, fact>>

HeartbeatCommit(j) ==
    /\ ~RowFree(j)
    /\ lease' = [lease EXCEPT ![j][beat[j]] = "LIVE"]
    /\ beat' = [beat EXCEPT ![j] = 0]
    /\ UNCHANGED <<jobVars, state, stage, stopped, build, busy, fact>>

HeartbeatAbort(j) ==
    /\ ~RowFree(j)
    /\ beat' = [beat EXCEPT ![j] = 0]
    /\ UNCHANGED <<jobVars, attemptVars, build, busy, fact>>

\* phase(external=True): the durable mark set before the engine may write.
StartExternal(j, n) ==
    /\ AuthorizedFact(j, n)
    /\ stage' = [stage EXCEPT ![j][n] = "EXTERNAL"]
    /\ UNCHANGED <<jobVars, state, stopped, lease, build, busy, fact, beat>>

AttachInput(j, n, source) ==
    /\ AuthorizedFact(j, n)
    /\ input[j] \in {None, source}
    /\ input' = [input EXCEPT ![j] = source]
    /\ UNCHANGED <<status, attempt_no, current, due, error, unknown, claimed,
                   attemptVars, build, busy, fact, beat>>

-----------------------------------------------------------------------------
(* Completion.                                                             *)

\* The evidence checks of finish need a pinned input; then it seals, holding
\* the fact lock and the rows while the lease runs on.
FinishBegin(j, n) ==
    /\ AuthorizedFact(j, n)
    /\ input[j] # None
    /\ fact' = [op |-> "FINISH", jobs |-> {j}]
    /\ UNCHANGED <<jobVars, attemptVars, build, busy, beat>>

FinishCommit(j) ==
    /\ fact = [op |-> "FINISH", jobs |-> {j}]
    /\ Authorized(j, current[j])
    /\ state' = [state EXCEPT ![j][current[j]] = "SUCCEEDED"]
    /\ stopped' = [stopped EXCEPT ![j][current[j]] = TRUE]
    /\ status' = [status EXCEPT ![j] = "SUCCEEDED"]
    /\ error' = [error EXCEPT ![j] = "NONE"]
    /\ unknown' = [unknown EXCEPT ![j] = FALSE]
    /\ fact' = NoFact
    /\ SyncBuilds({j})
    /\ ReleaseProjects({j})
    /\ UNCHANGED <<attempt_no, current, due, input, claimed, stage, lease, beat>>

\* The lease was lost while sealing, or sealing raised, or the process died:
\* the open fact transaction rolls back.
FactRollback ==
    /\ ~FactFree
    /\ fact' = NoFact
    /\ UNCHANGED <<jobVars, attemptVars, build, busy, beat>>

\* fail: its callers mark the outcome unknown exactly when they cannot say that
\* the execution stopped.  A detail over its size is replaced, mark and all; only
\* reports with the code EXECUTION_OUTCOME_UNKNOWN carry that much.
Fail(j, n, code, hasStopped) ==
    /\ AuthorizedFact(j, n)
    /\ state' = [state EXCEPT ![j][n] =
                    IF hasStopped THEN "FAILED" ELSE "EXPIRED_UNCONFIRMED"]
    /\ stopped' = [stopped EXCEPT ![j][n] = hasStopped]
    /\ status' = [status EXCEPT ![j] = "FAILED"]
    /\ error' = [error EXCEPT ![j] = code]
    /\ \E marked \in BOOLEAN :
         /\ marked = ~hasStopped \/ (~marked /\ code = "EXECUTION_OUTCOME_UNKNOWN")
         /\ unknown' = [unknown EXCEPT ![j] = marked]
    /\ SyncBuilds({j})
    /\ ReleaseProjects({j})
    /\ UNCHANGED <<attempt_no, current, due, input, claimed, stage, lease,
                   fact, beat>>

\* The administrator, or a fenced executor with its own token, vouches that
\* the execution has stopped.  The public result stays as it is.
ConfirmStopped(j, n) ==
    /\ FactOn(j)
    /\ state[j][n] = "EXPIRED_UNCONFIRMED"
    /\ state' = [state EXCEPT ![j][n] = "STOPPED"]
    /\ stopped' = [stopped EXCEPT ![j][n] = TRUE]
    /\ IF status[j] \in Terminal THEN ReleaseProjects({j}) ELSE UNCHANGED busy
    /\ UNCHANGED <<jobVars, stage, lease, build, fact, beat>>

-----------------------------------------------------------------------------
(* Recovery of expired leases.                                             *)

External(j) == stage[j][current[j]] = "EXTERNAL"

\* Fault: the attempt of a job that is queued again is left as it was.
RecoveredStateKept(j) ==
    IF External(j) THEN "EXPIRED_UNCONFIRMED" ELSE state[j][current[j]]

RecoveredState(j) == IF External(j) THEN "EXPIRED_UNCONFIRMED" ELSE "STOPPED"

\* Fault: the retry decision forgets the external phase.
RetryableAnyStage(j) == attempt_no[j] < MaxAttempts /\ j \notin NeverRetry

Retryable(j) ==
    /\ attempt_no[j] < MaxAttempts
    /\ j \notin NeverRetry
    /\ ~External(j)

Expired(j) ==
    /\ status[j] \in {"QUEUED", "RUNNING"}
    /\ current[j] # 0
    /\ lease[j][current[j]] = "EXPIRED"

\* The SELECT evaluates the lease on its snapshot, before it locks a row.
RecoverSelect ==
    /\ FactFree
    /\ \E j \in Jobs : Expired(j)
    /\ fact' = [op |-> "RECOVER", jobs |-> {j \in Jobs : Expired(j)}]
    /\ UNCHANGED <<jobVars, attemptVars, build, busy, beat>>

\* SKIP LOCKED drops the rows a heartbeat holds; the others are recovered
\* without a second look at the lease.
RecoverApply ==
    /\ fact.op = "RECOVER"
    /\ LET taken == {j \in fact.jobs : RowFree(j)}
           again == {j \in taken : Retryable(j)}
           over  == taken \ again
       IN  /\ state' = [j \in Jobs |-> [n \in Attempts |->
                            IF j \in taken /\ n = current[j]
                            THEN RecoveredState(j) ELSE state[j][n]]]
           /\ stopped' = [j \in Jobs |-> [n \in Attempts |->
                            IF j \in taken /\ n = current[j]
                            THEN ~External(j) ELSE stopped[j][n]]]
           /\ status' = [j \in Jobs |-> IF j \in again THEN "QUEUED"
                                        ELSE IF j \in over THEN "FAILED"
                                        ELSE status[j]]
           /\ current' = [j \in Jobs |-> IF j \in again THEN 0 ELSE current[j]]
           /\ due' = [j \in Jobs |-> IF j \in again THEN FALSE ELSE due[j]]
           /\ error' = [j \in Jobs |-> IF j \notin over THEN error[j]
                                       ELSE IF External(j)
                                       THEN "EXECUTION_OUTCOME_UNKNOWN"
                                       ELSE "LEASE_EXPIRED"]
           /\ unknown' = [j \in Jobs |-> IF j \in over THEN External(j)
                                         ELSE unknown[j]]
           /\ SyncBuilds(taken)
           /\ ReleaseProjects(over)
    /\ fact' = NoFact
    /\ UNCHANGED <<attempt_no, input, claimed, stage, lease, beat>>

-----------------------------------------------------------------------------
(* Physical targets.                                                       *)

Owners(j) == {i \in Jobs \ {j} : TargetOf[i] = TargetOf[j] /\ claimed[i]}

\* The owners are read one by one: one that may still run refuses the claim,
\* and the safe ones read before it have already been freed.
ClaimTarget(j, n) ==
    /\ AuthorizedFact(j, n)
    /\ TargetOf[j] # None
    /\ \A i \in Owners(j) : RowFree(i)
    /\ \E freed \in SUBSET {i \in Owners(j) : ~HasActive(i)} :
         /\ (\A i \in Owners(j) : ~HasActive(i)) => freed = Owners(j)
         /\ claimed' = [i \in Jobs |-> IF i \in freed THEN FALSE
                                       ELSE IF i = j /\ freed = Owners(j) THEN TRUE
                                       ELSE claimed[i]]
    /\ UNCHANGED <<status, attempt_no, current, due, error, unknown, input,
                   attemptVars, build, busy, fact, beat>>

\* Fault: the caller's word that the execution stopped is enough.
ReleaseOnWord(j, n) ==
    /\ FactOn(j)
    /\ claimed[j]
    /\ current[j] = n
    /\ claimed' = [claimed EXCEPT ![j] = FALSE]
    /\ UNCHANGED <<status, attempt_no, current, due, error, unknown, input,
                   attemptVars, build, busy, fact, beat>>

\* release asks for durable proof that the attempt whose token it presents,
\* still the current one, has stopped.
ReleaseTarget(j, n) ==
    /\ FactOn(j)
    /\ claimed[j]
    /\ current[j] = n
    /\ state[j][n] \notin ActiveStates
    /\ stopped[j][n]
    /\ claimed' = [claimed EXCEPT ![j] = FALSE]
    /\ UNCHANGED <<status, attempt_no, current, due, error, unknown, input,
                   attemptVars, build, busy, fact, beat>>

-----------------------------------------------------------------------------

Issued(j) == 1..attempt_no[j]

Next ==
    \/ \E j \in Jobs :
         \/ Reserve(j) \/ Claim(j) \/ BackoffEnds(j)
         \/ HeartbeatCommit(j) \/ HeartbeatAbort(j) \/ FinishCommit(j)
         \/ \E n \in Issued(j) :
              \/ LeaseExpires(j, n) \/ HeartbeatBegin(j, n)
              \/ StartExternal(j, n) \/ FinishBegin(j, n)
              \/ \E source \in Sources : AttachInput(j, n, source)
              \/ \E code \in {"EXECUTION_OUTCOME_UNKNOWN", "OTHER"},
                    hasStopped \in BOOLEAN : Fail(j, n, code, hasStopped)
              \/ ConfirmStopped(j, n)
              \/ ClaimTarget(j, n) \/ ReleaseTarget(j, n)
    \/ RecoverSelect \/ RecoverApply \/ FactRollback

Spec == Init /\ [][Next]_vars

-----------------------------------------------------------------------------
(* Properties.                                                             *)

HistoryOf(j) ==
    /\ status[j] = "ABSENT" => attempt_no[j] = 0
    /\ status[j] = "QUEUED" => attempt_no[j] < MaxAttempts
    /\ IF status[j] \in {"ABSENT", "QUEUED"} THEN current[j] = 0
       ELSE current[j] = attempt_no[j] /\ current[j] # 0
    /\ \A n \in Attempts :
         /\ state[j][n] = "ABSENT" <=> n > attempt_no[j]
         /\ n # current[j] => stage[j][n] = "PREPARING"
         /\ n < attempt_no[j] => state[j][n] = "STOPPED"
         /\ status[j] = "QUEUED" => state[j][n] \in {"ABSENT", "STOPPED"}
         /\ stopped[j][n] <=> state[j][n] \in {"SUCCEEDED", "FAILED", "STOPPED"}

\* The rows of a job tell one story: attempts are numbered without a gap up to
\* the maximum; a job that waits has none that could still act, a job that runs
\* or has ended points to its last one; every earlier attempt was stopped before
\* it touched the warehouse; and the proof of a stop agrees with the state.
AttemptHistory == \A j \in Jobs : HistoryOf(j)

\* What an open transaction has read stays true until it commits: recover and
\* finish still find the jobs they selected RUNNING, no heartbeat shares a row
\* with finish, and one in flight can only renew the current attempt.
OpenTransactions ==
    /\ fact.jobs # {} <=> fact.op # "NONE"
    /\ \A j \in fact.jobs :
         status[j] = "RUNNING" /\ (fact.op = "FINISH" => beat[j] = 0)
    /\ \A j \in Jobs : beat[j] # 0 => status[j] = "RUNNING" /\ current[j] = beat[j]

\* An attempt executes exactly while its job is RUNNING with it as the current
\* attempt: two workers never both hold authority over one job, and a job
\* queued again has left nobody behind who does.
OneExecution ==
    \A j \in Jobs, n \in Attempts :
        state[j][n] = "EXECUTING" <=> status[j] = "RUNNING" /\ current[j] = n

\* Once an attempt may have written to the warehouse the job never runs again:
\* that attempt is the last one, whatever recover, fail and claim do next.
NoRerunAfterExternal ==
    \A j \in Jobs, n \in Attempts :
        stage[j][n] = "EXTERNAL" => attempt_no[j] = n /\ status[j] # "QUEUED"

\* A build whose execution may still be running is never reported as plainly
\* FAILED or SUCCEEDED, although the trigger sees only the columns of the job.
UnconfirmedIsReported ==
    \A j \in Jobs :
        (\E n \in Attempts : state[j][n] = "EXPIRED_UNCONFIRMED")
            => build[j] = "OUTCOME_UNKNOWN"

\* At most one job owns a physical target.
OneOwnerPerTarget ==
    \A i, j \in Jobs :
        i # j /\ claimed[i] /\ claimed[j] => TargetOf[i] # TargetOf[j]

\* The busy pointer of a project stays on a write job until the job is over and
\* all of its external executions are known to have stopped.
BusyUntilStopProven ==
    \A j \in WriteJobs :
        \/ status[j] \in {"QUEUED", "RUNNING"}
        \/ \E n \in Attempts : stage[j][n] = "EXTERNAL" /\ ~stopped[j][n]
        => busy[ProjectOf[j]] = j

\* What the store shows and knows of each build, without rows and leases.
Ledger == [j \in Jobs |->
    [status |-> build[j], tries |-> attempt_no[j], open |-> HasActive(j),
     written |-> \E n \in Attempts : stage[j][n] = "EXTERNAL", source |-> input[j]]]

Lifecycle == INSTANCE BuildLifecycle
             WITH Builds <- Jobs, MaxTries <- MaxAttempts, ledger <- Ledger

\* Whatever lease holders, recovery and the administrator do, and in whichever
\* order, a build goes through the lifecycle a client may rely on: tried again
\* only while nothing may have been written, one verdict, no verdict but
\* OUTCOME_UNKNOWN while an execution may go on.
ImplementsLifecycle == Lifecycle!LifecycleSpec

KeepsTargets == \A j \in Jobs : claimed[j] /\ HasActive(j) => claimed'[j]

\* No step takes a target away from a job that has an executing or unconfirmed
\* attempt: neither another job's claim nor a late release by an old attempt.
TargetNotStolen == [][KeepsTargets]_vars

KeepsResults ==
    \A j \in Jobs :
        status[j] \in Terminal => UNCHANGED <<status[j], error[j], build[j], input[j]>>

\* A public result is final, also when the worker that lost its lease, or lost
\* the answer to its commit, reports a second outcome.
ResultsAreFinal == [][KeepsResults]_vars

KeepsLostAttempts ==
    \A j \in Jobs, n \in Attempts :
        state[j][n] \notin {"ABSENT", "EXECUTING"} =>
            /\ UNCHANGED stage[j][n]
            /\ stopped[j][n] => stopped'[j][n]
            /\ \/ UNCHANGED state[j][n]
               \/ state[j][n] = "EXPIRED_UNCONFIRMED" /\ state'[j][n] = "STOPPED"

\* An attempt that lost its authority is frozen: only the confirmation that it
\* has stopped may still be added to it.
LostAttemptsAreFrozen == [][KeepsLostAttempts]_vars

\* storage/jobs.py:575 says that recovery handles expired leases only and never
\* interrupts the RUNNING job of a healthy instance.
RecoverySparesLiveLeases ==
    [][fact.op = "RECOVER" =>
         \A j \in Jobs, n \in Attempts :
            state[j][n] = "EXECUTING" /\ lease[j][n] = "LIVE"
                => state'[j][n] = "EXECUTING"]_vars
=============================================================================
