# TLA+ models of the dbt/MetricFlow service

These modules model the part of `dbt_metricflow_service` that is hard to get
right by testing: the durable build queue in PostgreSQL, the acceptance of builds
into it, the workers that drive it, the threads in which they run dbt, the
artifacts and logs they leave in the same database, the deployment of finished
builds, and the queries that read them. Several service processes share one
database and one warehouse and nothing else, any of them can stall, lose its
connection, shut down or die at any step, and what it has sent to the warehouse
may go on without it. TLC checks the models on small instances; TLAPS proves
the safety properties of the store, its workers, acceptance, deployments, artifacts,
engine calls and logs for every value of the constants, and that store and deployments
implement the abstract specifications of what they promise.

Paths below are relative to `src/dbt_metricflow_service/` of the repository.

## Inventory

| Component | Keeps | Operations | Meets | What makes it correct |
|---|---|---|---|---|
| Build job store: `storage/jobs.py`, `storage/execution_targets.py`, `storage/schema.sql` | rows `runtime_job`, `runtime_attempt`, `runtime_project`, public status in `engine_build` | reserve, claim, heartbeat, phase, attach_input, finish, fail, recover, confirm_stopped, target claim and release | workers, administrator, acceptance | one execution per job, no rerun of what may have written, a target is never taken from an execution that may still write, public results are final and honest |
| Build workers: `workers/build.py`, `execution/build.py`, `execution/embedded.py`, `execution/threads.py` | slots and tasks of a process, `ENGINE_LOCK` | claim loop, source preparation, target wait, engine, publication, failure reports, heartbeat, maintenance, close | job store, warehouse, artifact store, deployments | no two builds write to one target at once; recorded stops are true; every build ends |
| Deployments: `storage/deployments.py`, `application/deployments.py` | `engine_deployment_target`, `engine_deployment_attempt` | accept intent, observe branch, settle, reconcile, poll | builds, Git remote, maintenance loops, HTTP polls | newest intent wins, pointer never goes back, no decision on an overtaken reading, finished intents are settled |
| Build acceptance: `storage/builds.py`, `application/builds.py` | `engine_build` | accept, pin_source, list | HTTP, job store, deployments | idempotent; one environment per target; one snapshot per version |
| Artifact store: `storage/artifacts.py`, `platform/manifest_capture.py` | artifact sets and files | capture, seal, materialize, read, delete_unreferenced | workers, finish, gc | a pinned source and a published output stay as they are; nothing is published without its build; leftovers are collected |
| Execution logs: `execution/log_writer.py`, `storage/execution_logs.py` | a bounded queue; log rows | emit, close, append, list | engine thread, HTTP | close ends; a reader misses nothing it could have seen |
| Redaction: `execution/output.py` | tail buffer | feed, finish, decode | engine thread | no secret survives, wherever the chunks are cut |
| Attempt workspaces: `execution/workspace.py` | directories | make, remove | workers, queries | an attempt's directory is never removed under it |
| Engine environment: `execution/embedded.py`, `execution/dbt.py` | process environment, flags, loggers | enter, leave | engine calls of builds and queries | everything is restored |
| Queries: `application/query*.py`, `application/bound_query_plan.py`, `execution/query.py`, `engines/` | nothing durable | plan, compile, merge, execute | sealed builds, engine lock | each metric is grouped along the path the client chose for it; merging loses no row |
| Paging: `storage/paging.py` and the keyset queries of the stores | cursors, at the client | encode, decode, list | HTTP | a listing misses nothing that was there |
| Catalog, HTTP, settings, models, adapters, schema installation | nothing that changes | | | |
| Administration: `admin.py` | nothing | init-db, build, reconcile-attempt, gc | all stores | gc and confirmation respect the rules above |

Hard behaviour, component by component, is listed with its line under
`hazards` in `PROJECT.json`. The most important ones:

* a lease can run out at any await, so a worker acts on authority it has lost;
* `finish` and `recover` are long transactions between two looks at the clock,
  and `heartbeat` is the one writer outside the schema-wide fact lock;
* a dead process, or an engine that raised, leaves SQL running in the warehouse;
* public status is a projection by trigger from an error code and a marker in a
  size-limited detail;
* Git is read outside any transaction, by any number of observers;
* requests are repeated, at instances whose settings differ;
* a cancelled coroutine has a thread that goes on, with the process environment,
  a directory and a log writer of its own;
* log rows are numbered before they are committed, by several writers.

## Modules

| Module | Models |
|---|---|
| `BuildLifecycle` | abstract: what a client sees of each build |
| `JobStore` | the control store; one action per transaction, callers arbitrary |
| `JobStoreProofs` | its inductive invariant and theorems; it implements `BuildLifecycle` |
| `BuildWorker` | EXTENDS JobStore: workers, engine, warehouse, administrator, clock, crash |
| `BuildWorkerProofs` | the workers implement the store; what they write is guarded |
| `EngineBarrier` | the engine calls of the processes of a host: tasks, threads, lock, environment, directories |
| `EngineProofs` | the inductive invariants and theorems of `EngineBarrier` and `OutputRedaction` |
| `ExecutionLogs` | the log of a build: bounded queues, their threads, the table, the readers |
| `ExecutionLogsProofs` | its inductive invariant and theorems |
| `OutputRedaction` | the redaction of what an engine prints, in chunks and as events |
| `DeploymentPointer` | abstract: intents and the pointer of one target |
| `PromiseProofs` | theorems of the two abstract specifications |
| `Deployments` | one deployment target, its intents, observers and the remote branch |
| `DeploymentsProofs` | its inductive invariant and theorems; it implements `DeploymentPointer` |
| `BuildAcceptance` | requests, the rows they become, the commit a build is pinned to, the history |
| `QueryPlans` | a metric query: options, plan, compilation, merge |
| `RequestsProofs` | the inductive invariants and theorems of `BuildAcceptance` and `QueryPlans` |
| `Artifacts` | EXTENDS JobStore: sets of artifacts, their capture, attachment and seal, and garbage collection |
| `ArtifactsProofs` | its inductive invariant and theorems; Artifacts implements the store |
| `MCJobStore`, `MCBuildWorker`, `MCDeployments`, `MCArtifacts`, `MCEngineBarrier` | constant values and symmetry for TLC |
| `MCRequests` | instance of `BuildAcceptance` and `QueryPlans` |
| `MCExecutionLogs` | instance of `ExecutionLogs` and `OutputRedaction` |

`MCRequests` and `MCExecutionLogs` put two models that share no state into one run. Their
steps are not interleaved: the one moves while the other is in its initial state.

Definitions that begin their comment with "Fault:" are plausible bugs (a dropped
guard, a wrong field, a lock taken too late). Nothing uses them; each property is
known to fail when the definition after the fault is replaced by it, as listed
under `mutants` in `PROJECT.json`.

### BuildLifecycle

A ledger with one entry for each build: the public status, the number of executions, whether
one may still be going on, whether one may have written, and the source. Its moves are the
promises of the service: at most `MaxTries` executions, another one only if nothing may have been
written, SUCCEEDED and FAILED only when the execution is over, an unknown outcome that stays
unknown when the execution is later proven to be over. `Ledger` in `JobStore` is the
refinement mapping: the entry of a job is read off `engine_build`, the attempt count, the state of
the last attempt, its phase, the marker and the pinned input. It hides leases, tokens, the two
halves of `finish` and `recover`, targets and write locks.

### JobStore

State: the columns the operations read and write, as functions of the job or of
the job and the attempt number. A lease token is a fresh UUID per attempt, so
`(job, attempt number)` stands for it. `current` is `current_attempt_id` (0 for
NULL), `due` says whether `available_at` has passed, `unknown` is the marker
`externalOutcomeUnknown` in `error_detail`, `lease` says on which side of
`clock_timestamp()` `lease_expires_at` is, `build` is `engine_build.build_status`,
`busy` is `runtime_project.busy_job_id`, `claimed` is `target_claimed`.

Transactions: every `fact_session` takes the advisory lock `FACT_LOCK` first, so
fact transactions never overlap and most are one action guarded by `FactFree`.
Two are split where the clock matters: `finish` (`FinishBegin`, `FinishCommit`:
authority, evidence and sealing, then the second check) and `recover`
(`RecoverSelect`, `RecoverApply`: the snapshot of the SELECT, then the updates of
the rows that are not locked). `heartbeat` runs in a plain session and holds the
row locks of its job and attempt (`beat`), so it is `HeartbeatBegin` and
`HeartbeatCommit` or `HeartbeatAbort`; a fact transaction that needs those rows
waits (`RowFree`), while `recover` skips them (SKIP LOCKED). Any open transaction
may roll back.

Callers are arbitrary: `Next` lets anybody who was ever issued a token use it with
any operation at any time. A call the store refuses changes nothing and is no
action.

Left out: the order and filters of claim (any due job may be claimed, which allows
more than the code), parent and child jobs, idempotent reservation and project
revisions (acceptance), `commit_sha` and the artifact checks of `finish`, which
stand behind the pinned `input`. `CANCELLED` in the trigger is not reachable: no
operation writes that code. `fail` drops its marker when the detail is over its
size; only reports with the code `EXECUTION_OUTCOME_UNKNOWN` carry enough for that.
`reserve(write=True)` and retry policy `NEVER` are part of the store's interface,
although acceptance uses the defaults. How a request becomes a job is in `BuildAcceptance`.

### BuildWorker

A slot is the coroutine `Worker._slot`; `pc` is the await it is at, `held` the
attempt it serves. The steps follow `_build`: source, target, engine lock,
authorisation (the EXTERNAL mark under the lock), engine, publication, `finish` in a
thread, then the except block its failure leads to, the finally block and the loop.
`cancel` is a cancellation that has been requested and is seen at the next await;
in the engine only after the thread has ended (`_settle`). `finisher` is the thread
in which `finish` runs on when its slot is cancelled. `Close`, `Restart` and `Crash`
act on a process; `orphans` are attempts whose SQL runs on in the warehouse although
their engine is gone, because it raised or because its process died.

An engine ends in one of two actions. In `EngineAnswers` dbt succeeded or failed and says so
(exit 1); the code takes both for the end of all statements (`DbtExecution.check`), and so
does the model: it is what the service assumes of dbt. In `EngineRaises` something raised, and
a failed connection does not prove that the warehouse has stopped (`execution/errors.py:14`):
the statements may run on while the slot, still alive, reports, releases its target and
builds another job. A cancelled slot comes through either and sees only the cancellation; so what its
report may say rests on the EXTERNAL mark alone. `ReportStopped`, which takes the exit of the
thread for the end of the execution, breaks all three safety properties of `hosts`.

Every environment step is a choice: leases expire and heartbeats fail at any time,
reports are lost, an answer to a commit is lost, the engine ends in any of these
ways, and the administrator confirms a stop (`reconcile-attempt`) only when the
execution has really ended, which is what the command asks the operator to vouch for.
dbt is assumed to end; the code sets no limit to it. Queries take `ENGINE_LOCK` too
and can only delay a build.

### EngineBarrier

The level below `BuildWorker`: what happens inside one process around one engine call. A build
is a task of the event loop; `at` is the await (or the step between two awaits) it is at, and
`LoopIsFree` keeps two tasks of one process from running at once. `thread` is what
`run_in_thread` runs for it, `engine` the thread of `run_serialized`; a caller whose task is
cancelled goes on only when that thread is over (`Resumes`, `EngineResumes`: `_finish_task` and
`_settle` await again after every cancellation). A query has no task: its request thread is
`engine`. `lock` is `ENGINE_LOCK`, `environ` says whose settings the process has, as one value
for `os.environ`, flags, event manager and loggers, and `original` what `engine_environment` will
put back. `build_engine_environment` unpacks `os.environ` before the lock is taken, first the
names, then their values (`Prepared`, `ReadNames`): a name an engine has added may be gone
by then, and that attempt fails. Directories are shared by the processes of a host: `MakeParent` and
`MakeDirectory` are two system calls, as are `RemoveDirectory` and `RemoveParent`, and another
process may come in between; within one process each pair runs without an await.

Left out: the checks of names and links, the several threads of preparation (one `FILES`
thread stands for them), and crashes,
which end every thread of the process at once and are in `BuildWorker`.

### ExecutionLogs

One log (the advisory lock is per build) and any number of engine calls that write to it.
`queue`, `batch` and `drain` are the queue of `ExecutionLogWriter`, the list `batch` of `_drain`
and the place of its thread; `engine` is the side that emits and closes. `emit` never waits and
counts what does not fit; `Take` is one pass of the loop, which may be the last before a
flush because the batch is full, the entry was the Stop or the deadline has passed. `append`
is split into its lock, its inserts and its commit, since the numbers come from a sequence,
whose values are taken by inserts and shown by commits. Every write may fail, with the lock,
the inserts or only the answer to the commit; after a failure the writer drops. `Crash` kills a
process with its thread. `List` gives a client the rows after its cursor.

The text of an entry, its level and its time are left out; an event is its number.
`dropped` is the set of dropped events where the code has a count. That count may include an event
whose row did commit (a lost answer), so `EventsAreAccountedFor` says that nothing is missing
from both, and not that they are disjoint.

### OutputRedaction

`ScanFrom` is the loop of `_process`: leftmost match, longest secret, up to a cutoff that leaves what
could be the beginning of a secret in `pending`; `ScanWhole` is the same without a cutoff, and `Retain` the
bounded tail. `ReplaceEach` is the redaction of an event in `capture_text`, which replaces one string after
the other. Texts are sequences of `Characters`. Both are compared
with a definition that sees the whole text: `ChunksAreRedactedAsOne`, `EventsAreRedacted`. A character
stands for a byte; UTF-8 sequences that two chunks share cannot occur, since whole events are encoded.

### DeploymentPointer

`newest`, `active` and the outcome of each intent: an accepted intent supersedes the pending one,
only the newest can be deployed, the branch may disappear and take pointer and pending intent
with it. `Pointer` in `Deployments` is the refinement mapping: `newest` is
`desired_generation`, `active` the generation of `active_build_id`, and the outcomes are the
statuses of the intents with all the ways to end that do not deploy taken as one.

### Deployments

One target. `target` is its row, `intent` the status of each generation (a stale
intent is known by its reason), `build` and `commit` the columns of the build that
came with it. Acceptance always makes a new build, so a generation names both, and
the branch of `accept_in_transaction` for a build that has already succeeded is not
reachable, nor are the statuses CHECKING and CANCELLED. Observers are the
reconcilers of the instances and the pollers of `GET /deployments/current`. Both
read the row, then Git (each a step of its own, since nothing is locked), then call
`observe`, which is refused when the row has moved on; a refused reader reads the row
again, and a reconciler goes on to `settle` with what it has. The branch may be
pushed, forced, deleted and recreated at any time. Failures of Git and of a whole
round are steps. `TARGET_OR_BUILD_CHANGED` is modelled and never reached: a build
that has succeeded stays as it is. The choice of `pending` among waiting intents is
free; its limit of a hundred and `last_checked_at` are left out.

`since` and `fresh` are history: the heads the branch has had since a generation was
accepted, and since the version last changed. No action reads them.

### BuildAcceptance

`builds` is `engine_build` with the columns of its job that matter here, in the order of acceptance:
the request that was accepted, `commit` (`commit_sha`), `body` (the commit in `request_json`, which is
what a claim hands out), `issued` and `current` (attempt tokens), `input` (the commit its source set
was made from). A request is what its digest tells apart; key, snapshot, environment, version and
target are functions of it.

`accept` is one transaction in three steps: `Look` (the idempotency lookup, before anything that
depends on the settings of this instance), `Check` (verification against the settings, the rule of the
target, the rule of the version) and `Insert`; it may roll back in between, and the answer may be
lost. All of it holds the fact lock (`FactFree`). Clients repeat requests at any instance, and
instances verify different targets.

`ClaimBuild`, `ReadBranch`, `PinSource` and `AttachSource` are the way of one attempt to its source; a
lease may be lost at any point, and the attempt that lost it goes on with its stale token, next to
its successor, while the branch moves. `PinSource` has the two conditions of the code, the token and
`commit_sha IS NULL OR commit_sha = ?`.

`List` is a page of the history. A client follows a cursor to the end or begins again.

Left out: the deployment intent of the same transaction (`Deployments`), the project row, the
digest of a cursor that binds it to its filter (a guard here), and the rest of an attempt (`BuildWorker`).

### QueryPlans

The four stages of a query. `Request` normalises the metrics. `Plan` resolves each item of
`group_by` to a dimension of each metric: an option (`ResolvedDimensions`) names the metrics it
was offered for, so that a binding can only use the options of its own metric and an unbound item
those of all metrics; grains must be among those MetricFlow explains (`VerifiedGrains`); with
bindings, the columns of all metrics must agree in name and type. Metrics with one path form a
candidate. `Compile` is `compile_groups`: a candidate that MetricFlow refuses is split, each metric
going to the first partition that still compiles with it (`Placed`, like the candidates before, where it
goes to those of its path). What MetricFlow compiles together is
arbitrary: `compilable` is any set of sets of metrics. `Merge` is the statement of `merge_sql` and the cut
to the limit: the union of the keys, one LEFT JOIN per group, equality that also lets NULL meet NULL.

A hash is modelled by what it hashes. Left out: time ranges, filter operators, values
other than keys, the order of the rows (any order may be the one asked for), the modes
DIMENSION_VALUES (one unbound statement of another type), EXPLAIN (the statement without its
rows) and PREVIEW (a dbt command), and what dbt and MetricFlow do inside.

### Artifacts

`artifact` is the table `runtime_artifact_set`: a set is one row and its files, written by
one transaction and deleted by one, so a row stands for them. Its `owner` is the job whose
project it belongs to, `producer` the attempt of `producer_attempt_id` (0 for NULL),
`origin` is `source_set_id`. `output` is `runtime_job.output_set_id`. Sets are numbered in
the order of `created_at`, which is the order the collector takes them in.

What keeps the transactions apart is the row of the set. `capture` and `attach_input` take
a FOR KEY SHARE lock through their foreign keys, `seal` and `delete_unreferenced` lock the
row FOR UPDATE: `SetFree` and the guard of `GcLock` are those conflicts. `CaptureSource`
and `CaptureOutput` are one transaction each, outside the fact lock and without a look at the
lease; `Attach` is `attach_input`, which reads the set first and refers to it afterwards.
The seal is part of `finish`: `SealBegin` locks and validates the output, then either
`SealCommit` makes seal, output and final status visible together, or `SealRollback` none
of them.

The collector is `gc` of `admin.py` with an age of zero: `GcSelect` reads a batch of the
oldest sets, and each of them is then locked (`GcLock`), its references are read by a
statement of their own (`GcCheck`), and it is deleted (`GcDelete`) or passed over. The
three are separate steps, so that captures, attachments and seals come between them. A batch
may break off anywhere (`GcAbort`), which releases its lock.

Left out: paths, digests, counts and limits of files; a second collector, which would wait
for the same row locks; the sets of `register_project`; the state DELETING, which only the
transaction that deletes the set ever sees; and readers, since a reader of a build's input or output reads a set
that the theorems say is never deleted. The identity of content is not modelled either:
that a sealed set keeps its files rests on the triggers of the schema.

## Runs

| Run | Instance | Shows |
|---|---|---|
| `store` | 2 jobs, 1 target, 3 attempts, j1 with the project's write lock, j2 never retried | under arbitrary callers authority is never shared, nothing reruns that may have written, targets are not stolen, and the store implements `BuildLifecycle` |
| `hosts` | 2 processes with a slot each, 2 jobs on 1 target, 2 attempts, engines that raise, 2 crashes or shutdowns | writes never overlap, stop evidence is true, writes are visible |
| `liveness` | 1 slot, 2 jobs on 1 target, 1 crash or shutdown | every build ends |
| `barrier` | 3 builds (2 of one job, in 2 processes) and a query, 2 builds that may be cancelled | engine calls are isolated, no thread loses its files, every call ends and leaves no directory |
| `logs` | 2 writers with 3 events and 1, a queue of 1, batches of 2, pages of 1; every text of up to 5 characters over {a, b} | logs are complete or say how much they lost, readers miss nothing, close returns; chunked redaction equals redaction of the whole |
| `requests` | 2 calls at a time of 5 requests, 3 rows, 2 instances, 2 attempts; queries of 3 metrics | accepted rows agree, repeats are answered, a build is made from the commit it is pinned to, listings are whole; groups and merged answers of queries are right |
| `reconcilers` | 2 reconcilers, 2 intents, 2 commits one step apart | pointer and intents fit, decisions rest on current readings, the target implements `DeploymentPointer` |
| `settling` | 1 reconciler, 1 poller, 2 intents | finished intents are settled |
| `artifacts` | 1 job, 2 attempts, 3 sets, a collector whose limit covers them | inputs and outputs in use stay, results have a provenance, leftovers go |
| `gc_limit` | 1 job, 1 attempt, 2 sets, limit 1 | violated: a leftover behind a set in use is never collected |
| `recovery_race` | 1 job | violated: recovery takes a live lease (see Findings) |
| `shutdown` | 1 job | violated: unknown outcome although nothing was started |

All runs set CHECK_DEADLOCK FALSE: the jobs, intents, calls and events of an instance are
finite, and a system that has finished them may stop.

Bounds, and why they are enough:

* Two jobs: every hazard of the store is about one job with its own past, or about
  two that compete for one target or one project.
* Three attempts (`store`) are the maximum the schema allows. `hosts` allows two of a job, and
  its constraint `FewExecutions` two executions of all jobs together, or three with the crashes and
  shutdowns: either one job is tried again on another host, or both are tried once. While an
  execution of unknown outcome writes it goes one further: to a third execution if no process has
  been lost or closed (the waiting build is retried while the SQL of the other runs on), or to a
  second crash or shutdown. More than that is left to the proofs, which have no such bound. `liveness` allows one, since an attempt that
  reached the warehouse is never followed by another (proved).
* `MaxRestarts` bounds crashes and shutdowns. One puts the SQL of a dead process next to a
  running engine; two kill the successor too.
* Two processes with a slot each: the conditions are between two slots, and the slots of one
  process meet only at `ENGINE_LOCK`, which `barrier` has in detail.
* `barrier`: two attempts of one job in two processes share directories; a build and a query in
  the first of them share its lock and environment; the build in the second process is not
  cancelled, so that somebody goes on while others are cancelled.
* `logs`: with a queue of one and three events, the queue is full when an event, and when the Stop,
  arrives; with batches of two a batch can be full or not; two writers are enough for
  numbers to be taken in one order and committed in another. Chunks of one or two
  characters and up to two secrets of up to three: a secret can begin in one chunk and end two
  chunks later, be part of or overlap another, and be cut by a tail of four.
* `requests`: of the five requests one repeats a key with another body, one takes a
  target with another environment, one takes a version with another snapshot, and one names its
  commit; one instance cannot verify one of the targets. Three rows and a page of one: a cursor is
  followed twice while rows are added. One request is executed, with two attempts and two heads of
  the branch. Three metrics can be split in every way, and two values (one of them NULL) in
  up to two columns with a limit of two exceed the limit.
* Two intents and two commits: an older and a newer intent, a head that matches and one
  that does not, and one that is ahead. `MaxVersion` and `MaxNoise` bound the rounds of
  the reconcilers and the polls and failures: with 4 and 3, both intents can be settled
  after an observation and after a refused one. In `settling` `MaxVersion` is out of reach
  of any behaviour, so that it cannot stand in the way of progress; `MaxNoise` says that
  polls and failures cease.
* One job with two attempts and three sets (`artifacts`): a set can be in use, captured and
  lost by an attempt that was recovered, and captured by the retry, all at once. Two jobs only
  meet through the limit of the collector, which `gc_limit` shows with one; the theorems
  hold for any number.

Symmetry is used only in runs of invariants and step properties: over jobs, over slots
together with their processes, over reconcilers and over calls.

### Fairness

`FairWorkerSpec`: a slot that is scheduled takes its next step; waits for row locks, for
the fact lock and for `ENGINE_LOCK` are polled or queued, so a slot gets them in the end
although others take them in between, hence strong fairness of each slot and of the second
half of recovery. Claiming, heartbeat answers, maintenance, backoff, expiry of leases
nobody renews, statements in the warehouse, the administrator and restarts need weak
fairness only. `Punctual` says that stalls cease: from some time on a slot renews its lease
in time. Without it a slow process can lose every lease, and the job fails for good after
its attempts, which is an end too; it is needed for a slot that waits at its target, since
no bound is set to that wait. Steps that fail (`ExecutionBreaks`, `ReportLost`, lost
answers) are never forced and never excluded. Without `Reconcile` a build that waits
for the target of an unconfirmed execution waits for ever: the code means it to.

`BarrierFairness`: some task or thread goes on as long as one can; this does not say which.
`ENGINE_LOCK` is polled (`run_serialized`), so with an endless stream of other calls one
might never get it; the calls of an instance are finite, and that is enough. Nobody is obliged
to cancel, or to begin.

`LogFairness`: the engine call ends (it is assumed to, as in `BuildWorker`), and the thread of
the writer runs. Its statements have timeouts; whether a write succeeds is a choice, also every
time, which is why close has to return without the database.

`FairDeploymentSpec`: the maintenance loop comes around, and the exceptions that end a round
do not hit the same step for ever, hence strong fairness of each step of a reconciler.

`FairArtifactSpec`: the administrator runs gc again and again, and a queued request for a row
lock is granted in the end, hence strong fairness of the collector's steps; an open `finish`
commits or rolls back; from some time on a batch is not broken off. Nothing obliges a worker
to do anything.

## Proofs

`JobStoreProofs` proves, for any sets of jobs, projects and targets and any number of
attempts, that the conjunction `Inductive` of `TypeOK`, `AttemptHistory`,
`OpenTransactions` and `OneExecution` is an invariant. `OneExecution` alone is not
inductive: that `FinishCommit` and `RecoverApply` find what they selected needs
`OpenTransactions`, and that a new attempt number is unused needs `AttemptHistory`. From
it follow `NoRerunAfterExternal`, `UnconfirmedIsReported`, `OneOwnerPerTarget`,
`BusyUntilStopProven` and the step properties `TargetNotStolen`, `ResultsAreFinal` and
`LostAttemptsAreFrozen`. The assumption is `ConstantsAssumption` alone.

The second half of `JobStoreProofs` shows that `JobStore` implements `BuildLifecycle`. `Inductive` does
not say enough for that, since the public status is a projection by trigger: `Shown` says that
`build` is the projection of status, error code and marker, that these two are clean until the
job ends, and that an open `finish` has an input; and `UnconfirmedIsReported` says that an ended job
whose attempt may go on shows OUTCOME_UNKNOWN. With these, each action of `Next` is a move of
the entries it touches and leaves the others alone; there is a lemma for each move, and one for each
action that makes one.
`PromiseProofs` proves of the abstract specification that the ledger is honest and
that verdicts stay; both therefore hold of the store, and of the workers.

`BuildWorkerProofs` proves `WorkerSpec => Spec`: every step of a slot, of maintenance, of a
crash or of the administrator is a step of the store or leaves it alone. All theorems about
the store therefore hold of the whole system. What the store cannot see is the engine, and
that is what `Guarded` is about: which step may record a stop depends on who holds the
attempt. `HeldOnce` says that an attempt has one slot; `LeftBehind` that a slot whose attempt
has SQL running without its engine is at one of the reports that claim no stop of what is marked
EXTERNAL, or at the release behind it, and has no finish call; `FinishersHold` that a finish call in its thread outlives its slot only while the process
closes, and never runs beside the engine; `LockersHold` that whoever waits for the engine owns
the target unless its attempt is lost; and `WritersHold` that what may write (a slot between
its authorisation and the end of the engine, or an orphan) is marked EXTERNAL, is not recorded
as stopped, and owns its target. Together with `Inductive` this is inductive. `NoOverlappingWrites`
then follows from `OneOwnerPerTarget` and `OneExecution`, `StopEvidenceIsTrue` from `WritersHold`, and
`WritesAreVisible` from the projection `Shown` and `UnconfirmedIsReported`.

`DeploymentsProofs` proves `DeploymentTypeOK`, `OnlyNewestPending`, `ActiveIsNewestDeployed`,
`TargetIsConsistent` and `SettledIsFinal` for any commits, observers and bounds, and that
`Deployments` implements `DeploymentPointer`. The
invariant of these adds `GenerationsInOrder` (generations above `desired` do not exist) and
`ReadingsHold`: what an observer carries from one step to the next (the row, the reading of
Git, the generation it serves) still says something true of the row when its version has
not changed. `PromiseProofs` proves of the abstract pointer that the active intent
is the newest that was deployed and that it never goes back.

`DeployedWasHead`, `StaleForCause` and `ObservationsMoveForward` are about time, and a second
invariant, `TimeInductive`, dates what everybody carries. `HeadsKept`: the branch had every head in `fresh`
since every intent so far was accepted. `SnapshotsHold`: a version of the row names one content.
`ReadingsFresh`: a reading whose row has not moved on was made after that row was
written. `RoundsHold`: a reconciler compares commits only for a build that succeeded, and when it settles
on the row as it is, that row has been observed in the time of its intent; this
is why `settle` may rely on a look at the version alone. `ChangedWasBuilt`: an intent staled for a
changed head had its build.

`RequestsProofs` proves all the safety properties of `BuildAcceptance`, for any requests,
instances, attempts and page sizes. `RowsAgree` needs `AcceptanceIsSerial`: one call is between its
first statement and its end, because of the fact lock, and the rows it has looked at are still those
there are. `InputIsPinned` and `RetryKeepsCommit` need `SourcesAreHeld`: the body a claim hands out has the
commit of the build, an attempt that has pinned a commit has that one, and the attempt that holds the
job has it or may still fix it. `HistoryIsWhole` needs `ListingIsWhole`: the rows of a listing
so far are those of its filter from its cursor on. That a page reaches as far as its cursor says
is `PageReaches`, by cardinality. `RetryIsAnswered` is a step property of the same invariant.

Its second half proves `AnswersAreWhole` and `GroupsAreSound` of `QueryPlans`, for any metrics, paths,
bindings, values and limits and whatever MetricFlow refuses. `QueryInductive` is that a request is normal (its
metrics are different ones), that a plan is the plan of the request that is still there, and that the columns
are numbered; the work is in what the operators compute. The prover has no induction over an operator, but
`Recursion` gives a function from one that maps a value and an index to the next, and `Forward` is induction
over a set of numbers, so that each recursive definition is unfolded once (`CandidatesUnfold`, `SplitUnfolds`,
`FlattenUnfolds`, `NormalizedUnfolds`) and its invariant carried through its steps.

* `GroupsAreSound`: placing a metric keeps groups `Apart` (none empty, no metric twice); the candidates of
  a request are apart and each `OnePath`, which is what was asked (`AskedIsPath`); a candidate that is not refused
  becomes groups that are apart and compile, and stays one if it compiles (`CompiledApart`); the groups of
  all candidates, one after the other, are apart (`FlattenApart`). That a metric can go along its path is
  what its options say (`AskedIsReachable`).
* `AnswersAreWhole`: NULL joins NULL, so two keys are aligned exactly if they are the same; after i joins
  the statement has one row for each key, with what the first i groups have for it (`LeftJoinIs`, `JoinedIs`);
  a metric is projected from its group (`ProjectedIs`); the keys are finitely many (`FiniteFunctions`), so that
  rows and keys can be counted.

The assumptions are `MetricAssumption` (a build names a metric once), `QueryAssumption` (the form of a request)
and `ValueAssumption` (finitely many values, a limit that is a number).

`EngineProofs` proves `EnginesAreIsolated` and `FilesOutliveThreads` for any calls,
processes and jobs. `BarrierInductive` adds `LockIsHeld` (who is at a place that needs the lock has
it; an engine runs only while its caller awaits it; the environment of a process is that of the
call inside, and saved settings are the original ones), `ThreadsAreAwaited` (a thread
runs only while its caller awaits it, and where it should) and `FilesAreKept` (the directory of an
attempt is there from before its first thread until after its last, below that of its job).

It also proves `ChunksAreRedactedAsOne` and `EventsAreRedacted` of `OutputRedaction`, for characters, secrets,
chunks and limits of any number. The first rests on `ScanCut`: a scan may be cut at the cutoff, whatever is
printed next, because no match that begins before the cutoff can become longer or disappear. So
`RedactionInductive` says that what was emitted, followed by the scan of what is pending, is the scan of all
output, and that the tail is the end of it. That the tail holds no secret is `PlainRuns`: between two markers a
scan leaves only text without one. For an event, which is replaced secret after secret and the longer ones
first, each text is a sequence of parts, runs of original text and markers; a secret that is left would lie in
one part (`WithinKept`), since it shares no character with a marker. This is a condition of the property
(`SharesNothing`): a marker is text like any other, and a secret made of its characters is left in it. The
assumptions are `TextAssumption` and `TailAssumption`.

`ExecutionLogsProofs` proves `LogTypeOK`, `EventsAreAccountedFor` and `ReadersMissNothing` for any
writers, readers and sizes of queue, batch and page. In `LogInductive`, `StopIsLast` says that nothing follows
the Stop in a queue, and that a thread that has taken it leaves nothing behind;
`EventsAreOrdered` that events go through queue, batch and log in the order they were emitted;
`EventsAreSomewhere` that each is in one of them or was counted, unless the process has crashed; and
`NumbersAreTaken` that who numbers rows has the lock, and that rows about to be committed come
after all that have been. The last is what `ReadersMissNothing` rests on: a reader stands at a row that has
been committed (`ReadersKeepUp`), so that no row appears behind it. That a page has every row up to
its last is `PageIsFirst`.

`ArtifactsProofs` proves, for any number of jobs, attempts and sets and any limit,
`ArtifactTypeOK`, `InputsAreWhole`, `ResultsHaveProvenance`, `SealedWithResult`,
`LiveOutputsKept` and `PublishedStays`, and that `Artifacts` implements the store. The four
invariants are not inductive alone, and `ArtifactInductive` adds to them and to the store's
`Inductive`: `SealingHolds` (an open `finish` holds an existing output of its current attempt,
whose row the collector has not locked), without which a seal could bring back a deleted set;
`GcHolds` (a set found unreferenced stays so while its row is locked), without which a
deletion could take an input; and `ProducersExist`, since an attempt number that is not in use
yet could come to life as the producer of a set already condemned. That a lost attempt never
returns is `LostAttemptsStep`, from the proofs of the store. Besides `ConstantsAssumption`
they use `ArtifactAssumption`: sets are numbered, the limit is positive.

The abstract specifications have no ASSUME of their own, since they are instantiated with the
constants of others; the theorems about them assume that `MaxTries` and `MaxIntent` are naturals.

Several proved properties are not in a run, because one that is there implies them
(`ResultsAreFinal`, `LostAttemptsAreFrozen`, `UnconfirmedIsReported`, `OnlyNewestPending`,
`ActiveIsNewestDeployed` and `SettledIsFinal` are what the refinements rest on or entail, `OneOwnerPerTarget`
and `SealedWithResult` parts of larger invariants), or because it is the type invariant of a
module whose theorem says it all (`TypeOK`, `ArtifactTypeOK`).

Model-checked only is all liveness (`EveryBuildEnds`, `FinishedIntentsSettle`, `LeftoversCollected`, `CallsEnd`,
`CloseReturns`): fairness and ENABLED are beyond the prover. Every safety property of a passing run is proved.

`Guarded`, `TimeInductive`, `AcceptanceInductive`, `QueryInductive`, `BarrierInductive`, `RedactionInductive` and
`LogInductive` hold on the instances of `hosts`, `reconcilers`, `requests`, `barrier` and `logs`; they are proved and
in no run.

## Findings

* `recover` (`storage/jobs.py:574-625`) can take an attempt whose lease is live. Its SELECT
  evaluates the lease on its snapshot; a heartbeat in flight commits a renewal before
  `recover` locks the row. The comment at 575 says that healthy instances are not disturbed.
  Nothing runs twice: the worker finds its token refused.
* `gc` (`admin.py:41-42`, `143-146`) selects the oldest sets up to `--limit`, whether or not they
  are in use, and `delete_unreferenced` then keeps those that are. A job keeps its input and
  output for ever, so once the oldest sets up to the limit are all in use every gc looks at the
  same ones and deletes nothing. The design (the file of the next finding, line 247) leaves what an
  interrupted upload wrote to gc.
* `Worker._execute` (`workers/build.py:106-113`) reports EXECUTION_OUTCOME_UNKNOWN for every
  cancellation, also when `external_started` has just said that nothing was started. The
  design (`docs/superpowers/specs/2026-09-30-postgresql-stateless-service-design.md:243-245`)
  keeps that code for executions that had started, and retries the others.

## Plan

Done: every component with state that changes, two abstract specifications with their
refinements, and the proofs above: every safety property of a run is proved.

Next: what `BuildWorker` relies on of `EngineBarrier` (an engine has ended when its caller goes on) as a
refinement of its slots, and the query modes that are left out.

## Not modelled

* HTTP routing, request validation, error bodies, the catalog, settings and data models: no
  state of their own. The declarations of tables and records are mapped where a model keeps
  their fields.
* Platform access: Git commands, profiles and manifests of the platform are I/O; their outcomes,
  failures included, are choices in `Deployments`, `BuildWorker` and `BuildAcceptance`.
* Schema installation: once, in one transaction, before anything runs.
* What dbt, MetricFlow and the database drivers do inside: third-party code. The models take
  any outcome of them.
* The encoding of cursors and the digests of requests, files and options: modelled by what they
  tell apart.
* The filter of the build history by status, whose value changes under the cursor: a build
  that changes its status between two pages may be missed or stay listed. `HistoryIsWhole` is about
  the history without that filter.
* Query modes other than QUERY, time ranges, filter operators and the order of rows.
* The connection pool: its exhaustion shows as a failed call, which the models allow at
  every call.
