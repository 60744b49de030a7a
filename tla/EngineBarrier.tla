----------------------------- MODULE EngineBarrier -----------------------------
(* The engine calls of the processes of one host: builds, which are tasks of  *)
(* an event loop and may be cancelled again and again (execution/build.py),    *)
(* and queries, which run in request threads (execution/query.py).  dbt keeps  *)
(* its state in the process, so the calls of a process take turns at           *)
(* ENGINE_LOCK, and a call that is cancelled first waits for its thread        *)
(* (execution/embedded.py, threads.py).  Each works in a directory of its own  *)
(* below one for its job (execution/workspace.py).                            *)
EXTENDS Integers, FiniteSets

CONSTANTS
    Builds,         \* build attempts
    Queries,        \* queries, each of which is a job of its own
    Processes,      \* service processes with one temp_root
    ProcessOf,      \* ProcessOf[c]: the process that runs call c
    Jobs,           \* jobs, which name the directories
    JobOf,          \* JobOf[c]: the job of call c
    Cancellable,    \* builds that the heartbeat or close cancels
    None            \* no call; in environ, the environment the process began with

Calls == Builds \cup Queries

ASSUME KindAssumption == Builds \cap Queries = {}
ASSUME ProcessAssumption == ProcessOf \in [Calls -> Processes]
ASSUME JobAssumption == JobOf \in [Calls -> Jobs]
ASSUME QueryAssumption == \A q \in Queries, c \in Calls : JobOf[q] = JobOf[c] => q = c
ASSUME NoneAssumption == None \notin Calls

VARIABLES
    at,         \* at[c]: where the caller is
    thread,     \* thread[c]: the thread that run_in_thread runs for c, if any
    engine,     \* engine[c]: the thread that run_serialized runs for c, if any
    cancelled,  \* cancelled[c]: the task of c has been cancelled
    outcome,    \* outcome[c]: DONE or RAISED (failed or cancelled); NONE while open
    lock,       \* lock[p]: who holds ENGINE_LOCK
    environ,    \* environ[p]: whose settings os.environ, flags, events and loggers have
    original,   \* original[c]: what engine_environment saved, to restore it
    listed,     \* listed[c]: whose settings os.environ had when its names were listed
    writer,     \* writer[c]: the log writer
    dirs,       \* calls whose directory exists
    parents     \* jobs whose directory exists

vars == <<at, thread, engine, cancelled, outcome, lock, environ, original, listed, writer, dirs, parents>>

\* The places of a caller that waits, and of one that holds the event loop between two steps.
Awaiting == {"PREPARING", "WAITING", "AUTHORIZING", "ENGINE", "CLOSING", "PERSISTING"}
Synchronous == {"MAKING", "READING", "REMOVING"}
Places == Awaiting \cup Synchronous \cup {"NEW", "LEAVING", "ENDED"}
Outcomes == {"NONE", "DONE", "RAISED"}
\* A DATABASE call, work on FILES of the call's directory, or CLOSE of its log writer.
Threads == {"NONE", "DATABASE", "FILES", "CLOSE", "OVER"}
\* QUEUED until it is inside of engine_environment.
Engines == {"NONE", "QUEUED", "INSIDE", "OVER"}

BarrierInit ==
    /\ at = [c \in Calls |-> IF c \in Builds THEN "NEW" ELSE "WAITING"]
    /\ thread = [c \in Calls |-> "NONE"]
    /\ engine = [c \in Calls |-> "NONE"]
    /\ cancelled = [c \in Calls |-> FALSE]
    /\ outcome = [c \in Calls |-> "NONE"]
    /\ lock = [p \in Processes |-> None]
    /\ environ = [p \in Processes |-> None]
    /\ original = [c \in Calls |-> None]
    /\ listed = [c \in Calls |-> None]
    /\ writer = [c \in Calls |-> "NONE"]
    /\ dirs = {}
    /\ parents = {}

Moves(c, from, to) == at[c] = from /\ at' = [at EXCEPT ![c] = to]
Thread(c, work) == thread' = [thread EXCEPT ![c] = work]
Engine(c, place) == engine' = [engine EXCEPT ![c] = place]
\* A thread that is over is forgotten once its caller goes on.
Joined(state, c) == IF state[c] = "OVER" THEN [state EXCEPT ![c] = "NONE"] ELSE state
Frees(c) == lock' = [lock EXCEPT ![ProcessOf[c]] = None]

\* No other task of the process is between two steps that do not await.
LoopIsFree(c) ==
    \A d \in Builds : d # c /\ ProcessOf[d] = ProcessOf[c] => at[d] \notin Synchronous

(* run_in_thread: _finish_task awaits the thread again after every             *)
(* cancellation.                                                              *)
Resumes(c) == thread[c] = "OVER"

\* Fault: a cancelled caller does not wait for its engine.
EngineResumesAtOnce(c) == engine[c] = "OVER" \/ cancelled[c]

\* run_serialized: so does _settle for the engine.
EngineResumes(c) == engine[c] = "OVER"

\* How a caller goes on after a thread: a cancellation takes precedence over its result.
Result(c, returned) == IF cancelled[c] THEN {"RAISED"} ELSE {returned, "RAISED"}

--------------------------------------------------------------------------------
(* A build, up to the lock.                                                   *)

\* attempt_workspace: the directory of the job, if it is not there.
MakeParent(c) ==
    /\ LoopIsFree(c)
    /\ Moves(c, "NEW", "MAKING")
    /\ parents' = parents \cup {JobOf[c]}
    /\ UNCHANGED <<thread, engine, cancelled, outcome, lock, environ, original, listed, writer, dirs>>

(* attempt_workspace: the directory of the attempt.  If another process has    *)
(* removed that of the job since, mkdir raises and the attempt fails.         *)
MakeDirectory(c) ==
    /\ IF JobOf[c] \in parents
       THEN /\ Moves(c, "MAKING", "PREPARING")
            /\ dirs' = dirs \cup {c}
            /\ Thread(c, "FILES")
            /\ UNCHANGED outcome
       ELSE /\ Moves(c, "MAKING", "ENDED")
            /\ outcome' = [outcome EXCEPT ![c] = "RAISED"]
            /\ UNCHANGED <<dirs, thread>>
    /\ UNCHANGED <<engine, cancelled, lock, environ, original, listed, writer, parents>>

(* The threads of _prepare_build_source, materialize and the claim of the      *)
(* target, one after the other, have come to an end.  build_engine_environment *)
(* unpacks os.environ, without the lock: first it lists the names ...         *)
Prepared(c) ==
    /\ LoopIsFree(c)
    /\ Resumes(c)
    /\ \E r \in Result(c, "NONE") :
        /\ outcome' = [outcome EXCEPT ![c] = r]
        /\ Moves(c, "PREPARING", IF r = "NONE" THEN "READING" ELSE "LEAVING")
        /\ listed' = [listed EXCEPT ![c] = IF r = "NONE" THEN environ[ProcessOf[c]] ELSE None]
    /\ thread' = Joined(thread, c)
    /\ UNCHANGED <<engine, cancelled, lock, environ, original, writer, dirs, parents>>

(* ... then their values: a name that an engine had added may be gone.  Only  *)
(* the names that are set anew are used of the result.                        *)
ReadNames(c) ==
    /\ \/ /\ Moves(c, "READING", "WAITING")
          /\ writer' = [writer EXCEPT ![c] = "OPEN"]
          /\ UNCHANGED outcome
       \/ /\ listed[c] \notin {None, environ[ProcessOf[c]]}
          /\ Moves(c, "READING", "LEAVING")
          /\ outcome' = [outcome EXCEPT ![c] = "RAISED"]
          /\ UNCHANGED writer
    /\ listed' = [listed EXCEPT ![c] = None]
    /\ UNCHANGED <<thread, engine, cancelled, lock, environ, original, dirs, parents>>

--------------------------------------------------------------------------------
(* run_serialized.  A query runs it in a loop of its own, and is not cancelled.*)

\* The lock is polled; a build then authorizes its engine, a query starts it.
Acquire(c) ==
    /\ c \in Builds => LoopIsFree(c) /\ ~cancelled[c]
    /\ lock[ProcessOf[c]] = None
    /\ lock' = [lock EXCEPT ![ProcessOf[c]] = c]
    /\ IF c \in Builds
       THEN Moves(c, "WAITING", "AUTHORIZING") /\ Thread(c, "DATABASE") /\ UNCHANGED engine
       ELSE Moves(c, "WAITING", "ENGINE") /\ Engine(c, "QUEUED") /\ UNCHANGED thread
    /\ UNCHANGED <<cancelled, outcome, environ, original, listed, writer, dirs, parents>>

\* execute_build: the writer is closed in a thread, after the engine or without one.
StartClose(c, from) ==
    /\ Moves(c, from, "CLOSING")
    /\ Thread(c, "CLOSE")
    /\ writer' = [writer EXCEPT ![c] = "CLOSED"]

\* Nothing of the call runs while it waits for the lock, so a cancellation ends it.
CancelledWaiting(c) ==
    /\ LoopIsFree(c)
    /\ cancelled[c]
    /\ StartClose(c, "WAITING")
    /\ outcome' = [outcome EXCEPT ![c] = "RAISED"]
    /\ UNCHANGED <<engine, cancelled, lock, environ, original, listed, dirs, parents>>

\* before_start has returned.
Authorized(c) ==
    /\ LoopIsFree(c)
    /\ Resumes(c)
    /\ ~cancelled[c]
    /\ Moves(c, "AUTHORIZING", "ENGINE")
    /\ Engine(c, "QUEUED")
    /\ thread' = Joined(thread, c)
    /\ UNCHANGED <<cancelled, outcome, lock, environ, original, listed, writer, dirs, parents>>

\* Fault: the lock is only released once an engine has run.
NotAuthorizedKeepsLock(c) ==
    /\ Resumes(c)
    /\ StartClose(c, "AUTHORIZING")
    /\ outcome' = [outcome EXCEPT ![c] = "RAISED"]
    /\ UNCHANGED <<engine, cancelled, lock, environ, original, listed, dirs, parents>>

\* before_start raised, or the task was cancelled meanwhile: finally releases the lock.
NotAuthorized(c) ==
    /\ LoopIsFree(c)
    /\ Resumes(c)
    /\ StartClose(c, "AUTHORIZING")
    /\ outcome' = [outcome EXCEPT ![c] = "RAISED"]
    /\ Frees(c)
    /\ UNCHANGED <<engine, cancelled, environ, original, listed, dirs, parents>>

\* The thread is over: the lock is released, and a cancellation discards what it returned.
EngineReturns(c) ==
    /\ c \in Builds => LoopIsFree(c)
    /\ EngineResumes(c)
    /\ Frees(c)
    /\ \E r \in Result(c, "DONE") : outcome' = [outcome EXCEPT ![c] = r]
    /\ IF c \in Builds
       THEN StartClose(c, "ENGINE")
       ELSE Moves(c, "ENGINE", "ENDED") /\ UNCHANGED <<thread, writer>>
    /\ engine' = Joined(engine, c)
    /\ UNCHANGED <<cancelled, environ, original, listed, dirs, parents>>

--------------------------------------------------------------------------------
(* The threads.                                                               *)

\* _engine_context of a query: its thread makes its directories before the engine ...
QueryEnters(c) ==
    IF c \in Queries
    THEN dirs' = dirs \cup {c} /\ parents' = parents \cup {JobOf[c]}
    ELSE UNCHANGED <<dirs, parents>>

\* ... and removes them after it.
QueryLeaves(c) ==
    IF c \in Queries
    THEN dirs' = dirs \ {c} /\ parents' = parents \ {JobOf[c]}
    ELSE UNCHANGED <<dirs, parents>>

\* engine_environment saves what is there and sets what the call asks for.
EnterEngine(c) ==
    /\ engine[c] = "QUEUED"
    /\ Engine(c, "INSIDE")
    /\ original' = [original EXCEPT ![c] = environ[ProcessOf[c]]]
    /\ environ' = [environ EXCEPT ![ProcessOf[c]] = c]
    /\ QueryEnters(c)
    /\ UNCHANGED <<at, thread, cancelled, outcome, lock, listed, writer>>

\* It fails before, or only reads a manifest (available_dimensions).
SkipEngine(c) ==
    /\ engine[c] = "QUEUED"
    /\ Engine(c, "OVER")
    /\ UNCHANGED <<at, thread, cancelled, outcome, lock, environ, original, listed, writer, dirs, parents>>

\* engine_environment restores what it saved.
LeaveEngine(c) ==
    /\ engine[c] = "INSIDE"
    /\ Engine(c, "OVER")
    /\ environ' = [environ EXCEPT ![ProcessOf[c]] = original[c]]
    /\ original' = [original EXCEPT ![c] = None]
    /\ QueryLeaves(c)
    /\ UNCHANGED <<at, thread, cancelled, outcome, lock, listed, writer>>

ThreadEnds(c) ==
    /\ thread[c] \in {"DATABASE", "FILES", "CLOSE"}
    /\ Thread(c, "OVER")
    /\ UNCHANGED <<at, engine, cancelled, outcome, lock, environ, original, listed, writer, dirs, parents>>

--------------------------------------------------------------------------------
(* A build, after its engine.                                                 *)

\* The log is closed, and the output of an engine that succeeded is captured.
LogClosed(c) ==
    /\ LoopIsFree(c)
    /\ Resumes(c)
    /\ \E r \in (IF outcome[c] = "DONE" THEN Result(c, "DONE") ELSE {"RAISED"}) :
        /\ outcome' = [outcome EXCEPT ![c] = r]
        /\ IF r = "DONE"
           THEN Moves(c, "CLOSING", "PERSISTING") /\ Thread(c, "FILES")
           ELSE Moves(c, "CLOSING", "LEAVING") /\ thread' = Joined(thread, c)
    /\ UNCHANGED <<engine, cancelled, lock, environ, original, listed, writer, dirs, parents>>

Persisted(c) ==
    /\ LoopIsFree(c)
    /\ Resumes(c)
    /\ Moves(c, "PERSISTING", "LEAVING")
    /\ \E r \in Result(c, "DONE") : outcome' = [outcome EXCEPT ![c] = r]
    /\ thread' = Joined(thread, c)
    /\ UNCHANGED <<engine, cancelled, lock, environ, original, listed, writer, dirs, parents>>

\* attempt_workspace: rmtree of the attempt's directory.
RemoveDirectory(c) ==
    /\ LoopIsFree(c)
    /\ Moves(c, "LEAVING", "REMOVING")
    /\ dirs' = dirs \ {c}
    /\ cancelled' = [cancelled EXCEPT ![c] = FALSE]
    /\ UNCHANGED <<thread, engine, outcome, lock, environ, original, listed, writer, parents>>

\* Fault: the directory of the job is removed with what is in it.
InUseNever(c) == FALSE

\* rmdir refuses a directory that is not empty.
InUse(c) == \E d \in dirs : JobOf[d] = JobOf[c]

RemoveParent(c) ==
    /\ Moves(c, "REMOVING", "ENDED")
    /\ parents' = IF InUse(c) THEN parents ELSE parents \ {JobOf[c]}
    /\ UNCHANGED <<thread, engine, cancelled, outcome, lock, environ, original, listed, writer, dirs>>

(* The heartbeat or close cancels the task, at any await.  Once it has, more   *)
(* cancellations change nothing.                                              *)
Cancel(c) ==
    /\ c \in Cancellable
    /\ at[c] \in Awaiting
    /\ ~cancelled[c]
    /\ cancelled' = [cancelled EXCEPT ![c] = TRUE]
    /\ UNCHANGED <<at, thread, engine, outcome, lock, environ, original, listed, writer, dirs, parents>>

--------------------------------------------------------------------------------
BuildStep(c) ==
    \/ MakeParent(c) \/ MakeDirectory(c) \/ Prepared(c) \/ ReadNames(c)
    \/ CancelledWaiting(c) \/ Authorized(c) \/ NotAuthorized(c)
    \/ LogClosed(c) \/ Persisted(c) \/ RemoveDirectory(c) \/ RemoveParent(c)

CallerStep(c) == (c \in Builds /\ BuildStep(c)) \/ Acquire(c) \/ EngineReturns(c)

ThreadStep(c) == EnterEngine(c) \/ SkipEngine(c) \/ LeaveEngine(c) \/ ThreadEnds(c)

BarrierNext == \E c \in Calls : CallerStep(c) \/ ThreadStep(c) \/ Cancel(c)

Goes(c) == at[c] # "NEW" /\ (CallerStep(c) \/ ThreadStep(c))

(* Tasks and threads run on, and calls of the engine and of the database come  *)
(* to an end.  This does not say who goes on: the lock is polled, and with a   *)
(* stream of other calls one might poll for ever, but here there are finitely  *)
(* many.                                                                      *)
BarrierFairness == WF_vars(\E c \in Calls : Goes(c))

BarrierSpec == BarrierInit /\ [][BarrierNext]_vars /\ BarrierFairness

--------------------------------------------------------------------------------
BarrierTypeOK ==
    /\ at \in [Calls -> Places]
    /\ thread \in [Calls -> Threads]
    /\ engine \in [Calls -> Engines]
    /\ cancelled \in [Calls -> BOOLEAN]
    /\ outcome \in [Calls -> Outcomes]
    /\ lock \in [Processes -> Calls \cup {None}]
    /\ \A p \in Processes : lock[p] # None =>
        ProcessOf[lock[p]] = p /\ at[lock[p]] \in {"AUTHORIZING", "ENGINE"}
    /\ environ \in [Processes -> Calls \cup {None}]
    /\ original \in [Calls -> Calls \cup {None}]
    /\ listed \in [Calls -> Calls \cup {None}]
    /\ writer \in [Calls -> {"NONE", "OPEN", "CLOSED"}]
    /\ dirs \subseteq Calls
    /\ parents \subseteq Jobs

(* dbt runs for one call of a process at a time, with the settings of that     *)
(* call; and when it runs for none, the process has the environment it began   *)
(* with, however often callers are cancelled (run_serialized, _settle,         *)
(* engine_environment).                                                       *)
EnginesAreIsolated ==
    \A p \in Processes :
        LET inside == {c \in Calls : ProcessOf[c] = p /\ engine[c] = "INSIDE"} IN
        /\ Cardinality(inside) <= 1
        /\ \A c \in inside : environ[p] = c /\ lock[p] = c
        /\ inside = {} => environ[p] = None

(* While a thread works for a call, the call's directories are there and its   *)
(* log takes entries, and the call has not ended: cancellation, and attempts   *)
(* of the same job in other processes, remove nothing from under it            *)
(* (run_in_thread, _settle, attempt_workspace).                               *)
FilesOutliveThreads ==
    \A c \in Calls :
        /\ at[c] = "ENDED" => thread[c] = "NONE" /\ engine[c] = "NONE"
        /\ thread[c] = "FILES" \/ engine[c] = "INSIDE" => c \in dirs /\ JobOf[c] \in parents
        /\ engine[c] = "INSIDE" /\ c \in Builds => writer[c] = "OPEN"

(* Every call that begins ends in the end, whoever is cancelled or refused     *)
(* while it has the lock or waits for it, and no attempt leaves its directory  *)
(* behind (run_serialized, execute_build, attempt_workspace).                 *)
CallsEnd == <>[](dirs = {} /\ \A c \in Calls : at[c] \in {"NEW", "ENDED"})
================================================================================
