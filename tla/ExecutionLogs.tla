----------------------------- MODULE ExecutionLogs -----------------------------
(* The execution log of one build: ExecutionLogWriter (execution/             *)
(* log_writer.py), one per engine call, which takes events from the engine    *)
(* without ever waiting and writes them in batches from a thread of its own;  *)
(* ExecutionLogStore (storage/execution_logs.py), which appends a batch in    *)
(* one transaction; and clients that page through the log while it grows.     *)
(*                                                                            *)
(* The engine calls of one build have a writer each.  The job store lets only *)
(* one attempt of a build write, but the store of logs is promised to work    *)
(* for any callers, and so it is modelled.                                    *)
EXTENDS Integers, Sequences, FiniteSets, SequencesExt

CONSTANTS
    Writers,        \* engine calls of the build, each with its log writer
    Readers,        \* clients that follow the log
    QueueSize,      \* QUEUE_SIZE
    BatchSize,      \* BATCH_SIZE
    PageSize,       \* limit of a page
    MaxEvents,      \* bound: the number of events of each engine call
    None            \* no writer

ASSUME QueueSizeAssumption == QueueSize \in Nat \ {0}
ASSUME BatchSizeAssumption == BatchSize \in Nat \ {0}
ASSUME PageSizeAssumption == PageSize \in Nat \ {0}
ASSUME MaxEventsAssumption == MaxEvents \in [Writers -> Nat]
ASSUME NoneAssumption == None \notin Writers

VARIABLES
    emitted,    \* emitted[w]: how many events the engine has emitted
    engine,     \* engine[w]: RUNNING, then CLOSING, JOINING and CLOSED in close; or CRASHED
    queue,      \* queue[w]: the bounded queue; an entry is the number of its event, Stop is None
    batch,      \* batch[w]: entries taken and not yet written
    drain,      \* drain[w]: where the thread of the writer is
    stopping,   \* stopping[w]: the thread has taken the Stop
    failed,     \* failed[w]: a write has failed
    dropped,    \* dropped[w]: the events counted as dropped
    rows,       \* rows: number of a log row -> its writer and event
    committed,  \* the numbers of rows whose transaction has committed
    lockedBy,   \* lockedBy: the transaction that holds the advisory lock of the build
    cursor,     \* cursor[r]: the number the client of r goes on from
    seen        \* seen[r]: the numbers of the rows the client of r has been given

writerVars == <<emitted, engine, queue, batch, drain, stopping, failed, dropped>>
storeVars == <<rows, committed, lockedBy>>
readerVars == <<cursor, seen>>
vars == <<writerVars, storeVars, readerVars>>

Stop == 0

LogInit ==
    /\ emitted = [w \in Writers |-> 0]
    /\ engine = [w \in Writers |-> "RUNNING"]
    /\ queue = [w \in Writers |-> <<>>]
    /\ batch = [w \in Writers |-> <<>>]
    /\ drain = [w \in Writers |-> "TAKING"]
    /\ stopping = [w \in Writers |-> FALSE]
    /\ failed = [w \in Writers |-> FALSE]
    /\ dropped = [w \in Writers |-> {}]
    /\ rows = <<>>
    /\ committed = {}
    /\ lockedBy = None
    /\ cursor = [r \in Readers |-> 0]
    /\ seen = [r \in Readers |-> {}]

HasRoom(w) == Len(queue[w]) < QueueSize

--------------------------------------------------------------------------------
(* The engine's side.                                                         *)

\* emit: put_nowait, or the event is dropped.
Emit(w) ==
    /\ engine[w] = "RUNNING"
    /\ emitted[w] < MaxEvents[w]
    /\ emitted' = [emitted EXCEPT ![w] = @ + 1]
    /\ \/ /\ HasRoom(w)
          /\ queue' = [queue EXCEPT ![w] = Append(@, emitted[w] + 1)]
          /\ UNCHANGED dropped
       \/ /\ ~HasRoom(w)
          /\ dropped' = [dropped EXCEPT ![w] = @ \cup {emitted[w] + 1}]
          /\ UNCHANGED queue
    /\ UNCHANGED <<engine, batch, drain, stopping, failed, storeVars, readerVars>>

\* run_serialized has returned, and the writer is closed.
EngineEnds(w) ==
    /\ engine[w] = "RUNNING"
    /\ engine' = [engine EXCEPT ![w] = "CLOSING"]
    /\ UNCHANGED <<emitted, queue, batch, drain, stopping, failed, dropped, storeVars, readerVars>>

\* Fault: the Stop is put without waiting, like an event.
PutStopNowait(w) ==
    /\ engine[w] = "CLOSING"
    /\ engine' = [engine EXCEPT ![w] = "JOINING"]
    /\ queue' = IF HasRoom(w) THEN [queue EXCEPT ![w] = Append(@, Stop)] ELSE queue
    /\ UNCHANGED <<emitted, batch, drain, stopping, failed, dropped, storeVars, readerVars>>

\* close: put(None) waits for room.
PutStop(w) ==
    /\ engine[w] = "CLOSING"
    /\ HasRoom(w)
    /\ engine' = [engine EXCEPT ![w] = "JOINING"]
    /\ queue' = [queue EXCEPT ![w] = Append(@, Stop)]
    /\ UNCHANGED <<emitted, batch, drain, stopping, failed, dropped, storeVars, readerVars>>

\* close: the thread has been joined, and the count of dropped events is reported.
Join(w) ==
    /\ engine[w] = "JOINING"
    /\ drain[w] = "ENDED"
    /\ engine' = [engine EXCEPT ![w] = "CLOSED"]
    /\ UNCHANGED <<emitted, queue, batch, drain, stopping, failed, dropped, storeVars, readerVars>>

--------------------------------------------------------------------------------
(* The writer's thread.                                                       *)

\* Where a pass of the loop goes once it stops collecting.
AfterBatch(w, stop) == IF stop THEN "ENDED" ELSE "TAKING"

\* Fault: the batch may have one entry more.
CollectsOneMore(taken, stop) == Len(taken) <= BatchSize /\ ~stop

\* A pass of the loop ends without a flush, if its deadline allows.
Collects(taken, stop) == Len(taken) < BatchSize /\ ~stop

\* A pass of the loop flushes now: what it then does with the batch.
Flushes(w, b, stop) ==
    IF b = <<>> THEN AfterBatch(w, stop) ELSE IF failed[w] THEN "DROPPING" ELSE "LOCKING"

(* get returns an entry.  The pass goes on collecting, unless the batch is    *)
(* full, the entry was the Stop, or the deadline has passed.                  *)
Take(w) ==
    /\ drain[w] = "TAKING"
    /\ queue[w] # <<>>
    /\ LET entry == Head(queue[w])
           stop == entry = Stop
           taken == IF stop THEN batch[w] ELSE Append(batch[w], entry)
       IN /\ queue' = [queue EXCEPT ![w] = Tail(@)]
          /\ stopping' = [stopping EXCEPT ![w] = stop]
          /\ batch' = [batch EXCEPT ![w] = taken]
          /\ \/ Collects(taken, stop) /\ UNCHANGED drain
             \/ drain' = [drain EXCEPT ![w] = Flushes(w, taken, stop)]
    /\ UNCHANGED <<emitted, engine, failed, dropped, storeVars, readerVars>>

\* get raises Empty at the deadline.
TakeNothing(w) ==
    /\ drain[w] = "TAKING"
    /\ queue[w] = <<>>
    /\ batch[w] # <<>>
    /\ drain' = [drain EXCEPT ![w] = Flushes(w, batch[w], FALSE)]
    /\ UNCHANGED <<emitted, engine, queue, batch, stopping, failed, dropped, storeVars, readerVars>>

\* The batch is done with, and the loop goes on.
NextBatch(w) ==
    /\ batch' = [batch EXCEPT ![w] = <<>>]
    /\ drain' = [drain EXCEPT ![w] = AfterBatch(w, stopping[w])]

\* A write has failed before: the batch is counted and not written.
DropBatch(w) ==
    /\ drain[w] = "DROPPING"
    /\ dropped' = [dropped EXCEPT ![w] = @ \cup ToSet(batch[w])]
    /\ NextBatch(w)
    /\ UNCHANGED <<emitted, engine, queue, stopping, failed, storeVars, readerVars>>

\* Fault: a transaction numbers its rows without the lock.
LockAnyway(w) == TRUE

\* pg_advisory_xact_lock of the build's log is free.
LockFree(w) == lockedBy = None

\* append: the lock comes before the first number is taken.
LockLog(w) ==
    /\ drain[w] = "LOCKING"
    /\ LockFree(w)
    /\ lockedBy' = w
    /\ drain' = [drain EXCEPT ![w] = "INSERTING"]
    /\ UNCHANGED <<emitted, engine, queue, batch, stopping, failed, dropped, rows, committed, readerVars>>

\* append: the rows are numbered from the sequence as they are inserted.
InsertRows(w) ==
    /\ drain[w] = "INSERTING"
    /\ rows' = rows \o [i \in 1..Len(batch[w]) |-> [writer |-> w, event |-> batch[w][i]]]
    /\ drain' = [drain EXCEPT ![w] = "COMMITTING"]
    /\ UNCHANGED <<emitted, engine, queue, batch, stopping, failed, dropped, committed, lockedBy, readerVars>>

\* The numbers of the rows a transaction has inserted.
Inserted(w) == {n \in DOMAIN rows : rows[n].writer = w /\ rows[n].event \in ToSet(batch[w])}

Unlocked(w) == IF lockedBy = w THEN None ELSE lockedBy

CommitRows(w) ==
    /\ drain[w] = "COMMITTING"
    /\ committed' = committed \cup Inserted(w)
    /\ lockedBy' = Unlocked(w)
    /\ NextBatch(w)
    /\ UNCHANGED <<emitted, engine, queue, stopping, failed, dropped, rows, readerVars>>

\* Fault: the batch whose write failed is not counted.
WriteFailsOnce(w) ==
    /\ drain[w] \in {"LOCKING", "INSERTING", "COMMITTING"}
    /\ failed' = [failed EXCEPT ![w] = TRUE]
    /\ lockedBy' = Unlocked(w)
    /\ committed' \in {committed} \cup IF drain[w] = "COMMITTING" THEN {committed \cup Inserted(w)} ELSE {}
    /\ NextBatch(w)
    /\ UNCHANGED <<emitted, engine, queue, stopping, dropped, rows, readerVars>>

(* A write raises: no connection, a timeout of the lock or a statement, or the *)
(* answer to a commit is lost, in which case the rows may be there.           *)
WriteFails(w) ==
    /\ drain[w] \in {"LOCKING", "INSERTING", "COMMITTING"}
    /\ failed' = [failed EXCEPT ![w] = TRUE]
    /\ dropped' = [dropped EXCEPT ![w] = @ \cup ToSet(batch[w])]
    /\ lockedBy' = Unlocked(w)
    /\ committed' \in {committed} \cup IF drain[w] = "COMMITTING" THEN {committed \cup Inserted(w)} ELSE {}
    /\ NextBatch(w)
    /\ UNCHANGED <<emitted, engine, queue, stopping, rows, readerVars>>

\* The process dies, and its daemon thread with it; the server rolls back.
Crash(w) ==
    /\ engine[w] \notin {"CLOSED", "CRASHED"}
    /\ engine' = [engine EXCEPT ![w] = "CRASHED"]
    /\ drain' = [drain EXCEPT ![w] = "ENDED"]
    /\ lockedBy' = Unlocked(w)
    /\ UNCHANGED <<emitted, queue, batch, stopping, failed, dropped, rows, committed, readerVars>>

--------------------------------------------------------------------------------
(* The reader's side: list.                                                   *)

\* The first rows after the cursor, in the order of their numbers.
Page(r) ==
    LET after == {n \in committed : n > cursor[r]}
    IN {n \in after : Cardinality({m \in after : m < n}) < PageSize}

\* An empty page keeps the position.
Following(r) == IF Page(r) = {} THEN cursor[r] ELSE CHOOSE n \in Page(r) : \A m \in Page(r) : m <= n

List(r) ==
    /\ Page(r) # {}     \* an empty page changes nothing
    /\ seen' = [seen EXCEPT ![r] = @ \cup Page(r)]
    /\ cursor' = [cursor EXCEPT ![r] = Following(r)]
    /\ UNCHANGED <<writerVars, storeVars>>

--------------------------------------------------------------------------------
CallerStep(w) == EngineEnds(w) \/ PutStop(w) \/ Join(w)
DrainStep(w) ==
    Take(w) \/ TakeNothing(w) \/ DropBatch(w) \/ LockLog(w) \/ InsertRows(w) \/ CommitRows(w) \/ WriteFails(w)

LogNext ==
    \/ \E w \in Writers : Emit(w) \/ CallerStep(w) \/ DrainStep(w) \/ Crash(w)
    \/ \E r \in Readers : List(r)

(* The engine's call ends some time; close and the thread of the writer run    *)
(* on, and every statement has a timeout.  The database may fail every write. *)
LogFairness == \A w \in Writers : WF_vars(CallerStep(w)) /\ WF_vars(DrainStep(w))

LogSpec == LogInit /\ [][LogNext]_vars /\ LogFairness

--------------------------------------------------------------------------------
Events == UNION {1..MaxEvents[w] : w \in Writers}
Row == [writer : Writers, event : Events]

\* Types, and the bounds of the queue and of a batch.
LogTypeOK ==
    /\ emitted \in [Writers -> {0} \cup Events]
    /\ engine \in [Writers -> {"RUNNING", "CLOSING", "JOINING", "CLOSED", "CRASHED"}]
    /\ \A w \in Writers :
        /\ queue[w] \in Seq({Stop} \cup Events) /\ Len(queue[w]) <= QueueSize
        /\ batch[w] \in Seq(Events) /\ Len(batch[w]) <= BatchSize
        /\ dropped[w] \subseteq 1..emitted[w]
    /\ drain \in [Writers -> {"TAKING", "DROPPING", "LOCKING", "INSERTING", "COMMITTING", "ENDED"}]
    /\ stopping \in [Writers -> BOOLEAN] /\ failed \in [Writers -> BOOLEAN]
    /\ rows \in Seq(Row) /\ committed \subseteq DOMAIN rows
    /\ lockedBy \in Writers \cup {None}
    /\ cursor \in [Readers -> 0..Len(rows)]
    /\ seen \in [Readers -> SUBSET (1..Len(rows))]

\* The events of a writer that are in the log.
Written(w) == {rows[n].event : n \in {n \in committed : rows[n].writer = w}}

(* Every event of a call that was closed is in the log or counted as dropped   *)
(* in the warning of close; the events that are in the log are there once, in  *)
(* the order they were emitted (_drain, append).                               *)
EventsAreAccountedFor ==
    \A w \in Writers :
        /\ engine[w] = "CLOSED" => Written(w) \cup dropped[w] = 1..emitted[w]
        /\ \A m, n \in committed :
            rows[m].writer = w /\ rows[n].writer = w /\ m < n => rows[m].event < rows[n].event

(* A client that follows the cursor is never past a row it was not given, even *)
(* when batches of several calls are written at the same time: the numbers of  *)
(* a batch are taken under the lock of the build's log (append, list).         *)
ReadersMissNothing ==
    \A r \in Readers : \A n \in committed : n <= cursor[r] => n \in seen[r]

(* close returns, however full the queue was and however often the database   *)
(* fails (close, _drain).                                                      *)
CloseReturns ==
    \A w \in Writers : engine[w] = "CLOSING" ~> engine[w] \in {"CLOSED", "CRASHED"}
================================================================================
