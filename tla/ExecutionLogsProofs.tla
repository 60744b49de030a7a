-------------------------- MODULE ExecutionLogsProofs --------------------------
(* Theorems of ExecutionLogs: for any number of writers and readers, and any   *)
(* sizes of queue, batch and page, no event goes missing unaccounted for, and   *)
(* no reader passes a row it was not given.                                   *)
EXTENDS ExecutionLogs, FiniteSetTheorems, SequenceTheorems, TLAPS

--------------------------------------------------------------------------------
(* The inductive invariant.                                                   *)

LogShape ==
    /\ queue \in [Writers -> Seq({Stop} \cup Events)]
    /\ batch \in [Writers -> Seq(Events)]
    /\ dropped \in [Writers -> SUBSET Events]

(* The Stop is the last entry of a queue, and is put when no event comes any   *)
(* more; a thread that has taken it leaves nothing behind.  A batch that is    *)
(* being collected has room.                                                  *)
StopIsLast(w) ==
    /\ \A i \in 1..Len(queue[w]) : queue[w][i] = Stop =>
        i = Len(queue[w]) /\ engine[w] \notin {"RUNNING", "CLOSING"}
    /\ stopping[w] =>
        queue[w] = <<>> /\ engine[w] \notin {"RUNNING", "CLOSING"} /\ drain[w] # "TAKING"
    /\ engine[w] # "CRASHED" =>
        /\ engine[w] = "CLOSED" => drain[w] = "ENDED"
        /\ drain[w] = "ENDED" => stopping[w] /\ batch[w] = <<>>
    /\ drain[w] = "TAKING" => Len(batch[w]) < BatchSize

(* Events go through queue, batch and log in the order they were emitted: what *)
(* is in the log is before what is in the batch, unless that is being          *)
(* committed, and both are before what is in the queue.                       *)
EventsAreOrdered(w) ==
    LET Waits(j) == j \in 1..Len(queue[w]) /\ queue[w][j] # Stop IN
    /\ \A j : Waits(j) => queue[w][j] <= emitted[w]
    /\ \A i, j : Waits(i) /\ Waits(j) /\ i < j => queue[w][i] < queue[w][j]
    /\ \A i \in 1..Len(batch[w]) :
        /\ batch[w][i] <= emitted[w]
        /\ \A k \in 1..Len(batch[w]) : i < k => batch[w][i] < batch[w][k]
        /\ \A j : Waits(j) => batch[w][i] < queue[w][j]
    /\ \A n \in 1..Len(rows) : rows[n].writer = w =>
        /\ rows[n].event <= emitted[w]
        /\ \A j : Waits(j) => rows[n].event < queue[w][j]
        /\ drain[w] \notin {"COMMITTING", "ENDED"} => \A i \in 1..Len(batch[w]) : rows[n].event < batch[w][i]
        /\ \A m \in 1..Len(rows) : rows[m].writer = w /\ m < n => rows[m].event < rows[n].event

\* No event has left queue and batch but to the log or to be counted.
EventsAreSomewhere(w) ==
    engine[w] # "CRASHED" =>
        1..emitted[w] \subseteq Written(w) \cup dropped[w] \cup ToSet(queue[w]) \cup ToSet(batch[w])

(* Who numbers rows has the lock; what is about to be committed has been       *)
(* inserted, and comes after everything that has been committed.              *)
NumbersAreTaken(w) ==
    /\ drain[w] \in {"INSERTING", "COMMITTING"} => lockedBy = w
    /\ drain[w] = "COMMITTING" =>
        /\ \A e \in ToSet(batch[w]) : \E n \in Inserted(w) : rows[n].event = e
        /\ \A n \in Inserted(w), m \in committed : m < n

\* A reader is at a row that has been committed, and was given all before it.
ReadersKeepUp ==
    /\ \A r \in Readers : cursor[r] = 0 \/ cursor[r] \in committed
    /\ ReadersMissNothing

LogInductive ==
    /\ LogTypeOK /\ LogShape /\ ReadersKeepUp
    /\ \A w \in Writers :
        StopIsLast(w) /\ EventsAreOrdered(w) /\ EventsAreSomewhere(w) /\ NumbersAreTaken(w)

--------------------------------------------------------------------------------
(* What the steps do.                                                         *)

WriterStep(w) == Emit(w) \/ CallerStep(w) \/ DrainStep(w) \/ Crash(w)

\* Events are numbered from one.
LEMMA EventsArePositive == Events \subseteq Nat \ {0} /\ Stop \notin Events
BY MaxEventsAssumption DEF Events, Stop

\* What the types say of one writer.
LEMMA WriterTypes ==
    ASSUME LogTypeOK, LogShape, NEW w \in Writers
    PROVE  /\ emitted[w] \in Nat /\ emitted[w] \in {0} \cup Events
           /\ queue[w] \in Seq({Stop} \cup Events) /\ Len(queue[w]) \in Nat
           /\ Len(queue[w]) <= QueueSize
           /\ batch[w] \in Seq(Events) /\ Len(batch[w]) \in Nat
           /\ \A i \in 1..Len(queue[w]) : queue[w][i] \in Nat /\ queue[w][i] \in {Stop} \cup Events
           /\ \A i \in 1..Len(batch[w]) : batch[w][i] \in Nat /\ batch[w][i] \in Events
           /\ ToSet(queue[w]) = {queue[w][i] : i \in 1..Len(queue[w])}
           /\ ToSet(batch[w]) = {batch[w][i] : i \in 1..Len(batch[w])}
           /\ Stop \in Nat
           /\ dropped[w] \subseteq 1..emitted[w] /\ dropped[w] \subseteq Events
<1>1. /\ emitted[w] \in Nat /\ emitted[w] \in {0} \cup Events
      /\ queue[w] \in Seq({Stop} \cup Events) /\ batch[w] \in Seq(Events)
      /\ Len(queue[w]) <= QueueSize
      /\ dropped[w] \subseteq 1..emitted[w] /\ dropped[w] \subseteq Events
      /\ Stop \in Nat
  <2>1. emitted[w] \in {0} \cup Events
    BY DEF LogTypeOK
  <2>2. emitted[w] \in Nat
    <3>1. {0} \cup Events \subseteq Nat
      BY EventsArePositive
    <3> QED BY <2>1, <3>1
  <2>3. /\ queue[w] \in Seq({Stop} \cup Events) /\ batch[w] \in Seq(Events)
        /\ dropped[w] \subseteq Events
    BY DEF LogShape
  <2>4. Len(queue[w]) <= QueueSize /\ dropped[w] \subseteq 1..emitted[w]
    BY DEF LogTypeOK
  <2>5. Stop \in Nat
    BY DEF Stop
  <2> QED BY <2>1, <2>2, <2>3, <2>4, <2>5
<1>2. /\ Len(queue[w]) \in Nat /\ DOMAIN queue[w] = 1..Len(queue[w])
      /\ Len(batch[w]) \in Nat /\ DOMAIN batch[w] = 1..Len(batch[w])
  BY <1>1, LenProperties
<1>3. /\ \A i \in 1..Len(queue[w]) : queue[w][i] \in {Stop} \cup Events
      /\ \A i \in 1..Len(batch[w]) : batch[w][i] \in Events
  BY <1>1, ElementOfSeq
<1>4. {Stop} \cup Events \subseteq Nat
  BY <1>1, EventsArePositive
<1> QED BY <1>1, <1>2, <1>3, <1>4 DEF ToSet

\* A step of one writer leaves what another has where it is.
LEMMA OthersRest ==
    ASSUME LogTypeOK, LogShape, NEW v \in Writers, WriterStep(v), NEW w \in Writers, w # v
    PROVE  /\ emitted'[w] = emitted[w] /\ engine'[w] = engine[w] /\ queue'[w] = queue[w]
           /\ batch'[w] = batch[w] /\ drain'[w] = drain[w] /\ stopping'[w] = stopping[w]
           /\ failed'[w] = failed[w] /\ dropped'[w] = dropped[w]
<1> USE DEF LogTypeOK, LogShape
<1>1. CASE Emit(v)
  BY <1>1 DEF Emit
<1>2. CASE CallerStep(v)
  BY <1>2 DEF CallerStep, EngineEnds, PutStop, Join
<1>3. CASE Take(v) \/ TakeNothing(v)
  BY <1>3 DEF Take, TakeNothing
<1>4. CASE DropBatch(v) \/ CommitRows(v) \/ WriteFails(v)
  BY <1>4 DEF DropBatch, CommitRows, WriteFails, NextBatch
<1>5. CASE LockLog(v) \/ InsertRows(v)
  BY <1>5 DEF LockLog, InsertRows
<1>6. CASE Crash(v)
  BY <1>6 DEF Crash
<1> QED BY <1>1, <1>2, <1>3, <1>4, <1>5, <1>6 DEF WriterStep, DrainStep

\* What is put on the queue: an event, or the Stop.
LEMMA PutAppends ==
    ASSUME LogTypeOK, LogShape, NEW w \in Writers, NEW entry \in {Stop} \cup Events,
           queue' = [queue EXCEPT ![w] = Append(@, entry)]
    PROVE  LET n == Len(queue[w]) + 1
           IN  /\ queue' \in [Writers -> Seq({Stop} \cup Events)]
               /\ Len(queue'[w]) = n /\ queue'[w][n] = entry
               /\ \A i \in 1..Len(queue[w]) : queue'[w][i] = queue[w][i]
               /\ ToSet(queue'[w]) = ToSet(queue[w]) \cup {entry}
<1> DEFINE n == Len(queue[w]) + 1
<1>0. queue[w] \in Seq({Stop} \cup Events) /\ Len(queue[w]) \in Nat
      /\ ToSet(queue[w]) = {queue[w][i] : i \in 1..Len(queue[w])}
  BY WriterTypes
<1>1. queue'[w] = Append(queue[w], entry)
  BY DEF LogShape
<1>2. /\ queue'[w] \in Seq({Stop} \cup Events) /\ Len(queue'[w]) = n /\ queue'[w][n] = entry
      /\ \A i \in 1..Len(queue[w]) : queue'[w][i] = queue[w][i]
  BY <1>0, <1>1, AppendProperties
<1>3. queue' \in [Writers -> Seq({Stop} \cup Events)]
  BY <1>1, <1>2 DEF LogShape
<1>4. ToSet(queue'[w]) = ToSet(queue[w]) \cup {entry}
  <2>1. DOMAIN queue'[w] = 1..n
    BY <1>2, LenProperties
  <2> QED BY <1>0, <1>2, <2>1 DEF ToSet
<1> QED BY <1>2, <1>3, <1>4

\* What is taken from the queue: its first entry, which joins the batch unless
\* it is the Stop.
LEMMA TakeMoves ==
    ASSUME LogTypeOK, LogShape, NEW w \in Writers, Take(w)
    PROVE  LET entry == queue[w][1]
               n == Len(batch[w]) + 1
           IN  /\ queue' \in [Writers -> Seq({Stop} \cup Events)]
               /\ batch' \in [Writers -> Seq(Events)]
               /\ entry \in {Stop} \cup Events
               /\ Len(queue[w]) > 0 /\ Len(queue'[w]) = Len(queue[w]) - 1
               /\ \A i \in 1..Len(queue'[w]) : queue'[w][i] = queue[w][i + 1]
               /\ ToSet(queue[w]) = ToSet(queue'[w]) \cup {entry}
               /\ stopping'[w] = (entry = Stop)
               /\ entry = Stop => batch'[w] = batch[w]
               /\ entry # Stop =>
                    /\ Len(batch'[w]) = n /\ batch'[w][n] = entry
                    /\ \A i \in 1..Len(batch[w]) : batch'[w][i] = batch[w][i]
                    /\ ToSet(batch'[w]) = ToSet(batch[w]) \cup {entry}
               /\ \/ drain'[w] = "TAKING" /\ Collects(batch'[w], entry = Stop)
                  \/ drain'[w] = Flushes(w, batch'[w], entry = Stop)
<1> DEFINE entry == queue[w][1]
           n == Len(batch[w]) + 1
           taken == IF entry = Stop THEN batch[w] ELSE Append(batch[w], entry)
<1>0. /\ queue[w] \in Seq({Stop} \cup Events) /\ Len(queue[w]) \in Nat
      /\ batch[w] \in Seq(Events) /\ Len(batch[w]) \in Nat
      /\ ToSet(queue[w]) = {queue[w][i] : i \in 1..Len(queue[w])}
      /\ ToSet(batch[w]) = {batch[w][i] : i \in 1..Len(batch[w])}
      /\ queue[w] # <<>> /\ Head(queue[w]) = entry
  <2>1. queue[w] # <<>> /\ queue[w] \in Seq({Stop} \cup Events)
    BY WriterTypes DEF Take
  <2>2. Head(queue[w]) = queue[w][1]
    BY <2>1
  <2> QED BY <2>1, <2>2, WriterTypes
<1>1. /\ Head(queue[w]) \in {Stop} \cup Events
      /\ Tail(queue[w]) \in Seq({Stop} \cup Events) /\ Len(Tail(queue[w])) = Len(queue[w]) - 1
      /\ \A i \in 1..Len(Tail(queue[w])) : Tail(queue[w])[i] = queue[w][i + 1]
  BY <1>0, HeadTailProperties
<1>2. Len(queue[w]) > 0
  BY <1>0, EmptySeq
<1>3. /\ queue'[w] = Tail(queue[w]) /\ queue' = [queue EXCEPT ![w] = Tail(queue[w])]
      /\ stopping'[w] = (entry = Stop)
      /\ batch'[w] = taken /\ batch' = [batch EXCEPT ![w] = taken]
      /\ \/ drain'[w] = "TAKING" /\ Collects(taken, entry = Stop)
         \/ drain'[w] = Flushes(w, taken, entry = Stop)
  BY <1>0 DEF Take, LogTypeOK, LogShape
<1>4. ToSet(queue[w]) = ToSet(queue'[w]) \cup {entry}
  <2>1. DOMAIN queue'[w] = 1..Len(queue'[w])
    BY <1>1, <1>3, LenProperties
  <2>2. ToSet(queue'[w]) = {queue'[w][i] : i \in 1..Len(queue'[w])}
    BY <2>1 DEF ToSet
  <2>3. ASSUME NEW i \in 1..Len(queue[w]) PROVE queue[w][i] \in ToSet(queue'[w]) \cup {entry}
    <3>1. CASE i = 1
      BY <3>1
    <3>2. CASE i # 1
      <4>1. i - 1 \in 1..Len(queue'[w]) /\ queue'[w][i - 1] = queue[w][(i - 1) + 1]
        BY <1>0, <1>1, <1>3, <3>2
      <4> QED BY <1>0, <2>2, <4>1
    <3> QED BY <3>1, <3>2
  <2>4. ASSUME NEW i \in 1..Len(queue'[w]) PROVE queue'[w][i] \in ToSet(queue[w])
    <3>1. queue'[w][i] = queue[w][i + 1] /\ i + 1 \in 1..Len(queue[w])
      BY <1>0, <1>1, <1>3
    <3> QED BY <1>0, <3>1
  <2>5. entry \in ToSet(queue[w])
    BY <1>0, <1>2
  <2> QED BY <1>0, <2>2, <2>3, <2>4, <2>5
<1>5. entry # Stop =>
        /\ taken \in Seq(Events) /\ Len(taken) = n /\ taken[n] = entry
        /\ \A i \in 1..Len(batch[w]) : taken[i] = batch[w][i]
        /\ ToSet(taken) = ToSet(batch[w]) \cup {entry}
  <2> SUFFICES ASSUME entry # Stop
               PROVE  /\ taken \in Seq(Events) /\ Len(taken) = n /\ taken[n] = entry
                      /\ \A i \in 1..Len(batch[w]) : taken[i] = batch[w][i]
                      /\ ToSet(taken) = ToSet(batch[w]) \cup {entry}
    OBVIOUS
  <2>1. taken = Append(batch[w], entry) /\ entry \in Events
    BY <1>0, <1>1
  <2>2. /\ taken \in Seq(Events) /\ Len(taken) = n /\ taken[n] = entry
        /\ \A i \in 1..Len(batch[w]) : taken[i] = batch[w][i]
    BY <1>0, <2>1, AppendProperties
  <2>3. DOMAIN taken = 1..n
    BY <2>2, LenProperties
  <2>4. ToSet(taken) = {taken[i] : i \in 1..n}
    BY <2>3 DEF ToSet
  <2> HIDE DEF taken, entry
  <2>5. ToSet(taken) = ToSet(batch[w]) \cup {entry}
    BY <1>0, <2>2, <2>4
  <2> QED BY <2>2, <2>5
<1>6. taken \in Seq(Events)
  BY <1>0, <1>5
<1> HIDE DEF taken
<1>7. queue' \in [Writers -> Seq({Stop} \cup Events)] /\ batch' \in [Writers -> Seq(Events)]
  BY <1>1, <1>3, <1>6 DEF LogShape
<1>8. entry = Stop => taken = batch[w]
  BY DEF taken
<1> QED BY <1>0, <1>1, <1>2, <1>3, <1>4, <1>5, <1>7, <1>8

\* A set of natural numbers has a smallest.
LEMMA Smallest ==
    ASSUME NEW S \in SUBSET Nat, S # {} PROVE \E x \in S : \A y \in S : x <= y
<1>1. PICK x \in S : \A y \in S : ~(<<y, x>> \in OpToRel(<, Nat))
  BY WFMin, NatLessThanWellFounded
<1>2. \A y \in S : ~(y < x)
  BY <1>1 DEF OpToRel
<1> QED BY <1>2

\* A bounded one also has a largest.
LEMMA Largest ==
    ASSUME NEW n \in Nat, NEW S \in SUBSET (0..n), S # {}
    PROVE  \E x \in S : \A y \in S : y <= x
<1> DEFINE T == {n - y : y \in S}
<1>1. T \in SUBSET Nat /\ T # {}
  <2>1. \A y \in S : n - y \in Nat
    OBVIOUS
  <2>2. PICK y \in S : TRUE
    OBVIOUS
  <2>3. n - y \in T
    OBVIOUS
  <2> QED BY <2>1, <2>3
<1> HIDE DEF T
<1>2. PICK t \in T : \A u \in T : t <= u
  BY <1>1, Smallest
<1>3. PICK x \in S : t = n - x
  BY <1>2 DEF T
<1>4. ASSUME NEW y \in S PROVE y <= x
  <2>1. n - y \in T
    BY DEF T
  <2> QED BY <1>2, <1>3, <2>1
<1> QED BY <1>4


\* The rows of a batch come after all others, in the order of the batch.
LEMMA InsertAppends ==
    ASSUME LogTypeOK, LogShape, NEW w \in Writers, InsertRows(w)
    PROVE  /\ rows' \in Seq(Row) /\ Len(rows) \in Nat /\ Len(rows') = Len(rows) + Len(batch[w])
           /\ \A n \in 1..Len(rows) : rows'[n] = rows[n]
           /\ \A n \in (Len(rows) + 1)..Len(rows') :
                /\ n - Len(rows) \in 1..Len(batch[w])
                /\ rows'[n].writer = w /\ rows'[n].event = batch[w][n - Len(rows)]
           /\ \A i \in 1..Len(batch[w]) :
                /\ Len(rows) + i \in 1..Len(rows')
                /\ rows'[Len(rows) + i].writer = w /\ rows'[Len(rows) + i].event = batch[w][i]
<1> DEFINE new == [i \in 1..Len(batch[w]) |-> [writer |-> w, event |-> batch[w][i]]]
<1>0. /\ rows \in Seq(Row) /\ Len(rows) \in Nat /\ rows' = rows \o new
      /\ Len(batch[w]) \in Nat /\ \A i \in 1..Len(batch[w]) : batch[w][i] \in Events
  BY WriterTypes DEF LogTypeOK, InsertRows
<1>1. \A i \in 1..Len(batch[w]) : [writer |-> w, event |-> batch[w][i]] \in Row
  BY <1>0 DEF Row
<1>2. new \in Seq(Row) /\ Len(new) = Len(batch[w])
  BY <1>0, <1>1
<1>3. \A i \in 1..Len(batch[w]) : new[i].writer = w /\ new[i].event = batch[w][i]
  OBVIOUS
<1> HIDE DEF new
<1>4. /\ rows' \in Seq(Row) /\ Len(rows') = Len(rows) + Len(batch[w])
      /\ \A n \in 1..Len(rows') : rows'[n] = IF n <= Len(rows) THEN rows[n] ELSE new[n - Len(rows)]
  <2>1. /\ rows \o new \in Seq(Row) /\ Len(rows \o new) = Len(rows) + Len(new)
        /\ \A n \in 1..Len(rows) + Len(new) :
             (rows \o new)[n] = IF n <= Len(rows) THEN rows[n] ELSE new[n - Len(rows)]
    BY <1>0, <1>2, ConcatProperties
  <2>2. Len(rows') = Len(rows) + Len(new) /\ rows' \in Seq(Row)
    BY <1>0, <2>1
  <2>3. \A n \in 1..Len(rows') : rows'[n] = IF n <= Len(rows) THEN rows[n] ELSE new[n - Len(rows)]
    BY <1>0, <2>1, <2>2
  <2> QED BY <1>2, <2>2, <2>3
<1>5. \A n \in 1..Len(rows) : rows'[n] = rows[n]
  BY <1>0, <1>4
<1>6. ASSUME NEW n \in (Len(rows) + 1)..Len(rows')
      PROVE  /\ n - Len(rows) \in 1..Len(batch[w])
             /\ rows'[n].writer = w /\ rows'[n].event = batch[w][n - Len(rows)]
  <2>1. n - Len(rows) \in 1..Len(batch[w]) /\ n \in 1..Len(rows') /\ ~(n <= Len(rows))
    BY <1>0, <1>4
  <2> QED BY <1>3, <1>4, <2>1
<1>7. ASSUME NEW i \in 1..Len(batch[w])
      PROVE  /\ Len(rows) + i \in 1..Len(rows')
             /\ rows'[Len(rows) + i].writer = w /\ rows'[Len(rows) + i].event = batch[w][i]
  <2>1. Len(rows) + i \in 1..Len(rows') /\ ~(Len(rows) + i <= Len(rows))
        /\ (Len(rows) + i) - Len(rows) = i
    BY <1>0, <1>4
  <2> QED BY <1>3, <1>4, <2>1
<1> QED BY <1>0, <1>4, <1>5, <1>6, <1>7

\* Rows stay where they are.
LEMMA RowsStay ==
    ASSUME LogTypeOK, LogShape, [LogNext]_vars
    PROVE  /\ Len(rows) \in Nat /\ Len(rows') \in Nat /\ Len(rows) <= Len(rows')
           /\ \A n \in 1..Len(rows) : rows'[n] = rows[n]
           /\ (\A w \in Writers : ~InsertRows(w)) => rows' = rows
<1>0. Len(rows) \in Nat
  BY DEF LogTypeOK
<1>1. (\A w \in Writers : ~InsertRows(w)) => rows' = rows
  <2> USE DEF storeVars
  <2>1. ASSUME NEW w \in Writers, Emit(w) \/ CallerStep(w) \/ Crash(w) PROVE rows' = rows
    BY <2>1 DEF Emit, CallerStep, EngineEnds, PutStop, Join, Crash
  <2>2. ASSUME NEW w \in Writers, DrainStep(w), ~InsertRows(w) PROVE rows' = rows
    BY <2>2 DEF DrainStep, Take, TakeNothing, DropBatch, LockLog, CommitRows, WriteFails
  <2>3. ASSUME NEW r \in Readers, List(r) PROVE rows' = rows
    BY <2>3 DEF List
  <2>4. CASE UNCHANGED vars
    BY <2>4 DEF vars
  <2> QED BY <2>1, <2>2, <2>3, <2>4 DEF LogNext
<1>2. ASSUME NEW w \in Writers, InsertRows(w)
      PROVE  /\ Len(rows') = Len(rows) + Len(batch[w]) /\ Len(batch[w]) \in Nat
             /\ \A n \in 1..Len(rows) : rows'[n] = rows[n]
  BY <1>2, InsertAppends, WriterTypes
<1> QED BY <1>0, <1>1, <1>2

\* A page has the first rows after the cursor, all up to the last of it.
LEMMA PageIsFirst ==
    ASSUME LogTypeOK, NEW r \in Readers, Page(r) # {}
    PROVE  /\ Page(r) \subseteq committed /\ Following(r) \in Page(r)
           /\ \A n \in Page(r) : n > cursor[r] /\ n \in 1..Len(rows)
           /\ \A n \in committed : n > cursor[r] /\ n <= Following(r) => n \in Page(r)
<1> DEFINE after == {n \in committed : n > cursor[r]}
           Below(n) == {m \in after : m < n}
<1>0. /\ Len(rows) \in Nat /\ committed \subseteq 1..Len(rows) /\ cursor[r] \in Nat
      /\ PageSize \in Nat
  <2>1. rows \in Seq(Row) /\ committed \subseteq DOMAIN rows /\ cursor[r] \in 0..Len(rows)
    BY DEF LogTypeOK
  <2>2. Len(rows) \in Nat /\ DOMAIN rows = 1..Len(rows)
    BY <2>1, LenProperties
  <2> QED BY <2>1, <2>2, PageSizeAssumption
<1>1. Page(r) = {n \in after : Cardinality(Below(n)) < PageSize}
  BY DEF Page
<1>2. Page(r) \subseteq committed /\ Page(r) \in SUBSET (0..Len(rows))
  <2>1. Page(r) \subseteq committed
    BY DEF Page
  <2>2. committed \subseteq 0..Len(rows)
    BY <1>0
  <2> QED BY <2>1, <2>2
<1>3. Following(r) \in Page(r) /\ \A m \in Page(r) : m <= Following(r)
  <2>1. PICK top \in Page(r) : \A m \in Page(r) : m <= top
    BY <1>0, <1>2, Largest
  <2> QED BY <2>1 DEF Following
<1>4. ASSUME NEW n \in committed, n > cursor[r], n <= Following(r) PROVE n \in Page(r)
  <2>1. IsFiniteSet(Below(Following(r)))
    <3>1. IsFiniteSet(1..Len(rows))
      BY <1>0, FS_Interval
    <3>2. Below(Following(r)) \in SUBSET (1..Len(rows))
      BY <1>0
    <3> QED BY <3>1, <3>2, FS_Subset
  <2>2. Below(n) \in SUBSET Below(Following(r))
    <3>1. n \in Nat /\ Following(r) \in Nat /\ \A m \in after : m \in Nat
      BY <1>0, <1>2, <1>3
    <3>2. \A m \in after : m < n => m < Following(r)
      BY <1>4, <3>1
    <3> QED BY <3>2
  <2>3. Cardinality(Below(n)) <= Cardinality(Below(Following(r))) /\ IsFiniteSet(Below(n))
    BY <2>1, <2>2, FS_Subset
  <2>4. Cardinality(Below(n)) \in Nat /\ Cardinality(Below(Following(r))) \in Nat
    BY <2>1, <2>3, FS_CardinalityType
  <2>5. Cardinality(Below(Following(r))) < PageSize
    BY <1>1, <1>3
  <2>6. Cardinality(Below(n)) < PageSize
    <3> HIDE DEF Below
    <3> QED BY <1>0, <2>3, <2>4, <2>5
  <2> QED BY <1>1, <1>4, <2>6
<1>5. \A n \in Page(r) : n > cursor[r] /\ n \in 1..Len(rows)
  BY <1>0, <1>1
<1> QED BY <1>1, <1>3, <1>4, <1>5

--------------------------------------------------------------------------------
(* Types.                                                                     *)

WriterStates ==
    /\ emitted \in [Writers -> {0} \cup Events]
    /\ engine \in [Writers -> {"RUNNING", "CLOSING", "JOINING", "CLOSED", "CRASHED"}]
    /\ drain \in [Writers -> {"TAKING", "DROPPING", "LOCKING", "INSERTING", "COMMITTING", "ENDED"}]
    /\ stopping \in [Writers -> BOOLEAN] /\ failed \in [Writers -> BOOLEAN]
    /\ LogShape
    /\ \A w \in Writers :
        Len(queue[w]) <= QueueSize /\ Len(batch[w]) <= BatchSize /\ dropped[w] \subseteq 1..emitted[w]

StoreStates ==
    /\ rows \in Seq(Row) /\ committed \subseteq 1..Len(rows) /\ lockedBy \in Writers \cup {None}
    /\ cursor \in [Readers -> 0..Len(rows)] /\ seen \in [Readers -> SUBSET (1..Len(rows))]

\* The types, the writers' and the store's.
LEMMA TypesSplit == (LogTypeOK /\ LogShape) <=> (WriterStates /\ StoreStates)
<1>1. rows \in Seq(Row) => DOMAIN rows = 1..Len(rows)
  BY LenProperties
<1>2. LogShape => \A w \in Writers : queue[w] \in Seq({Stop} \cup Events) /\ batch[w] \in Seq(Events)
  BY DEF LogShape
<1> QED BY <1>1, <1>2 DEF LogTypeOK, WriterStates, StoreStates

\* What a batch holds are events that have been emitted.
LEMMA BatchWasEmitted ==
    ASSUME LogTypeOK, LogShape, NEW w \in Writers, EventsAreOrdered(w)
    PROVE  ToSet(batch[w]) \subseteq 1..emitted[w]
<1>1. \A i \in 1..Len(batch[w]) : batch[w][i] \in Nat /\ batch[w][i] \in Events /\ emitted[w] \in Nat
  BY WriterTypes
<1>2. \A i \in 1..Len(batch[w]) : batch[w][i] <= emitted[w]
  BY DEF EventsAreOrdered
<1>3. \A i \in 1..Len(batch[w]) : batch[w][i] \in 1..emitted[w]
  BY <1>1, <1>2, EventsArePositive
<1> QED BY <1>3, WriterTypes

\* The queue and a batch stay within their bounds.
LEMMA WriterStatesStep ==
    ASSUME LogTypeOK, LogShape, NEW w \in Writers, StopIsLast(w), EventsAreOrdered(w), WriterStep(w)
    PROVE  WriterStates'
<1> DEFINE Bounded(v) ==
             Len(queue[v]) <= QueueSize /\ Len(batch[v]) <= BatchSize /\ dropped[v] \subseteq 1..emitted[v]
<1>0. /\ WriterStates /\ \A v \in Writers : Bounded(v)
      /\ BatchSize \in Nat \ {0} /\ QueueSize \in Nat \ {0}
      /\ emitted[w] \in Nat /\ Len(queue[w]) \in Nat /\ Len(batch[w]) \in Nat
      /\ Len(<<>>) = 0 /\ <<>> \in Seq(Events)
  BY TypesSplit, WriterTypes, BatchSizeAssumption, QueueSizeAssumption DEF WriterStates
<1>1. \A v \in Writers : v # w => Bounded(v)'
  BY <1>0, OthersRest
<1>2. CASE Emit(w)
  <2>1. emitted[w] + 1 \in Events /\ emitted'[w] = emitted[w] + 1
    <3>1. emitted[w] < MaxEvents[w] /\ MaxEvents[w] \in Nat
      BY <1>2, MaxEventsAssumption DEF Emit
    <3>2. emitted[w] + 1 \in 1..MaxEvents[w]
      BY <1>0, <3>1
    <3>3. emitted[w] + 1 \in Events
      BY <3>2 DEF Events
    <3>4. emitted'[w] = emitted[w] + 1
      BY <1>0, <1>2 DEF Emit, WriterStates
    <3> QED BY <3>3, <3>4
  <2>2. emitted' \in [Writers -> {0} \cup Events]
    BY <1>0, <1>2, <2>1 DEF Emit, WriterStates
  <2>3. CASE HasRoom(w) /\ queue' = [queue EXCEPT ![w] = Append(@, emitted[w] + 1)] /\ dropped' = dropped
    <3>1. queue' \in [Writers -> Seq({Stop} \cup Events)] /\ Len(queue'[w]) = Len(queue[w]) + 1
      BY <2>1, <2>3, PutAppends
    <3>2. Bounded(w)'
      BY <1>0, <1>2, <2>1, <2>3, <3>1 DEF HasRoom, Emit
    <3> QED BY <1>0, <1>1, <1>2, <2>2, <2>3, <3>1, <3>2 DEF Emit, WriterStates, LogShape
  <2>4. CASE dropped' = [dropped EXCEPT ![w] = @ \cup {emitted[w] + 1}] /\ queue' = queue
    <3>1. dropped'[w] = dropped[w] \cup {emitted[w] + 1} /\ dropped' \in [Writers -> SUBSET Events]
      BY <1>0, <2>1, <2>4 DEF WriterStates, LogShape
    <3>2. dropped'[w] \subseteq 1..emitted'[w]
      BY <1>0, <2>1, <3>1
    <3>3. Bounded(w)'
      BY <1>0, <1>2, <2>4, <3>2 DEF Emit
    <3> QED BY <1>0, <1>1, <1>2, <2>2, <2>4, <3>1, <3>3 DEF Emit, WriterStates, LogShape
  <2> QED BY <1>2, <2>3, <2>4 DEF Emit
<1>3. CASE EngineEnds(w) \/ Join(w)
  BY <1>0, <1>3 DEF EngineEnds, Join, WriterStates, LogShape
<1>4. CASE PutStop(w)
  <2>1. queue' \in [Writers -> Seq({Stop} \cup Events)] /\ Len(queue'[w]) = Len(queue[w]) + 1
    BY <1>4, PutAppends DEF PutStop
  <2>2. Bounded(w)'
    BY <1>0, <1>4, <2>1 DEF PutStop, HasRoom
  <2> QED BY <1>0, <1>1, <1>4, <2>1, <2>2 DEF PutStop, WriterStates, LogShape
<1>5. CASE Take(w)
  <2> DEFINE stop == queue[w][1] = Stop
  <2>1. /\ queue' \in [Writers -> Seq({Stop} \cup Events)] /\ batch' \in [Writers -> Seq(Events)]
        /\ Len(queue'[w]) = Len(queue[w]) - 1
        /\ stop => batch'[w] = batch[w]
        /\ ~stop => Len(batch'[w]) = Len(batch[w]) + 1
        /\ drain'[w] = "TAKING" \/ drain'[w] = Flushes(w, batch'[w], stop)
    BY <1>5, TakeMoves
  <2>2. Len(batch[w]) < BatchSize
    BY <1>5 DEF StopIsLast, Take
  <2>3. /\ UNCHANGED <<emitted, engine, failed, dropped>>
        /\ stopping' \in [Writers -> BOOLEAN]
        /\ \E d : drain' = [drain EXCEPT ![w] = d]
    BY <1>0, <1>5 DEF Take, WriterStates
  <2>4. drain'[w] \in {"TAKING", "DROPPING", "LOCKING", "ENDED"}
    BY <2>1 DEF Flushes, AfterBatch
  <2>5. drain' \in [Writers -> {"TAKING", "DROPPING", "LOCKING", "INSERTING", "COMMITTING", "ENDED"}]
    BY <1>0, <2>3, <2>4 DEF WriterStates
  <2>6. Bounded(w)'
    BY <1>0, <2>1, <2>2, <2>3
  <2> QED BY <1>0, <1>1, <2>1, <2>3, <2>5, <2>6 DEF WriterStates, LogShape
<1>6. CASE TakeNothing(w)
  BY <1>0, <1>6 DEF TakeNothing, Flushes, AfterBatch, WriterStates, LogShape
<1>7. CASE DropBatch(w) \/ CommitRows(w) \/ WriteFails(w)
  <2>1. /\ batch' = [batch EXCEPT ![w] = <<>>] /\ drain' = [drain EXCEPT ![w] = AfterBatch(w, stopping[w])]
        /\ UNCHANGED <<emitted, engine, queue, stopping>>
        /\ failed' \in [Writers -> BOOLEAN]
        /\ dropped' = dropped \/ dropped' = [dropped EXCEPT ![w] = @ \cup ToSet(batch[w])]
    BY <1>0, <1>7 DEF DropBatch, CommitRows, WriteFails, NextBatch, WriterStates
  <2>2. drain' \in [Writers -> {"TAKING", "DROPPING", "LOCKING", "INSERTING", "COMMITTING", "ENDED"}]
    BY <1>0, <2>1 DEF AfterBatch, WriterStates
  <2>3. batch' \in [Writers -> Seq(Events)] /\ Len(batch'[w]) = 0
    BY <1>0, <2>1 DEF WriterStates, LogShape
  <2>4. ToSet(batch[w]) \subseteq 1..emitted[w] /\ ToSet(batch[w]) \subseteq Events
    <3>1. /\ \A i \in 1..Len(batch[w]) : batch[w][i] \in Events
          /\ ToSet(batch[w]) = {batch[w][i] : i \in 1..Len(batch[w])}
      BY WriterTypes
    <3>2. ToSet(batch[w]) \subseteq Events
      BY <3>1
    <3> QED BY <3>2, BatchWasEmitted
  <2>5. dropped' \in [Writers -> SUBSET Events] /\ dropped'[w] \subseteq 1..emitted[w]
    BY <1>0, <2>1, <2>4 DEF WriterStates, LogShape
  <2>6. Bounded(w)'
    BY <1>0, <2>1, <2>3, <2>5
  <2> QED BY <1>0, <1>1, <2>1, <2>2, <2>3, <2>5, <2>6 DEF WriterStates, LogShape
<1>8. CASE LockLog(w) \/ InsertRows(w) \/ Crash(w)
  BY <1>0, <1>8 DEF LockLog, InsertRows, Crash, WriterStates, LogShape
<1> QED BY <1>2, <1>3, <1>4, <1>5, <1>6, <1>7, <1>8 DEF WriterStep, CallerStep, DrainStep

\* The log, and the cursors of its readers.
LEMMA StoreStatesStep ==
    ASSUME LogTypeOK, LogShape, [LogNext]_vars
    PROVE  StoreStates'
<1>0. /\ StoreStates /\ Len(rows) \in Nat /\ Len(rows') \in Nat /\ Len(rows) <= Len(rows')
      /\ DOMAIN rows = 1..Len(rows)
  BY TypesSplit, RowsStay, LenProperties DEF StoreStates
<1>1. \A n : n \in 1..Len(rows) => n \in 1..Len(rows')
  BY <1>0
<1>2. \A n : n \in 0..Len(rows) => n \in 0..Len(rows')
  BY <1>0
<1>3. ASSUME NEW w \in Writers, WriterStep(w) PROVE StoreStates'
  <2>1. UNCHANGED <<cursor, seen>>
    BY <1>3 DEF WriterStep, CallerStep, DrainStep, Emit, EngineEnds, PutStop, Join, Take, TakeNothing,
                DropBatch, LockLog, InsertRows, CommitRows, WriteFails, Crash, readerVars
  <2>2. lockedBy' \in Writers \cup {None}
    BY <1>0, <1>3 DEF WriterStep, CallerStep, DrainStep, Emit, EngineEnds, PutStop, Join, Take,
                TakeNothing, DropBatch, LockLog, InsertRows, CommitRows, WriteFails, Crash,
                Unlocked, storeVars, StoreStates
  <2>3. rows' \in Seq(Row)
    BY <1>0, <1>3, InsertAppends, RowsStay DEF StoreStates
  <2>4. committed' \subseteq committed \cup Inserted(w)
    BY <1>3 DEF WriterStep, CallerStep, DrainStep, Emit, EngineEnds, PutStop, Join, Take, TakeNothing,
                DropBatch, LockLog, InsertRows, CommitRows, WriteFails, Crash, storeVars
  <2>5. committed' \subseteq 1..Len(rows')
    BY <1>0, <1>1, <2>4 DEF Inserted, StoreStates
  <2> QED BY <1>0, <1>1, <1>2, <2>1, <2>2, <2>3, <2>5 DEF StoreStates
<1>4. ASSUME NEW r \in Readers, List(r) PROVE StoreStates'
  <2>1. Page(r) \subseteq 1..Len(rows) /\ Following(r) \in 0..Len(rows)
    <3>1. Page(r) \subseteq 1..Len(rows) /\ Following(r) \in Page(r)
      BY <1>4, PageIsFirst DEF List
    <3> QED BY <1>0, <3>1
  <2>2. UNCHANGED <<rows, committed, lockedBy>>
    BY <1>4 DEF List, storeVars
  <2>3. /\ seen' = [seen EXCEPT ![r] = @ \cup Page(r)] /\ cursor' = [cursor EXCEPT ![r] = Following(r)]
    BY <1>4 DEF List
  <2> QED BY <1>0, <2>1, <2>2, <2>3 DEF StoreStates
<1>5. CASE UNCHANGED vars
  BY <1>0, <1>5 DEF vars, storeVars, readerVars, StoreStates
<1> QED BY <1>3, <1>4, <1>5 DEF LogNext, WriterStep

\* Types and bounds are kept.
LEMMA LogTypeStep ==
    ASSUME LogTypeOK, LogShape, [LogNext]_vars,
           \A w \in Writers : StopIsLast(w) /\ EventsAreOrdered(w)
    PROVE  LogTypeOK' /\ LogShape'
<1>1. ASSUME NEW w \in Writers, WriterStep(w) PROVE WriterStates'
  BY <1>1, WriterStatesStep
<1>2. UNCHANGED writerVars => WriterStates'
  <2>1. WriterStates
    BY TypesSplit
  <2> QED BY <2>1 DEF writerVars, WriterStates, LogShape
<1>3. WriterStates'
  <2>1. ASSUME NEW r \in Readers, List(r) PROVE UNCHANGED writerVars
    BY <2>1 DEF List
  <2>2. UNCHANGED vars => UNCHANGED writerVars
    BY DEF vars
  <2>3. \/ \E w \in Writers : WriterStep(w)
        \/ \E r \in Readers : List(r)
        \/ UNCHANGED vars
    BY DEF LogNext, WriterStep
  <2> QED BY <1>1, <1>2, <2>1, <2>2, <2>3
<1>4. StoreStates'
  BY StoreStatesStep
<1>5. WriterStates' /\ StoreStates' => LogTypeOK' /\ LogShape'
  <2>1. rows' \in Seq(Row) => DOMAIN rows' = 1..Len(rows')
    BY LenProperties
  <2>2. LogShape' => \A w \in Writers : queue'[w] \in Seq({Stop} \cup Events) /\ batch'[w] \in Seq(Events)
    BY DEF LogShape
  <2> QED BY <2>1, <2>2 DEF LogTypeOK, WriterStates, StoreStates
<1> QED BY <1>3, <1>4, <1>5

--------------------------------------------------------------------------------
(* The Stop.                                                                  *)

\* What a finished batch leaves behind: nothing, and the loop goes on or ends.
LEMMA BatchIsDone ==
    ASSUME LogTypeOK, LogShape, NEW w \in Writers, DropBatch(w) \/ CommitRows(w) \/ WriteFails(w)
    PROVE  /\ UNCHANGED <<emitted, engine, queue, stopping, rows>>
           /\ batch'[w] = <<>> /\ Len(batch'[w]) = 0
           /\ drain'[w] = IF stopping[w] THEN "ENDED" ELSE "TAKING"
<1>1. /\ UNCHANGED <<emitted, engine, queue, stopping, rows>> /\ NextBatch(w)
  BY DEF DropBatch, CommitRows, WriteFails, storeVars
<1>2. batch'[w] = <<>> /\ drain'[w] = AfterBatch(w, stopping[w])
  BY <1>1 DEF LogTypeOK, LogShape, NextBatch
<1> QED BY <1>1, <1>2 DEF AfterBatch

\* Once the Stop is put, no event follows it; once it is taken, nothing is left.
LEMMA StopIsLastStep ==
    ASSUME LogTypeOK, LogShape, NEW v \in Writers, WriterStep(v), NEW w \in Writers, StopIsLast(w)
    PROVE  StopIsLast(w)'
<1>0. /\ WriterStates /\ BatchSize \in Nat \ {0} /\ Len(queue[w]) \in Nat /\ Len(batch[w]) \in Nat
      /\ queue[w] = <<>> => Len(queue[w]) = 0
      /\ Stop \notin Events /\ Stop \in Nat
  BY TypesSplit, WriterTypes, BatchSizeAssumption, EventsArePositive
<1>1. CASE v # w
  BY <1>1, OthersRest DEF StopIsLast
<1>2. CASE v = w /\ Emit(w)
  <2>1. /\ engine'[w] = "RUNNING" /\ engine[w] = "RUNNING"
        /\ batch'[w] = batch[w] /\ drain'[w] = drain[w] /\ stopping'[w] = stopping[w]
    BY <1>2 DEF Emit
  <2>2. \A i \in 1..Len(queue[w]) : queue[w][i] # Stop
    BY <2>1 DEF StopIsLast
  <2>3. ASSUME NEW i \in 1..Len(queue'[w]) PROVE queue'[w][i] # Stop
    <3>1. CASE queue' = queue
      BY <2>2, <3>1
    <3>2. CASE queue' = [queue EXCEPT ![w] = Append(@, emitted[w] + 1)]
      <4>1. emitted[w] \in Nat
        BY WriterTypes
      <4>2. emitted[w] + 1 \in Events
        <5>1. emitted[w] < MaxEvents[w] /\ MaxEvents[w] \in Nat
          BY <1>2, MaxEventsAssumption DEF Emit
        <5>2. emitted[w] + 1 \in 1..MaxEvents[w]
          BY <4>1, <5>1
        <5> QED BY <5>2 DEF Events
      <4>3. /\ Len(queue'[w]) = Len(queue[w]) + 1 /\ queue'[w][Len(queue[w]) + 1] = emitted[w] + 1
            /\ \A j \in 1..Len(queue[w]) : queue'[w][j] = queue[w][j]
        BY <3>2, <4>2, PutAppends
      <4> QED BY <1>0, <2>2, <4>2, <4>3
    <3> QED BY <1>2, <3>1, <3>2 DEF Emit
  <2> QED BY <1>0, <2>1, <2>3 DEF StopIsLast
<1>3. CASE v = w /\ (EngineEnds(w) \/ Join(w))
  BY <1>0, <1>3 DEF EngineEnds, Join, StopIsLast, WriterStates
<1>4. CASE v = w /\ PutStop(w)
  <2>1. /\ engine[w] = "CLOSING" /\ engine'[w] = "JOINING"
        /\ batch'[w] = batch[w] /\ drain'[w] = drain[w] /\ stopping'[w] = stopping[w]
        /\ queue' = [queue EXCEPT ![w] = Append(@, Stop)]
    BY <1>0, <1>4 DEF PutStop, WriterStates
  <2>2. /\ Len(queue'[w]) = Len(queue[w]) + 1
        /\ \A j \in 1..Len(queue[w]) : queue'[w][j] = queue[w][j]
    BY <2>1, PutAppends
  <2>3. \A i \in 1..Len(queue[w]) : queue[w][i] # Stop
    BY <2>1 DEF StopIsLast
  <2>4. \A i \in 1..Len(queue'[w]) : queue'[w][i] = Stop => i = Len(queue'[w])
    BY <1>0, <2>2, <2>3
  <2> QED BY <1>0, <2>1, <2>4 DEF StopIsLast
<1>5. CASE v = w /\ Take(w)
  <2> DEFINE stop == queue[w][1] = Stop
  <2>1. /\ Len(queue[w]) > 0 /\ Len(queue'[w]) = Len(queue[w]) - 1
        /\ \A i \in 1..Len(queue'[w]) : queue'[w][i] = queue[w][i + 1]
        /\ queue'[w] \in Seq({Stop} \cup Events)
        /\ stopping'[w] = stop
        /\ ~stop => Len(batch'[w]) = Len(batch[w]) + 1
        /\ \/ drain'[w] = "TAKING" /\ Collects(batch'[w], stop)
           \/ drain'[w] = Flushes(w, batch'[w], stop)
    BY <1>5, TakeMoves
  <2>2. engine'[w] = engine[w] /\ drain[w] = "TAKING" /\ engine[w] # "CLOSED"
    BY <1>5 DEF Take, StopIsLast
  <2>3. \A i \in 1..Len(queue'[w]) : queue'[w][i] = Stop =>
          i = Len(queue'[w]) /\ engine'[w] \notin {"RUNNING", "CLOSING"}
    <3>1. \A i \in 1..Len(queue'[w]) : i + 1 \in 1..Len(queue[w])
      BY <1>0, <2>1
    <3>2. \A i \in 1..Len(queue'[w]) : queue'[w][i] = Stop =>
            i + 1 = Len(queue[w]) /\ engine[w] \notin {"RUNNING", "CLOSING"}
      BY <2>1, <3>1 DEF StopIsLast
    <3> QED BY <1>0, <2>1, <2>2, <3>2
  <2>4. CASE stop
    <3>1. Len(queue[w]) = 1 /\ engine[w] \notin {"RUNNING", "CLOSING"}
      <4>1. 1 \in 1..Len(queue[w])
        BY <1>0, <2>1
      <4> QED BY <2>4, <4>1 DEF StopIsLast
    <3>2. queue'[w] = <<>>
      BY <2>1, <3>1, EmptySeq
    <3>3. /\ drain'[w] \in {"DROPPING", "LOCKING", "ENDED"}
          /\ drain'[w] = "ENDED" => batch'[w] = <<>>
      BY <2>1, <2>4 DEF Collects, Flushes, AfterBatch
    <3> QED BY <2>1, <2>2, <2>3, <2>4, <3>1, <3>2, <3>3 DEF StopIsLast
  <2>5. CASE ~stop
    <3>1. batch'[w] # <<>>
      BY <1>0, <2>1, <2>5
    <3>2. /\ drain'[w] \in {"DROPPING", "LOCKING", "TAKING"}
          /\ drain'[w] = "TAKING" => Len(batch'[w]) < BatchSize
      BY <2>1, <2>5, <3>1 DEF Collects, Flushes
    <3> QED BY <2>1, <2>2, <2>3, <2>5, <3>2 DEF StopIsLast
  <2> QED BY <2>4, <2>5
<1>6. CASE v = w /\ TakeNothing(w)
  BY <1>0, <1>6 DEF TakeNothing, Flushes, StopIsLast, WriterStates
<1>7. CASE v = w /\ (DropBatch(w) \/ CommitRows(w) \/ WriteFails(w))
  <2>1. drain[w] \notin {"TAKING", "ENDED"}
    BY <1>7 DEF DropBatch, CommitRows, WriteFails
  <2> QED BY <1>0, <1>7, <2>1, BatchIsDone DEF StopIsLast
<1>8. CASE v = w /\ (LockLog(w) \/ InsertRows(w))
  BY <1>0, <1>8 DEF LockLog, InsertRows, StopIsLast, WriterStates
<1>9. CASE v = w /\ Crash(w)
  BY <1>0, <1>9 DEF Crash, StopIsLast, WriterStates
<1> QED BY <1>1, <1>2, <1>3, <1>4, <1>5, <1>6, <1>7, <1>8, <1>9 DEF WriterStep, CallerStep, DrainStep

--------------------------------------------------------------------------------
(* The order of events.                                                       *)

\* Events keep their order through queue, batch and log.
LEMMA OrderStep ==
    ASSUME LogTypeOK, LogShape, NEW v \in Writers, WriterStep(v), NEW w \in Writers, EventsAreOrdered(w)
    PROVE  EventsAreOrdered(w)'
<1> DEFINE W(j) == j \in 1..Len(queue[w]) /\ queue[w][j] # Stop
           X(j) == j \in 1..Len(queue'[w]) /\ queue'[w][j] # Stop
           B == 1..Len(batch[w])
           C == 1..Len(batch'[w])
           Mine(n) == n \in 1..Len(rows) /\ rows[n].writer = w
           Kept(n) == n \in 1..Len(rows') /\ rows'[n].writer = w
<1>0. /\ WriterStates /\ emitted[w] \in Nat /\ Len(queue[w]) \in Nat /\ Len(batch[w]) \in Nat
      /\ Len(rows) \in Nat
      /\ \A j \in 1..Len(queue[w]) : queue[w][j] \in Nat
      /\ \A i \in B : batch[w][i] \in Nat
      /\ \A n \in 1..Len(rows) : rows[n].event \in Nat
      /\ \A n \in 1..Len(rows) : rows[n].writer \in Writers
  <2>1. \A n \in 1..Len(rows) : rows[n] \in Row
    BY ElementOfSeq DEF LogTypeOK
  <2>2. \A n \in 1..Len(rows) : rows[n].event \in Nat /\ rows[n].writer \in Writers
    BY <2>1, EventsArePositive DEF Row
  <2>3. /\ WriterStates /\ emitted[w] \in Nat /\ Len(queue[w]) \in Nat /\ Len(batch[w]) \in Nat
        /\ \A j \in 1..Len(queue[w]) : queue[w][j] \in Nat
        /\ \A i \in B : batch[w][i] \in Nat
    BY TypesSplit, WriterTypes
  <2>4. Len(rows) \in Nat
    BY LenProperties DEF LogTypeOK
  <2> QED BY <2>2, <2>3, <2>4
<1>q. /\ \A j : W(j) => queue[w][j] <= emitted[w]
      /\ \A i, j : W(i) /\ W(j) /\ i < j => queue[w][i] < queue[w][j]
  BY DEF EventsAreOrdered
<1>b. \A i \in B :
        /\ batch[w][i] <= emitted[w]
        /\ \A k \in B : i < k => batch[w][i] < batch[w][k]
        /\ \A j : W(j) => batch[w][i] < queue[w][j]
  BY DEF EventsAreOrdered
<1>r. \A n : Mine(n) =>
        /\ rows[n].event <= emitted[w]
        /\ \A j : W(j) => rows[n].event < queue[w][j]
        /\ drain[w] \notin {"COMMITTING", "ENDED"} => \A i \in B : rows[n].event < batch[w][i]
        /\ \A m : Mine(m) /\ m < n => rows[m].event < rows[n].event
  BY DEF EventsAreOrdered
<1>g. SUFFICES /\ \A j : X(j) => queue'[w][j] <= emitted'[w]
               /\ \A i, j : X(i) /\ X(j) /\ i < j => queue'[w][i] < queue'[w][j]
               /\ \A i \in C :
                    /\ batch'[w][i] <= emitted'[w]
                    /\ \A k \in C : i < k => batch'[w][i] < batch'[w][k]
                    /\ \A j : X(j) => batch'[w][i] < queue'[w][j]
               /\ \A n : Kept(n) =>
                    /\ rows'[n].event <= emitted'[w]
                    /\ \A j : X(j) => rows'[n].event < queue'[w][j]
                    /\ drain'[w] \notin {"COMMITTING", "ENDED"} => \A i \in C : rows'[n].event < batch'[w][i]
                    /\ \A m : Kept(m) /\ m < n => rows'[m].event < rows'[n].event
  BY DEF EventsAreOrdered
<1>1. CASE v # w
  <2>1. emitted'[w] = emitted[w] /\ queue'[w] = queue[w] /\ batch'[w] = batch[w] /\ drain'[w] = drain[w]
    BY <1>1, OthersRest
  <2>2. \A n : Kept(n) => Mine(n) /\ rows'[n] = rows[n]
    <3>1. CASE ~InsertRows(v)
      <4>1. rows' = rows
        BY <1>1, <3>1 DEF WriterStep, CallerStep, DrainStep, Emit, EngineEnds, PutStop, Join, Take,
             TakeNothing, DropBatch, LockLog, CommitRows, WriteFails, Crash, storeVars
      <4> QED BY <4>1
    <3>2. CASE InsertRows(v)
      <4>1. /\ Len(rows') = Len(rows) + Len(batch[v]) /\ Len(rows') \in Nat
            /\ \A n \in 1..Len(rows) : rows'[n] = rows[n]
            /\ \A n \in (Len(rows) + 1)..Len(rows') : rows'[n].writer = v
        BY <1>0, <3>2, InsertAppends, WriterTypes
      <4> QED BY <1>0, <1>1, <4>1
    <3> QED BY <3>1, <3>2
  <2> HIDE DEF W, X, Mine, Kept, B, C
  <2>3. (\A j : X(j) <=> W(j)) /\ B = C
    BY <2>1 DEF W, X, B, C
  <2> QED BY <1>q, <1>b, <1>r, <2>1, <2>2, <2>3
<1>2. CASE v = w /\ Emit(w)
  <2>1. /\ emitted'[w] = emitted[w] + 1 /\ batch'[w] = batch[w] /\ drain'[w] = drain[w] /\ rows' = rows
    BY <1>0, <1>2 DEF Emit, WriterStates, storeVars
  <2>2. \A j : X(j) => (W(j) /\ queue'[w][j] = queue[w][j])
                       \/ (j = Len(queue[w]) + 1 /\ queue'[w][j] = emitted[w] + 1)
    <3>1. CASE queue' = queue
      BY <3>1
    <3>2. CASE queue' = [queue EXCEPT ![w] = Append(@, emitted[w] + 1)]
      <4>1. queue[w] \in Seq({Stop} \cup Events) /\ queue'[w] = Append(queue[w], emitted[w] + 1)
        BY <1>0, <3>2, WriterTypes DEF WriterStates, LogShape
      <4> QED BY <1>0, <4>1
    <3> QED BY <1>2, <3>1, <3>2 DEF Emit
  <2>3. \A j : W(j) => j \in Nat /\ j <= Len(queue[w]) /\ queue[w][j] \in Nat
    BY <1>0
  <2>4. (\A n : Kept(n) <=> Mine(n)) /\ (\A n : Mine(n) => rows[n].event \in Nat) /\ B = C
    BY <1>0, <2>1
  <2> HIDE DEF W, X, Mine, Kept, B, C
  <2>5. \A j : X(j) => queue'[w][j] <= emitted'[w]
    BY <1>0, <1>q, <2>1, <2>2, <2>3
  <2>6. \A i, j : X(i) /\ X(j) /\ i < j => queue'[w][i] < queue'[w][j]
    BY <1>0, <1>q, <2>2, <2>3
  <2>7. \A i \in C :
          /\ batch'[w][i] <= emitted'[w]
          /\ \A k \in C : i < k => batch'[w][i] < batch'[w][k]
          /\ \A j : X(j) => batch'[w][i] < queue'[w][j]
    BY <1>0, <1>b, <2>1, <2>2, <2>3, <2>4
  <2>8. \A n : Kept(n) =>
          /\ rows'[n].event <= emitted'[w]
          /\ \A j : X(j) => rows'[n].event < queue'[w][j]
    BY <1>0, <1>r, <2>1, <2>2, <2>3, <2>4
  <2>9. \A n : Kept(n) =>
          /\ drain'[w] \notin {"COMMITTING", "ENDED"} => \A i \in C : rows'[n].event < batch'[w][i]
          /\ \A m : Kept(m) /\ m < n => rows'[m].event < rows'[n].event
    BY <1>r, <2>1, <2>4
  <2> QED BY <2>5, <2>6, <2>7, <2>8, <2>9
<1>3. CASE v = w /\ CallerStep(w)
  <2>1. emitted' = emitted /\ batch' = batch /\ drain' = drain /\ rows' = rows
    BY <1>3 DEF CallerStep, EngineEnds, PutStop, Join, storeVars
  <2>2. \A j : X(j) => W(j) /\ queue'[w][j] = queue[w][j]
    <3>1. CASE queue' = queue
      BY <3>1
    <3>2. CASE queue' = [queue EXCEPT ![w] = Append(@, Stop)]
      <4>1. queue[w] \in Seq({Stop} \cup Events) /\ queue'[w] = Append(queue[w], Stop)
        BY <1>0, <3>2, WriterTypes DEF WriterStates, LogShape
      <4> QED BY <1>0, <4>1
    <3> QED BY <1>3, <3>1, <3>2 DEF CallerStep, EngineEnds, PutStop, Join
  <2>3. (\A n : Kept(n) <=> Mine(n)) /\ B = C
    BY <2>1
  <2> HIDE DEF W, X, Mine, Kept, B, C
  <2> QED BY <1>q, <1>b, <1>r, <2>1, <2>2, <2>3
<1>4. CASE v = w /\ Take(w)
  <2> DEFINE entry == queue[w][1]
             n == Len(batch[w]) + 1
  <2>1. /\ drain[w] = "TAKING" /\ emitted' = emitted /\ rows' = rows
    BY <1>4 DEF Take, storeVars
  <2>2. /\ Len(queue[w]) > 0 /\ Len(queue'[w]) = Len(queue[w]) - 1
        /\ \A j \in 1..Len(queue'[w]) : queue'[w][j] = queue[w][j + 1]
        /\ entry = Stop => batch'[w] = batch[w]
        /\ entry # Stop =>
             /\ Len(batch'[w]) = n /\ batch'[w][n] = entry
             /\ \A i \in 1..Len(batch[w]) : batch'[w][i] = batch[w][i]
    BY <1>4, TakeMoves
  <2>3. \A j : X(j) => W(j + 1) /\ j + 1 > 1 /\ queue'[w][j] = queue[w][j + 1] /\ j \in Nat
    BY <1>0, <2>2
  <2>4. \A i \in C : (i \in B /\ batch'[w][i] = batch[w][i]) \/ (W(1) /\ i = n /\ batch'[w][i] = entry)
    BY <1>0, <2>2
  <2>5. (\A k : Kept(k) <=> Mine(k)) /\ (\A k : Mine(k) => rows[k].event \in Nat)
    BY <1>0, <2>1
  <2>6. \A i \in B : i \in Nat /\ i < n
    BY <1>0
  <2>7. \A j : W(j) => queue[w][j] \in Nat /\ j \in Nat
    BY <1>0
  <2> HIDE DEF W, X, Mine, Kept, B, C
  <2>8. \A j : X(j) => queue'[w][j] <= emitted'[w]
    BY <1>q, <2>1, <2>3
  <2>9. \A i, j : X(i) /\ X(j) /\ i < j => queue'[w][i] < queue'[w][j]
    BY <1>q, <2>3
  <2>10. \A i \in C : batch'[w][i] <= emitted'[w]
    BY <1>q, <1>b, <2>1, <2>4
  <2>11. \A i, k \in C : i < k => batch'[w][i] < batch'[w][k]
    BY <1>0, <1>b, <2>4, <2>6
  <2>12. \A i \in C : \A j : X(j) => batch'[w][i] < queue'[w][j]
    BY <1>q, <1>b, <2>3, <2>4
  <2>13. \A k : Kept(k) =>
          /\ rows'[k].event <= emitted'[w]
          /\ \A j : X(j) => rows'[k].event < queue'[w][j]
          /\ \A i \in C : rows'[k].event < batch'[w][i]
          /\ \A m : Kept(m) /\ m < k => rows'[m].event < rows'[k].event
    BY <1>r, <2>1, <2>3, <2>4, <2>5
  <2> QED BY <2>8, <2>9, <2>10, <2>11, <2>12, <2>13
<1>5. CASE v = w /\ (TakeNothing(w) \/ LockLog(w) \/ Crash(w))
  <2>1. /\ UNCHANGED <<emitted, queue, batch, rows>>
        /\ drain[w] \notin {"COMMITTING", "ENDED"} \/ drain'[w] = "ENDED"
    BY <1>0, <1>5 DEF TakeNothing, LockLog, Crash, storeVars, WriterStates
  <2>2. (\A n : Kept(n) <=> Mine(n)) /\ (\A j : X(j) <=> W(j)) /\ B = C
    BY <2>1
  <2> HIDE DEF W, X, Mine, Kept, B, C
  <2> QED BY <1>q, <1>b, <1>r, <2>1, <2>2
<1>6. CASE v = w /\ (DropBatch(w) \/ CommitRows(w) \/ WriteFails(w))
  <2>1. UNCHANGED <<emitted, queue, rows>> /\ Len(batch'[w]) = 0
    BY <1>6, BatchIsDone
  <2>2. (\A n : Kept(n) <=> Mine(n)) /\ (\A j : X(j) <=> W(j)) /\ C = {}
    BY <2>1
  <2> HIDE DEF W, X, Mine, Kept, B, C
  <2> QED BY <1>q, <1>r, <2>1, <2>2
<1>7. CASE v = w /\ InsertRows(w)
  <2>1. /\ UNCHANGED <<emitted, queue, batch>> /\ drain[w] = "INSERTING" /\ drain'[w] = "COMMITTING"
    BY <1>0, <1>7 DEF InsertRows, WriterStates
  <2>2. /\ Len(rows') = Len(rows) + Len(batch[w])
        /\ \A n \in 1..Len(rows) : rows'[n] = rows[n]
        /\ \A n \in (Len(rows) + 1)..Len(rows') :
             n - Len(rows) \in B /\ rows'[n].event = batch[w][n - Len(rows)]
    BY <1>7, InsertAppends
  <2>3. \A n : Kept(n) =>
          /\ n \in Nat
          /\ \/ n <= Len(rows) /\ Mine(n) /\ rows'[n] = rows[n]
             \/ /\ n > Len(rows) /\ n - Len(rows) \in B
                /\ rows'[n].event = batch[w][n - Len(rows)]
    BY <1>0, <2>2
  <2>4. (\A j : X(j) <=> W(j)) /\ B = C
    BY <2>1
  <2> HIDE DEF W, X, Mine, Kept, B, C
  <2>5. \A n : Kept(n) =>
          /\ rows'[n].event <= emitted'[w]
          /\ \A j : X(j) => rows'[n].event < queue'[w][j]
    BY <1>b, <1>r, <2>1, <2>3, <2>4
  <2>6. \A m, n : Kept(n) /\ Kept(m) /\ m < n => rows'[m].event < rows'[n].event
    <3> SUFFICES ASSUME NEW m, NEW n, Kept(n), Kept(m), m < n
                 PROVE rows'[m].event < rows'[n].event
      OBVIOUS
    <3>1. CASE n <= Len(rows)
      BY <1>0, <1>r, <2>3, <3>1
    <3>2. CASE n > Len(rows) /\ m <= Len(rows)
      BY <1>0, <1>r, <2>1, <2>3, <3>2
    <3>3. CASE n > Len(rows) /\ m > Len(rows)
      <4>1. m - Len(rows) < n - Len(rows)
        BY <1>0, <2>3
      <4> QED BY <1>0, <1>b, <2>3, <3>3, <4>1
    <3> QED BY <1>0, <2>3, <3>1, <3>2, <3>3
  <2> QED BY <1>q, <1>b, <2>1, <2>4, <2>5, <2>6
<1> QED BY <1>1, <1>2, <1>3, <1>4, <1>5, <1>6, <1>7 DEF WriterStep, DrainStep

--------------------------------------------------------------------------------
(* The log, and what becomes of every event.                                  *)

\* Only the commit of a transaction, whether it is answered or not, adds to
\* what is committed.
LEMMA CommitsGrow ==
    ASSUME LogTypeOK, LogShape, [LogNext]_vars
    PROVE  /\ committed \subseteq committed'
           /\ \A n \in committed : rows'[n] = rows[n] /\ n \in 1..Len(rows)
           /\ \A w \in Writers : Written(w) \subseteq Written(w)'
<1>1. committed \subseteq 1..Len(rows)
  BY LenProperties DEF LogTypeOK
<1>2. committed \subseteq committed'
  <2>1. ASSUME NEW w \in Writers, WriterStep(w) PROVE committed \subseteq committed'
    BY <2>1 DEF WriterStep, CallerStep, DrainStep, Emit, EngineEnds, PutStop, Join, Take, TakeNothing,
                DropBatch, LockLog, InsertRows, CommitRows, WriteFails, Crash, storeVars
  <2>2. ASSUME NEW r \in Readers, List(r) PROVE committed \subseteq committed'
    BY <2>2 DEF List, storeVars
  <2>3. UNCHANGED vars => committed \subseteq committed'
    BY DEF vars, storeVars
  <2> QED BY <2>1, <2>2, <2>3 DEF LogNext, WriterStep
<1>3. \A n \in committed : rows'[n] = rows[n]
  BY <1>1, RowsStay
<1>4. ASSUME NEW w \in Writers PROVE Written(w) \subseteq Written(w)'
  BY <1>2, <1>3 DEF Written
<1> QED BY <1>1, <1>2, <1>3, <1>4

\* What leaves the queue or a batch goes to the log or is counted.
LEMMA EventsAreSomewhereStep ==
    ASSUME LogTypeOK, LogShape, NEW v \in Writers, WriterStep(v),
           NEW w \in Writers, EventsAreSomewhere(w), NumbersAreTaken(w)
    PROVE  EventsAreSomewhere(w)'
<1> DEFINE All == Written(w) \cup dropped[w] \cup ToSet(queue[w]) \cup ToSet(batch[w])
           Places == Written(w)' \cup dropped'[w] \cup ToSet(queue'[w]) \cup ToSet(batch'[w])
<1>0. /\ WriterStates /\ emitted[w] \in Nat
      /\ Written(w) \subseteq Written(w)'
  BY TypesSplit, WriterTypes, CommitsGrow DEF LogNext, WriterStep
<1>1. CASE v # w
  BY <1>0, <1>1, OthersRest DEF EventsAreSomewhere
<1>2. CASE v = w /\ Emit(w)
  <2>1. /\ engine'[w] = engine[w] /\ emitted'[w] = emitted[w] + 1 /\ batch'[w] = batch[w]
    BY <1>0, <1>2 DEF Emit, WriterStates
  <2>2. emitted[w] + 1 \in Events
    <3>1. emitted[w] < MaxEvents[w] /\ MaxEvents[w] \in Nat
      BY <1>2, MaxEventsAssumption DEF Emit
    <3>2. emitted[w] + 1 \in 1..MaxEvents[w]
      BY <1>0, <3>1
    <3> QED BY <3>2 DEF Events
  <2>3. dropped'[w] \cup ToSet(queue'[w]) = dropped[w] \cup ToSet(queue[w]) \cup {emitted[w] + 1}
    <3>1. CASE queue' = [queue EXCEPT ![w] = Append(@, emitted[w] + 1)] /\ dropped' = dropped
      <4>1. ToSet(queue'[w]) = ToSet(queue[w]) \cup {emitted[w] + 1}
        BY <2>2, <3>1, PutAppends
      <4> QED BY <3>1, <4>1
    <3>2. CASE queue' = queue /\ dropped' = [dropped EXCEPT ![w] = @ \cup {emitted[w] + 1}]
      <4>1. dropped'[w] = dropped[w] \cup {emitted[w] + 1}
        BY <1>0, <3>2 DEF WriterStates, LogShape
      <4> QED BY <3>2, <4>1
    <3> QED BY <1>2, <3>1, <3>2 DEF Emit
  <2>4. 1..emitted'[w] \subseteq 1..emitted[w] \cup {emitted[w] + 1}
    BY <1>0, <2>1
  <2> QED BY <1>0, <2>1, <2>3, <2>4 DEF EventsAreSomewhere
<1>3. CASE v = w /\ CallerStep(w)
  <2>1. /\ UNCHANGED <<emitted, batch, dropped>> /\ engine[w] # "CRASHED"
    BY <1>3 DEF CallerStep, EngineEnds, PutStop, Join
  <2>2. ToSet(queue[w]) \subseteq ToSet(queue'[w])
    <3>1. CASE queue' = queue
      BY <3>1
    <3>2. CASE queue' = [queue EXCEPT ![w] = Append(@, Stop)]
      <4>1. ToSet(queue'[w]) = ToSet(queue[w]) \cup {Stop}
        BY <3>2, PutAppends
      <4> QED BY <4>1
    <3> QED BY <1>3, <3>1, <3>2 DEF CallerStep, EngineEnds, PutStop, Join
  <2> QED BY <1>0, <2>1, <2>2 DEF EventsAreSomewhere
<1>4. CASE v = w /\ Take(w)
  <2>1. UNCHANGED <<emitted, engine, dropped>>
    BY <1>4 DEF Take
  <2>2. /\ ToSet(queue[w]) = ToSet(queue'[w]) \cup {queue[w][1]}
        /\ queue[w][1] = Stop => batch'[w] = batch[w]
        /\ queue[w][1] # Stop => ToSet(batch'[w]) = ToSet(batch[w]) \cup {queue[w][1]}
    BY <1>4, TakeMoves
  <2>3. Stop \notin 1..emitted[w]
    BY <1>0 DEF Stop
  <2> QED BY <1>0, <2>1, <2>2, <2>3 DEF EventsAreSomewhere
<1>5. CASE v = w /\ (TakeNothing(w) \/ LockLog(w) \/ InsertRows(w))
  <2>1. UNCHANGED <<emitted, engine, queue, batch, dropped>>
    BY <1>5 DEF TakeNothing, LockLog, InsertRows
  <2> QED BY <1>0, <2>1 DEF EventsAreSomewhere
<1>6. CASE v = w /\ (DropBatch(w) \/ WriteFails(w))
  <2>1. /\ UNCHANGED <<emitted, engine, queue>>
        /\ dropped' = [dropped EXCEPT ![w] = @ \cup ToSet(batch[w])]
    BY <1>6 DEF DropBatch, WriteFails
  <2>2. dropped'[w] = dropped[w] \cup ToSet(batch[w])
    BY <1>0, <2>1 DEF WriterStates, LogShape
  <2> QED BY <1>0, <2>1, <2>2 DEF EventsAreSomewhere
<1>7. CASE v = w /\ CommitRows(w)
  <2>1. /\ UNCHANGED <<emitted, engine, queue, dropped, rows>> /\ drain[w] = "COMMITTING"
        /\ committed' = committed \cup Inserted(w)
    BY <1>7 DEF CommitRows
  <2>2. \A e \in ToSet(batch[w]) : \E n \in Inserted(w) : rows[n].event = e
    BY <2>1 DEF NumbersAreTaken
  <2>3. \A n \in Inserted(w) : rows[n].writer = w
    BY DEF Inserted
  <2>4. ToSet(batch[w]) \subseteq Written(w)'
    BY <2>1, <2>2, <2>3 DEF Written
  <2> QED BY <1>0, <2>1, <2>4 DEF EventsAreSomewhere
<1>8. CASE v = w /\ Crash(w)
  <2>1. engine'[w] = "CRASHED"
    BY <1>0, <1>8 DEF Crash, WriterStates
  <2> QED BY <2>1 DEF EventsAreSomewhere
<1> QED BY <1>1, <1>2, <1>3, <1>4, <1>5, <1>6, <1>7, <1>8 DEF WriterStep, DrainStep

\* The lock, and the numbers that are taken under it.
LEMMA NumbersAreTakenStep ==
    ASSUME LogTypeOK, LogShape, NEW v \in Writers, WriterStep(v), NumbersAreTaken(v),
           NEW w \in Writers, NumbersAreTaken(w), EventsAreOrdered(w)
    PROVE  NumbersAreTaken(w)'
<1>0. WriterStates /\ StoreStates
  BY TypesSplit
<1>1. CASE v # w
  <2>1. batch'[w] = batch[w] /\ drain'[w] = drain[w]
    BY <1>1, OthersRest
  <2>2. SUFFICES ASSUME drain[w] \in {"INSERTING", "COMMITTING"}
                 PROVE  UNCHANGED <<rows, committed, lockedBy>>
    BY <2>1 DEF NumbersAreTaken, Inserted
  <2>3. lockedBy = w /\ w # None /\ drain[v] \notin {"INSERTING", "COMMITTING"}
    BY <1>1, <2>2, NoneAssumption DEF NumbersAreTaken
  <2>4. CASE Emit(v) \/ CallerStep(v) \/ Take(v) \/ TakeNothing(v) \/ DropBatch(v)
    BY <2>4 DEF Emit, CallerStep, EngineEnds, PutStop, Join, Take, TakeNothing, DropBatch, storeVars
  <2>5. CASE LockLog(v) \/ InsertRows(v) \/ CommitRows(v)
    BY <2>3, <2>5 DEF LockLog, LockFree, InsertRows, CommitRows
  <2>6. CASE WriteFails(v) \/ Crash(v)
    BY <1>1, <2>3, <2>6 DEF WriteFails, Crash, Unlocked
  <2> QED BY <2>4, <2>5, <2>6 DEF WriterStep, DrainStep
<1>2. CASE v = w /\ (Emit(w) \/ CallerStep(w))
  <2>1. UNCHANGED <<batch, drain, rows, committed, lockedBy>>
    BY <1>2 DEF Emit, CallerStep, EngineEnds, PutStop, Join, storeVars
  <2> QED BY <2>1 DEF NumbersAreTaken, Inserted
<1>3. CASE v = w /\ (Take(w) \/ TakeNothing(w) \/ DropBatch(w) \/ CommitRows(w) \/ WriteFails(w) \/ Crash(w))
  <2>1. drain'[w] \notin {"INSERTING", "COMMITTING"}
    <3>1. CASE Take(w)
      <4>1. drain'[w] = "TAKING" \/ drain'[w] = Flushes(w, batch'[w], queue[w][1] = Stop)
        BY <3>1, TakeMoves
      <4> QED BY <4>1 DEF Flushes, AfterBatch
    <3>2. CASE TakeNothing(w) \/ Crash(w)
      BY <1>0, <3>2 DEF TakeNothing, Crash, Flushes, AfterBatch, WriterStates
    <3>3. CASE DropBatch(w) \/ CommitRows(w) \/ WriteFails(w)
      BY <3>3, BatchIsDone
    <3> QED BY <1>3, <3>1, <3>2, <3>3
  <2> QED BY <2>1 DEF NumbersAreTaken
<1>4. CASE v = w /\ LockLog(w)
  BY <1>0, <1>4 DEF LockLog, NumbersAreTaken, WriterStates
<1>5. CASE v = w /\ InsertRows(w)
  <2>1. /\ UNCHANGED <<batch, committed, lockedBy>>
        /\ drain[w] = "INSERTING" /\ drain'[w] = "COMMITTING" /\ lockedBy = w
    BY <1>0, <1>5 DEF InsertRows, NumbersAreTaken, WriterStates
  <2>2. /\ rows' \in Seq(Row) /\ Len(rows) \in Nat /\ DOMAIN rows' = 1..Len(rows')
        /\ Len(rows') = Len(rows) + Len(batch[w]) /\ Len(batch[w]) \in Nat
        /\ \A n \in 1..Len(rows) : rows'[n] = rows[n]
        /\ \A i \in 1..Len(batch[w]) :
             /\ Len(rows) + i \in 1..Len(rows')
             /\ rows'[Len(rows) + i].writer = w /\ rows'[Len(rows) + i].event = batch[w][i]
        /\ ToSet(batch[w]) = {batch[w][i] : i \in 1..Len(batch[w])}
        /\ \A i \in 1..Len(batch[w]) : batch[w][i] \in Nat
    BY <1>5, InsertAppends, WriterTypes, LenProperties
  <2>3. \A e \in ToSet(batch[w]) : \E n \in Inserted(w)' : rows'[n].event = e
    <3> SUFFICES ASSUME NEW i \in 1..Len(batch[w])
                 PROVE  \E n \in Inserted(w)' : rows'[n].event = batch[w][i]
      BY <2>2
    <3>1. Len(rows) + i \in Inserted(w)'
      BY <2>1, <2>2 DEF Inserted
    <3> QED BY <2>2, <3>1
  <2>4. ASSUME NEW n \in Inserted(w)' PROVE n \in 1..Len(rows') /\ n > Len(rows)
    <3>1. /\ n \in 1..Len(rows') /\ rows'[n].writer = w
          /\ \E i \in 1..Len(batch[w]) : rows'[n].event = batch[w][i]
      BY <2>1, <2>2 DEF Inserted
    <3>2. CASE n <= Len(rows)
      <4>1. n \in 1..Len(rows) /\ rows[n] = rows'[n]
        BY <2>2, <3>1, <3>2
      <4>2. \A i \in 1..Len(batch[w]) : rows[n].event < batch[w][i]
        BY <2>1, <3>1, <4>1 DEF EventsAreOrdered
      <4> QED BY <2>2, <3>1, <4>1, <4>2
    <3> QED BY <2>2, <3>1, <3>2
  <2>5. \A n \in Inserted(w)', m \in committed' : m < n
    <3>1. committed' \subseteq 1..Len(rows)
      BY <1>0, <2>1 DEF StoreStates
    <3> QED BY <2>2, <2>4, <3>1
  <2> QED BY <2>1, <2>3, <2>5 DEF NumbersAreTaken
<1> QED BY <1>1, <1>2, <1>3, <1>4, <1>5 DEF WriterStep, DrainStep

\* Rows that are committed later have numbers no reader has passed.
LEMMA ReadersKeepUpStep ==
    ASSUME LogTypeOK, LogShape, [LogNext]_vars, ReadersKeepUp, \A w \in Writers : NumbersAreTaken(w)
    PROVE  ReadersKeepUp'
<1>0. /\ StoreStates /\ Len(rows) \in Nat /\ committed \subseteq 1..Len(rows)
      /\ \A r \in Readers : cursor[r] \in Nat
  <2>1. StoreStates /\ Len(rows) \in Nat /\ committed \subseteq 1..Len(rows)
    BY TypesSplit, RowsStay DEF StoreStates
  <2>2. \A r \in Readers : cursor[r] \in 0..Len(rows)
    BY <2>1 DEF StoreStates
  <2> QED BY <2>1, <2>2
<1>1. ASSUME NEW w \in Writers, WriterStep(w) PROVE ReadersKeepUp'
  <2>1. UNCHANGED <<cursor, seen>> /\ committed \subseteq committed'
    BY <1>1, CommitsGrow DEF WriterStep, CallerStep, DrainStep, Emit, EngineEnds, PutStop, Join, Take,
             TakeNothing, DropBatch, LockLog, InsertRows, CommitRows, WriteFails, Crash, readerVars
  <2>2. committed' = committed \/ (drain[w] = "COMMITTING" /\ committed' = committed \cup Inserted(w))
    BY <1>1 DEF WriterStep, CallerStep, DrainStep, Emit, EngineEnds, PutStop, Join, Take, TakeNothing,
                DropBatch, LockLog, InsertRows, CommitRows, WriteFails, Crash, storeVars
  <2>3. ASSUME NEW r \in Readers, NEW n \in committed', n <= cursor[r] PROVE n \in seen[r]
    <3>1. CASE n \in committed
      BY <2>3, <3>1 DEF ReadersKeepUp, ReadersMissNothing
    <3>2. CASE n \notin committed
      <4>1. n \in Inserted(w) /\ \A m \in committed : m < n
        BY <2>2, <3>2 DEF NumbersAreTaken
      <4>2. n \in 1..Len(rows)
        BY <1>0, <4>1, LenProperties DEF Inserted, StoreStates
      <4>3. cursor[r] = 0 \/ cursor[r] < n
        BY <4>1 DEF ReadersKeepUp
      <4> QED BY <1>0, <2>3, <4>2, <4>3
    <3> QED BY <3>1, <3>2
  <2> QED BY <2>1, <2>3 DEF ReadersKeepUp, ReadersMissNothing
<1>2. ASSUME NEW q \in Readers, List(q) PROVE ReadersKeepUp'
  <2>1. /\ UNCHANGED <<rows, committed, lockedBy>>
        /\ cursor' = [cursor EXCEPT ![q] = Following(q)] /\ seen' = [seen EXCEPT ![q] = @ \cup Page(q)]
        /\ Page(q) # {}
    BY <1>2 DEF List, storeVars
  <2>2. /\ Page(q) \subseteq committed /\ Following(q) \in Page(q)
        /\ \A n \in committed : n > cursor[q] /\ n <= Following(q) => n \in Page(q)
    BY <2>1, PageIsFirst
  <2>3. \A r \in Readers : r # q => cursor'[r] = cursor[r] /\ seen'[r] = seen[r]
    BY <1>0, <2>1 DEF StoreStates
  <2>4. cursor'[q] = Following(q) /\ seen'[q] = seen[q] \cup Page(q)
    BY <1>0, <2>1 DEF StoreStates
  <2>5. ASSUME NEW n \in committed, n <= Following(q) PROVE n \in seen[q] \cup Page(q)
    <3>1. CASE n <= cursor[q]
      BY <3>1 DEF ReadersKeepUp, ReadersMissNothing
    <3>2. CASE n > cursor[q]
      BY <2>2, <2>5, <3>2
    <3>3. n \in Nat
      BY <1>0
    <3> QED BY <1>0, <3>1, <3>2, <3>3
  <2> QED BY <2>1, <2>2, <2>3, <2>4, <2>5 DEF ReadersKeepUp, ReadersMissNothing
<1>3. CASE UNCHANGED vars
  BY <1>3 DEF vars, storeVars, readerVars, ReadersKeepUp, ReadersMissNothing
<1> QED BY <1>1, <1>2, <1>3 DEF LogNext, WriterStep

--------------------------------------------------------------------------------
(* The theorems.                                                              *)

\* Everything is empty at first.
LEMMA LogInitially == LogInit => LogInductive
<1> SUFFICES ASSUME LogInit PROVE LogInductive
  OBVIOUS
<1>0. /\ Len(<<>>) = 0 /\ <<>> \in Seq(Events) /\ <<>> \in Seq({Stop} \cup Events) /\ <<>> \in Seq(Row)
      /\ BatchSize \in Nat \ {0} /\ QueueSize \in Nat \ {0}
  BY BatchSizeAssumption, QueueSizeAssumption
<1>1. WriterStates
  BY <1>0 DEF LogInit, WriterStates, LogShape
<1>2. StoreStates
  BY <1>0 DEF LogInit, StoreStates
<1>3. LogTypeOK /\ LogShape
  BY <1>1, <1>2, TypesSplit
<1>4. ReadersKeepUp
  BY DEF LogInit, ReadersKeepUp, ReadersMissNothing
<1>5. ASSUME NEW w \in Writers
      PROVE  StopIsLast(w) /\ EventsAreOrdered(w) /\ EventsAreSomewhere(w) /\ NumbersAreTaken(w)
  <2>1. /\ emitted[w] = 0 /\ engine[w] = "RUNNING" /\ queue[w] = <<>> /\ batch[w] = <<>>
        /\ drain[w] = "TAKING" /\ stopping[w] = FALSE /\ Len(rows) = 0 /\ 1..emitted[w] = {}
    BY <1>0 DEF LogInit
  <2>2. StopIsLast(w)
    BY <1>0, <2>1 DEF StopIsLast
  <2>3. EventsAreOrdered(w)
    BY <1>0, <2>1 DEF EventsAreOrdered
  <2>4. EventsAreSomewhere(w) /\ NumbersAreTaken(w)
    BY <2>1 DEF EventsAreSomewhere, NumbersAreTaken
  <2> QED BY <2>2, <2>3, <2>4
<1> QED BY <1>3, <1>4, <1>5 DEF LogInductive

\* Every step keeps the invariant.
LEMMA LogInductiveStep == LogInductive /\ [LogNext]_vars => LogInductive'
<1> SUFFICES ASSUME LogInductive, [LogNext]_vars PROVE LogInductive'
  OBVIOUS
<1> USE DEF LogInductive
<1>1. LogTypeOK' /\ LogShape'
  BY LogTypeStep
<1>2. ReadersKeepUp'
  BY ReadersKeepUpStep
<1>3. ASSUME NEW v \in Writers, WriterStep(v), NEW w \in Writers
      PROVE  (StopIsLast(w) /\ EventsAreOrdered(w) /\ EventsAreSomewhere(w) /\ NumbersAreTaken(w))'
  BY <1>3, StopIsLastStep, OrderStep, EventsAreSomewhereStep, NumbersAreTakenStep
<1>4. ASSUME UNCHANGED <<writerVars, storeVars>>, NEW w \in Writers
      PROVE  (StopIsLast(w) /\ EventsAreOrdered(w) /\ EventsAreSomewhere(w) /\ NumbersAreTaken(w))'
  <2>1. UNCHANGED <<emitted, engine, queue, batch, drain, stopping, dropped, rows, committed, lockedBy>>
    BY <1>4 DEF writerVars, storeVars
  <2>2. StopIsLast(w)'
    BY <2>1 DEF StopIsLast
  <2>3. EventsAreOrdered(w)'
    BY <2>1 DEF EventsAreOrdered
  <2>4. EventsAreSomewhere(w)'
    BY <2>1 DEF EventsAreSomewhere, Written
  <2>5. NumbersAreTaken(w)'
    BY <2>1 DEF NumbersAreTaken, Inserted
  <2> QED BY <2>2, <2>3, <2>4, <2>5
<1>5. \/ \E v \in Writers : WriterStep(v)
      \/ UNCHANGED <<writerVars, storeVars>>
  BY DEF LogNext, WriterStep, List, vars
<1> QED BY <1>1, <1>2, <1>3, <1>4, <1>5

(* The invariant holds of every reachable state, for any writers, readers and *)
(* sizes: _drain and append keep the order of events and the numbers of rows. *)
THEOREM LogInductiveHolds == LogSpec => []LogInductive
BY LogInitially, LogInductiveStep, PTL DEF LogSpec

\* Types, and the bounds of the queue and of a batch (emit, _drain).
THEOREM LogTypes == LogSpec => []LogTypeOK
<1>1. LogInductive => LogTypeOK
  BY DEF LogInductive
<1> QED BY <1>1, LogInductiveHolds, PTL

(* Every event of a call that was closed is in the log or was counted, and the *)
(* log has a call's events once, in the order they were emitted (close,       *)
(* _drain, append).                                                           *)
THEOREM EventsAccountedFor == LogSpec => []EventsAreAccountedFor
<1>1. LogInductive => EventsAreAccountedFor
  <2> SUFFICES ASSUME LogInductive, NEW w \in Writers
               PROVE  /\ engine[w] = "CLOSED" => Written(w) \cup dropped[w] = 1..emitted[w]
                      /\ \A m, n \in committed :
                          rows[m].writer = w /\ rows[n].writer = w /\ m < n => rows[m].event < rows[n].event
    BY DEF EventsAreAccountedFor
  <2>0. /\ LogTypeOK /\ LogShape /\ StopIsLast(w) /\ EventsAreOrdered(w) /\ EventsAreSomewhere(w)
        /\ dropped[w] \subseteq 1..emitted[w] /\ emitted[w] \in Nat
    BY WriterTypes DEF LogInductive
  <2>1. /\ committed \subseteq 1..Len(rows) /\ \A n \in 1..Len(rows) : rows[n] \in Row
    BY <2>0, LenProperties, ElementOfSeq DEF LogTypeOK
  <2>2. \A m, n \in committed :
          rows[m].writer = w /\ rows[n].writer = w /\ m < n => rows[m].event < rows[n].event
    BY <2>0, <2>1 DEF EventsAreOrdered
  <2>3. Written(w) \subseteq 1..emitted[w]
    <3> SUFFICES ASSUME NEW n \in committed, rows[n].writer = w PROVE rows[n].event \in 1..emitted[w]
      BY DEF Written
    <3>1. rows[n].event \in Nat \ {0}
      BY <2>1, EventsArePositive DEF Row
    <3>2. rows[n].event <= emitted[w]
      BY <2>0, <2>1 DEF EventsAreOrdered
    <3> QED BY <2>0, <3>1, <3>2
  <2>4. ASSUME engine[w] = "CLOSED" PROVE 1..emitted[w] \subseteq Written(w) \cup dropped[w]
    <3>1. queue[w] = <<>> /\ batch[w] = <<>>
      BY <2>0, <2>4 DEF StopIsLast
    <3>2. ToSet(<<>>) = {}
      BY DEF ToSet
    <3> QED BY <2>0, <2>4, <3>1, <3>2 DEF EventsAreSomewhere
  <2> QED BY <2>0, <2>2, <2>3, <2>4
<1> QED BY <1>1, LogInductiveHolds, PTL

(* A client that follows the cursor misses no row, however many calls write to *)
(* the log at a time (append, list).                                          *)
THEOREM ReadersMissNothingHolds == LogSpec => []ReadersMissNothing
<1>1. LogInductive => ReadersMissNothing
  BY DEF LogInductive, ReadersKeepUp
<1> QED BY <1>1, LogInductiveHolds, PTL
================================================================================
