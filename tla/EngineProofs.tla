----------------------------- MODULE EngineProofs -----------------------------
(* Theorems of EngineBarrier and of OutputRedaction: for any number of        *)
(* processes, builds and queries, engines are isolated and nothing is removed  *)
(* from under a thread; and for texts, secrets and tails of any length, no     *)
(* secret leaves an engine, however its output is cut.                         *)
EXTENDS EngineBarrier, OutputRedaction, FiniteSetTheorems, SequenceTheorems, WellFoundedInduction, TLAPS

--------------------------------------------------------------------------------
(* EngineBarrier: the inductive invariant.                                    *)

\* The places at which an engine may run or a caller holds ENGINE_LOCK, those at
\* which the directory of an attempt is there, and those at which its log is open.
Locked == {"AUTHORIZING", "ENGINE"}
Housed == {"PREPARING", "READING", "WAITING", "AUTHORIZING", "ENGINE", "CLOSING", "PERSISTING", "LEAVING"}
Logging == {"WAITING", "AUTHORIZING", "ENGINE"}

(* Who is at a place that needs ENGINE_LOCK has it, and only there is there an *)
(* engine; the process has the environment of the call whose engine is inside  *)
(* of it, and what is saved is what it began with.                            *)
LockIsHeld ==
    /\ \A c \in Calls :
        /\ at[c] \in Locked => lock[ProcessOf[c]] = c
        /\ engine[c] # "NONE" => at[c] = "ENGINE"
        /\ engine[c] = "INSIDE" => environ[ProcessOf[c]] = c
        /\ original[c] = None
    /\ \A p \in Processes : environ[p] # None =>
        ProcessOf[environ[p]] = p /\ engine[environ[p]] = "INSIDE"

\* A build has a thread only while its caller awaits it, and of that kind.
ThreadsAreAwaited ==
    \A c \in Calls :
        /\ thread[c] = "FILES" => at[c] \in {"PREPARING", "PERSISTING"}
        /\ thread[c] = "CLOSE" => at[c] = "CLOSING"
        /\ thread[c] = "DATABASE" => at[c] = "AUTHORIZING"
        /\ thread[c] = "OVER" => at[c] \in {"PREPARING", "AUTHORIZING", "CLOSING", "PERSISTING"}

(* The directory of an attempt is there from before its first thread to after  *)
(* its last, that of a query while its engine is inside, each below that of    *)
(* its job; and the log of an attempt is open until its engine is over.        *)
FilesAreKept ==
    /\ \A c \in Builds :
        /\ at[c] \in Housed => c \in dirs
        /\ at[c] \in Logging => writer[c] = "OPEN"
    /\ \A c \in Queries :
        /\ at[c] \in {"WAITING", "ENGINE", "ENDED"}
        /\ c \in dirs <=> engine[c] = "INSIDE"
    /\ \A c \in dirs : JobOf[c] \in parents

BarrierInductive == BarrierTypeOK /\ LockIsHeld /\ ThreadsAreAwaited /\ FilesAreKept

--------------------------------------------------------------------------------
(* The steps.                                                                 *)

\* Types are kept, and who has a lock is at a place that needs it.
LEMMA BarrierTypeStep ==
    ASSUME BarrierTypeOK, LockIsHeld, [BarrierNext]_vars
    PROVE  BarrierTypeOK'
<1> USE ProcessAssumption, JobAssumption, NoneAssumption
    DEF Calls, BarrierTypeOK, Places, Awaiting, Synchronous, Threads, Engines,
          Outcomes, LockIsHeld, Locked
<1>1. CASE UNCHANGED vars
  BY <1>1 DEF vars
<1>2. ASSUME NEW c \in Builds, MakeParent(c) PROVE BarrierTypeOK'
  BY <1>2 DEF MakeParent, Moves
<1>3. ASSUME NEW c \in Builds, MakeDirectory(c) PROVE BarrierTypeOK'
  BY <1>3 DEF MakeDirectory, Moves, Thread
<1>4. ASSUME NEW c \in Builds, Prepared(c) PROVE BarrierTypeOK'
  BY <1>4 DEF Prepared, Resumes, Result, Moves, Joined
<1>5. ASSUME NEW c \in Builds, ReadNames(c) PROVE BarrierTypeOK'
  BY <1>5 DEF ReadNames, Moves
<1>6. ASSUME NEW c \in Builds, CancelledWaiting(c) PROVE BarrierTypeOK'
  BY <1>6 DEF CancelledWaiting, StartClose, Moves, Thread
<1>7. ASSUME NEW c \in Builds, Authorized(c) PROVE BarrierTypeOK'
  BY <1>7 DEF Authorized, Resumes, Moves, Engine, Joined
<1>8. ASSUME NEW c \in Builds, NotAuthorized(c) PROVE BarrierTypeOK'
  BY <1>8 DEF NotAuthorized, Resumes, StartClose, Frees, Moves, Thread
<1>9. ASSUME NEW c \in Builds, LogClosed(c) PROVE BarrierTypeOK'
  BY <1>9 DEF LogClosed, Resumes, Result, Moves, Thread, Joined
<1>10. ASSUME NEW c \in Builds, Persisted(c) PROVE BarrierTypeOK'
  BY <1>10 DEF Persisted, Resumes, Moves, Result, Joined
<1>11. ASSUME NEW c \in Builds, RemoveDirectory(c) PROVE BarrierTypeOK'
  BY <1>11 DEF RemoveDirectory, Moves
<1>12. ASSUME NEW c \in Builds, RemoveParent(c) PROVE BarrierTypeOK'
  BY <1>12 DEF RemoveParent, Moves
<1>13. ASSUME NEW c \in Calls, Acquire(c) PROVE BarrierTypeOK'
  BY <1>13 DEF Acquire, Moves, Thread, Engine
<1>14. ASSUME NEW c \in Calls, EngineReturns(c) PROVE BarrierTypeOK'
  BY <1>14 DEF EngineReturns, EngineResumes, Frees, Result, StartClose, Moves, Joined,
      Thread
<1>15. ASSUME NEW c \in Calls, EnterEngine(c) PROVE BarrierTypeOK'
  BY <1>15 DEF EnterEngine, Engine, QueryEnters
<1>16. ASSUME NEW c \in Calls, SkipEngine(c) PROVE BarrierTypeOK'
  BY <1>16 DEF SkipEngine, Engine
<1>17. ASSUME NEW c \in Calls, LeaveEngine(c) PROVE BarrierTypeOK'
  BY <1>17 DEF LeaveEngine, Engine, QueryLeaves
<1>18. ASSUME NEW c \in Calls, ThreadEnds(c) PROVE BarrierTypeOK'
  BY <1>18 DEF ThreadEnds, Thread
<1>19. ASSUME NEW c \in Calls, Cancel(c) PROVE BarrierTypeOK'
  BY <1>19 DEF Cancel
<1> QED BY <1>1, <1>2, <1>3, <1>4, <1>5, <1>6, <1>7, <1>8, <1>9,
           <1>10, <1>11, <1>12, <1>13, <1>14, <1>15, <1>16, <1>17, <1>18, <1>19
  DEF BarrierNext, CallerStep, BuildStep, ThreadStep

\* An engine that is inside found the environment the process began with.
LEMMA LockIsHeldStep ==
    ASSUME BarrierTypeOK, LockIsHeld, [BarrierNext]_vars
    PROVE  LockIsHeld'
<1> USE ProcessAssumption, NoneAssumption
    DEF Calls, BarrierTypeOK, LockIsHeld, Locked
<1>1. CASE UNCHANGED vars
  BY <1>1 DEF vars
<1>2. ASSUME NEW c \in Builds, MakeParent(c) PROVE LockIsHeld'
  BY <1>2 DEF MakeParent, Moves
<1>3. ASSUME NEW c \in Builds, MakeDirectory(c) PROVE LockIsHeld'
  BY <1>3 DEF MakeDirectory, Moves, Thread
<1>4. ASSUME NEW c \in Builds, Prepared(c) PROVE LockIsHeld'
  BY <1>4 DEF Prepared, Resumes, Result, Moves, Joined
<1>5. ASSUME NEW c \in Builds, ReadNames(c) PROVE LockIsHeld'
  BY <1>5 DEF ReadNames, Moves
<1>6. ASSUME NEW c \in Builds, CancelledWaiting(c) PROVE LockIsHeld'
  BY <1>6 DEF CancelledWaiting, StartClose, Moves, Thread
<1>7. ASSUME NEW c \in Builds, Authorized(c) PROVE LockIsHeld'
  BY <1>7 DEF Authorized, Resumes, Moves, Engine, Joined
<1>8. ASSUME NEW c \in Builds, NotAuthorized(c) PROVE LockIsHeld'
  BY <1>8 DEF NotAuthorized, Resumes, StartClose, Frees, Moves, Thread
<1>9. ASSUME NEW c \in Builds, LogClosed(c) PROVE LockIsHeld'
  BY <1>9 DEF LogClosed, Resumes, Result, Moves, Thread, Joined
<1>10. ASSUME NEW c \in Builds, Persisted(c) PROVE LockIsHeld'
  BY <1>10 DEF Persisted, Resumes, Moves, Result, Joined
<1>11. ASSUME NEW c \in Builds, RemoveDirectory(c) PROVE LockIsHeld'
  BY <1>11 DEF RemoveDirectory, Moves
<1>12. ASSUME NEW c \in Builds, RemoveParent(c) PROVE LockIsHeld'
  BY <1>12 DEF RemoveParent, Moves
<1>13. ASSUME NEW c \in Calls, Acquire(c) PROVE LockIsHeld'
  BY <1>13 DEF Acquire, Moves, Thread, Engine
<1>14. ASSUME NEW c \in Calls, EngineReturns(c) PROVE LockIsHeld'
  BY <1>14 DEF EngineReturns, EngineResumes, Frees, Result, StartClose, Moves, Joined,
      Thread
<1>15. ASSUME NEW c \in Calls, EnterEngine(c) PROVE LockIsHeld'
  BY <1>15 DEF EnterEngine, Engine, QueryEnters
<1>16. ASSUME NEW c \in Calls, SkipEngine(c) PROVE LockIsHeld'
  BY <1>16 DEF SkipEngine, Engine
<1>17. ASSUME NEW c \in Calls, LeaveEngine(c) PROVE LockIsHeld'
  BY <1>17 DEF LeaveEngine, Engine, QueryLeaves
<1>18. ASSUME NEW c \in Calls, ThreadEnds(c) PROVE LockIsHeld'
  BY <1>18 DEF ThreadEnds, Thread
<1>19. ASSUME NEW c \in Calls, Cancel(c) PROVE LockIsHeld'
  BY <1>19 DEF Cancel, Awaiting
<1> QED BY <1>1, <1>2, <1>3, <1>4, <1>5, <1>6, <1>7, <1>8, <1>9,
           <1>10, <1>11, <1>12, <1>13, <1>14, <1>15, <1>16, <1>17, <1>18, <1>19
  DEF BarrierNext, CallerStep, BuildStep, ThreadStep

\* A caller does not go on before its thread is over.
LEMMA ThreadsAreAwaitedStep ==
    ASSUME BarrierTypeOK, FilesAreKept, ThreadsAreAwaited, [BarrierNext]_vars
    PROVE  ThreadsAreAwaited'
<1> USE KindAssumption
    DEF Calls, BarrierTypeOK, Threads, FilesAreKept, ThreadsAreAwaited
<1>1. CASE UNCHANGED vars
  BY <1>1 DEF vars
<1>2. ASSUME NEW c \in Builds, MakeParent(c) PROVE ThreadsAreAwaited'
  BY <1>2 DEF MakeParent, Moves
<1>3. ASSUME NEW c \in Builds, MakeDirectory(c) PROVE ThreadsAreAwaited'
  BY <1>3 DEF MakeDirectory, Moves, Thread
<1>4. ASSUME NEW c \in Builds, Prepared(c) PROVE ThreadsAreAwaited'
  BY <1>4 DEF Prepared, Resumes, Result, Moves, Joined
<1>5. ASSUME NEW c \in Builds, ReadNames(c) PROVE ThreadsAreAwaited'
  BY <1>5 DEF ReadNames, Moves
<1>6. ASSUME NEW c \in Builds, CancelledWaiting(c) PROVE ThreadsAreAwaited'
  BY <1>6 DEF CancelledWaiting, StartClose, Moves, Thread
<1>7. ASSUME NEW c \in Builds, Authorized(c) PROVE ThreadsAreAwaited'
  BY <1>7 DEF Authorized, Resumes, Moves, Engine, Joined
<1>8. ASSUME NEW c \in Builds, NotAuthorized(c) PROVE ThreadsAreAwaited'
  BY <1>8 DEF NotAuthorized, Resumes, StartClose, Frees, Moves, Thread
<1>9. ASSUME NEW c \in Builds, LogClosed(c) PROVE ThreadsAreAwaited'
  BY <1>9 DEF LogClosed, Resumes, Result, Moves, Thread, Joined
<1>10. ASSUME NEW c \in Builds, Persisted(c) PROVE ThreadsAreAwaited'
  BY <1>10 DEF Persisted, Resumes, Moves, Result, Joined
<1>11. ASSUME NEW c \in Builds, RemoveDirectory(c) PROVE ThreadsAreAwaited'
  BY <1>11 DEF RemoveDirectory, Moves
<1>12. ASSUME NEW c \in Builds, RemoveParent(c) PROVE ThreadsAreAwaited'
  BY <1>12 DEF RemoveParent, Moves
<1>13. ASSUME NEW c \in Calls, Acquire(c) PROVE ThreadsAreAwaited'
  BY <1>13 DEF Acquire, Moves, Thread, Engine
<1>14. ASSUME NEW c \in Calls, EngineReturns(c) PROVE ThreadsAreAwaited'
  BY <1>14 DEF EngineReturns, EngineResumes, Frees, Result, StartClose, Moves, Joined,
      Thread
<1>15. ASSUME NEW c \in Calls, EnterEngine(c) PROVE ThreadsAreAwaited'
  BY <1>15 DEF EnterEngine, Engine, QueryEnters
<1>16. ASSUME NEW c \in Calls, SkipEngine(c) PROVE ThreadsAreAwaited'
  BY <1>16 DEF SkipEngine, Engine
<1>17. ASSUME NEW c \in Calls, LeaveEngine(c) PROVE ThreadsAreAwaited'
  BY <1>17 DEF LeaveEngine, Engine, QueryLeaves
<1>18. ASSUME NEW c \in Calls, ThreadEnds(c) PROVE ThreadsAreAwaited'
  BY <1>18 DEF ThreadEnds, Thread
<1>19. ASSUME NEW c \in Calls, Cancel(c) PROVE ThreadsAreAwaited'
  BY <1>19 DEF Cancel, Awaiting
<1> QED BY <1>1, <1>2, <1>3, <1>4, <1>5, <1>6, <1>7, <1>8, <1>9,
           <1>10, <1>11, <1>12, <1>13, <1>14, <1>15, <1>16, <1>17, <1>18, <1>19
  DEF BarrierNext, CallerStep, BuildStep, ThreadStep

\* Directories are removed by the call they belong to, after its threads.
LEMMA FilesAreKeptStep ==
    ASSUME BarrierTypeOK, LockIsHeld, ThreadsAreAwaited, FilesAreKept, [BarrierNext]_vars
    PROVE  FilesAreKept'
<1> USE KindAssumption, JobAssumption, QueryAssumption
    DEF Calls, BarrierTypeOK, LockIsHeld, FilesAreKept, Housed, Logging
<1>1. CASE UNCHANGED vars
  BY <1>1 DEF vars
<1>2. ASSUME NEW c \in Builds, MakeParent(c) PROVE FilesAreKept'
  BY <1>2 DEF MakeParent, Moves
<1>3. ASSUME NEW c \in Builds, MakeDirectory(c) PROVE FilesAreKept'
  BY <1>3 DEF MakeDirectory, Moves, Thread
<1>4. ASSUME NEW c \in Builds, Prepared(c) PROVE FilesAreKept'
  BY <1>4 DEF Prepared, Resumes, Result, Moves, Joined
<1>5. ASSUME NEW c \in Builds, ReadNames(c) PROVE FilesAreKept'
  BY <1>5 DEF ReadNames, Moves
<1>6. ASSUME NEW c \in Builds, CancelledWaiting(c) PROVE FilesAreKept'
  BY <1>6 DEF CancelledWaiting, StartClose, Moves, Thread
<1>7. ASSUME NEW c \in Builds, Authorized(c) PROVE FilesAreKept'
  BY <1>7 DEF Authorized, Resumes, Moves, Engine, Joined
<1>8. ASSUME NEW c \in Builds, NotAuthorized(c) PROVE FilesAreKept'
  BY <1>8 DEF NotAuthorized, Resumes, StartClose, Frees, Moves, Thread
<1>9. ASSUME NEW c \in Builds, LogClosed(c) PROVE FilesAreKept'
  BY <1>9 DEF LogClosed, Resumes, Result, Moves, Thread, Joined
<1>10. ASSUME NEW c \in Builds, Persisted(c) PROVE FilesAreKept'
  BY <1>10 DEF Persisted, Resumes, Moves, Result, Joined
<1>11. ASSUME NEW c \in Builds, RemoveDirectory(c) PROVE FilesAreKept'
  BY <1>11 DEF RemoveDirectory, Moves
<1>12. ASSUME NEW c \in Builds, RemoveParent(c) PROVE FilesAreKept'
  BY <1>12 DEF RemoveParent, Moves, InUse
<1>13. ASSUME NEW c \in Calls, Acquire(c) PROVE FilesAreKept'
  BY <1>13 DEF Acquire, Moves, Thread, Engine
<1>14. ASSUME NEW c \in Calls, EngineReturns(c) PROVE FilesAreKept'
  BY <1>14 DEF EngineReturns, EngineResumes, Frees, Result, StartClose, Moves, Joined,
      Thread
<1>15. ASSUME NEW c \in Calls, EnterEngine(c) PROVE FilesAreKept'
  BY <1>15 DEF EnterEngine, Engine, QueryEnters
<1>16. ASSUME NEW c \in Calls, SkipEngine(c) PROVE FilesAreKept'
  BY <1>16 DEF SkipEngine, Engine
<1>17. ASSUME NEW c \in Calls, LeaveEngine(c) PROVE FilesAreKept'
  BY <1>17 DEF LeaveEngine, Engine, QueryLeaves
<1>18. ASSUME NEW c \in Calls, ThreadEnds(c) PROVE FilesAreKept'
  BY <1>18 DEF ThreadEnds, Thread
<1>19. ASSUME NEW c \in Calls, Cancel(c) PROVE FilesAreKept'
  BY <1>19 DEF Cancel, Awaiting
<1> QED BY <1>1, <1>2, <1>3, <1>4, <1>5, <1>6, <1>7, <1>8, <1>9,
           <1>10, <1>11, <1>12, <1>13, <1>14, <1>15, <1>16, <1>17, <1>18, <1>19
  DEF BarrierNext, CallerStep, BuildStep, ThreadStep

--------------------------------------------------------------------------------
(* The theorems.                                                              *)

(* The invariant: whoever needs the lock has it, an awaited thread holds its   *)
(* caller, and a directory outlives the threads that work in it.              *)
THEOREM BarrierInductiveHolds == BarrierSpec => []BarrierInductive
<1>1. BarrierInit => BarrierInductive
  <2> SUFFICES ASSUME BarrierInit PROVE BarrierInductive
    OBVIOUS
  <2>1. BarrierTypeOK
    BY DEF BarrierInit, BarrierTypeOK, Calls, Places, Awaiting, Synchronous, Threads, Engines, Outcomes
  <2>2. LockIsHeld /\ ThreadsAreAwaited
    BY DEF BarrierInit, LockIsHeld, ThreadsAreAwaited, Locked
  <2>3. FilesAreKept
    BY KindAssumption DEF BarrierInit, FilesAreKept, Housed, Logging, Calls
  <2> QED BY <2>1, <2>2, <2>3 DEF BarrierInductive
<1>2. BarrierInductive /\ [BarrierNext]_vars => BarrierInductive'
  BY BarrierTypeStep, LockIsHeldStep, ThreadsAreAwaitedStep, FilesAreKeptStep DEF BarrierInductive
<1> QED BY <1>1, <1>2, PTL DEF BarrierSpec

\* Types; and ENGINE_LOCK is held by nobody who does not need it.
THEOREM BarrierTypes == BarrierSpec => []BarrierTypeOK
BY BarrierInductiveHolds, PTL DEF BarrierInductive

(* dbt runs for one call of a process at a time, in the environment of that    *)
(* call, and leaves the process with the environment it began with.           *)
THEOREM IsolationHolds == BarrierSpec => []EnginesAreIsolated
<1>1. BarrierInductive => EnginesAreIsolated
  <2> SUFFICES ASSUME BarrierInductive, NEW p \in Processes
               PROVE  LET inside == {c \in Calls : ProcessOf[c] = p /\ engine[c] = "INSIDE"}
                      IN  /\ Cardinality(inside) <= 1
                          /\ \A c \in inside : environ[p] = c /\ lock[p] = c
                          /\ inside = {} => environ[p] = None
    BY DEF EnginesAreIsolated
  <2> DEFINE inside == {c \in Calls : ProcessOf[c] = p /\ engine[c] = "INSIDE"}
  <2>1. \A c \in inside : environ[p] = c /\ lock[p] = c
    BY DEF BarrierInductive, LockIsHeld, Locked
  <2>2. inside = {} => environ[p] = None
    <3>1. environ[p] \in Calls \cup {None}
      BY DEF BarrierInductive, BarrierTypeOK
    <3> QED BY <3>1 DEF BarrierInductive, LockIsHeld
  <2>3. Cardinality(inside) <= 1
    <3>1. inside \in SUBSET {environ[p]}
      BY <2>1
    <3>2. IsFiniteSet({environ[p]}) /\ Cardinality({environ[p]}) = 1
      BY FS_Singleton
    <3> HIDE DEF inside
    <3>3. Cardinality(inside) <= Cardinality({environ[p]})
      BY <3>1, <3>2, FS_Subset
    <3> QED BY <3>2, <3>3
  <2> QED BY <2>1, <2>2, <2>3
<1> QED BY <1>1, BarrierInductiveHolds, PTL

(* While a thread works for a call, its directories are there and its log takes *)
(* entries; and no call ends before its threads.                              *)
THEOREM FilesOutliveThreadsHolds == BarrierSpec => []FilesOutliveThreads
<1>1. BarrierInductive => FilesOutliveThreads
  <2> SUFFICES ASSUME BarrierInductive, NEW c \in Calls
               PROVE  /\ at[c] = "ENDED" => thread[c] = "NONE" /\ engine[c] = "NONE"
                      /\ thread[c] = "FILES" \/ engine[c] = "INSIDE" => c \in dirs /\ JobOf[c] \in parents
                      /\ engine[c] = "INSIDE" /\ c \in Builds => writer[c] = "OPEN"
    BY DEF FilesOutliveThreads
  <2>0. BarrierTypeOK /\ LockIsHeld /\ ThreadsAreAwaited /\ FilesAreKept
    BY DEF BarrierInductive
  <2>1. at[c] = "ENDED" => thread[c] = "NONE" /\ engine[c] = "NONE"
    BY <2>0 DEF BarrierTypeOK, LockIsHeld, ThreadsAreAwaited, Threads
  <2>2. c \in Queries => thread[c] # "FILES"
    BY <2>0 DEF ThreadsAreAwaited, FilesAreKept
  <2>3. thread[c] = "FILES" \/ engine[c] = "INSIDE" => c \in dirs
    BY <2>0, <2>2 DEF LockIsHeld, ThreadsAreAwaited, FilesAreKept, Housed, Calls
  <2> QED BY <2>0, <2>1, <2>3 DEF LockIsHeld, FilesAreKept, Logging
<1> QED BY <1>1, BarrierInductiveHolds, PTL

--------------------------------------------------------------------------------
(* Redaction: what a scan of a text does.                                     *)

\* Of numbers one is the smallest.
LEMMA Smallest ==
    ASSUME NEW S \in SUBSET Nat, S # {} PROVE \E x \in S : \A y \in S : x <= y
<1>1. PICK x \in S : \A y \in S : ~(<<y, x>> \in OpToRel(<, Nat))
  BY WFMin, NatLessThanWellFounded
<1>2. \A y \in S : ~(y < x)
  BY <1>1 DEF OpToRel
<1> QED BY <1>2

\* Of bounded numbers one is the largest.
LEMMA Largest ==
    ASSUME NEW n \in Nat, NEW S \in SUBSET (0..n), S # {}
    PROVE  \E x \in S : \A y \in S : y <= x
<1> DEFINE T == {n - y : y \in S}
<1>1. T \in SUBSET Nat /\ T # {}
  <2>1. \A y \in S : n - y \in Nat
    OBVIOUS
  <2>2. PICK y \in S : TRUE
    OBVIOUS
  <2>3. n - y \in T
    OBVIOUS
  <2> QED BY <2>1, <2>3
<1> HIDE DEF T
<1>2. PICK t \in T : \A u \in T : t <= u
  BY <1>1, Smallest
<1>3. PICK x \in S : t = n - x
  BY <1>2 DEF T
<1>4. ASSUME NEW y \in S PROVE y <= x
  <2>1. n - y \in T
    BY DEF T
  <2> QED BY <1>2, <1>3, <2>1
<1> QED BY <1>4

\* Induction from the end of a text to its beginning.
LEMMA Backward ==
    ASSUME NEW n \in Nat, NEW S,
           \A i \in 1..n : (\A j \in (i + 1)..n : j \in S) => i \in S
    PROVE  \A i \in 1..n : i \in S
<1> DEFINE T == (1..n) \ S
<1>1. SUFFICES ASSUME T # {} PROVE FALSE
  OBVIOUS
<1>2. T \in SUBSET (0..n)
  OBVIOUS
<1> HIDE DEF T
<1>3. PICK i \in T : \A j \in T : j <= i
  BY <1>1, <1>2, Largest
<1>4. i \in 1..n /\ i \notin S /\ \A j \in (i + 1)..n : j \notin T
  BY <1>2, <1>3 DEF T
<1>5. \A j \in (i + 1)..n : j \in S
  BY <1>4 DEF T
<1> QED BY <1>4, <1>5

\* The largest of a set.
LEMMA MaxIs ==
    ASSUME NEW S \in SUBSET Int, NEW x \in S, \A y \in S : y <= x
    PROVE  Max(S) = x
<1>1. \A z \in S : (\A y \in S : z >= y) => z = x
  OBVIOUS
<1> QED BY <1>1 DEF Max

\* What Min of a set of bounded numbers is.
LEMMA MinIs ==
    ASSUME NEW S \in SUBSET Int, NEW x \in S, \A y \in S : x <= y
    PROVE  Min(S) = x
<1>1. \A z \in S : (\A y \in S : z =< y) => z = x
  OBVIOUS
<1> QED BY <1>1 DEF Min

\* MatchLength is the length of the longest secret at a position, or 0.
LEMMA Longest ==
    ASSUME NEW A, NEW ss \in SUBSET (Seq(A) \ {<<>>}), NEW text \in Seq(A), NEW i \in 1..Len(text)
    PROVE  LET length == MatchLength(ss, text, i) IN
           /\ length \in Nat /\ i + Max({1, length}) \in (i + 1)..(Len(text) + 1)
           /\ Max({1, length}) = IF length = 0 THEN 1 ELSE length
           /\ length # 0 => \E s \in ss : OccursAt(s, text, i) /\ Len(s) = length
           /\ \A s \in ss : OccursAt(s, text, i) => Len(s) <= length /\ length # 0
<1> DEFINE lengths == {0} \cup {Len(s) : s \in {s \in ss : OccursAt(s, text, i)}}
           length == MatchLength(ss, text, i)
<1>1. \A s \in ss : Len(s) \in Nat \ {0}
  BY EmptySeq
<1>2. \A s \in ss : OccursAt(s, text, i) => Len(s) <= Len(text) - i + 1
  BY <1>1 DEF OccursAt
<1>3. lengths \in SUBSET (0..(Len(text) - i + 1)) /\ lengths # {} /\ Len(text) - i + 1 \in Nat
  BY <1>1, <1>2
<1>4. PICK x \in lengths : \A y \in lengths : y <= x
  BY <1>3, Largest
<1>5. length = x
  <2> HIDE DEF lengths
  <2>1. Max(lengths) = x
    <3>1. lengths \in SUBSET Int
      BY <1>3
    <3> QED BY <1>4, <3>1, MaxIs
  <2> QED BY <2>1 DEF MatchLength, lengths
<1>6. length \in 0..(Len(text) - i + 1)
  BY <1>3, <1>4, <1>5
<1>8. \A s \in ss : OccursAt(s, text, i) => Len(s) <= length /\ length # 0
  <2> HIDE DEF length
  <2>1. ASSUME NEW s \in ss, OccursAt(s, text, i) PROVE Len(s) \in lengths
    BY <2>1
  <2> HIDE DEF lengths
  <2> QED BY <1>1, <1>4, <1>5, <2>1
<1>9. length # 0 => \E s \in ss : OccursAt(s, text, i) /\ Len(s) = length
  <2> HIDE DEF length
  <2> QED BY <1>4, <1>5
<1> HIDE DEF lengths, length
<1>7. Max({1, length}) = IF length = 0 THEN 1 ELSE length
  <2> DEFINE both == {1, length}
  <2>1. both \in SUBSET Int /\ length \in Nat
    BY <1>6
  <2>2. CASE length = 0
    <3>1. 1 \in both /\ \A y \in both : y <= 1
      BY <2>2
    <3> HIDE DEF both
    <3>2. Max(both) = 1
      BY <2>1, <3>1, MaxIs
    <3> QED BY <2>2, <3>2 DEF both
  <2>3. CASE length # 0
    <3>1. length \in both /\ \A y \in both : y <= length
      BY <2>1, <2>3
    <3> HIDE DEF both
    <3>2. Max(both) = length
      BY <2>1, <3>1, MaxIs
    <3> QED BY <2>3, <3>2 DEF both
  <2> QED BY <2>2, <2>3
<1>10. Len(text) \in Nat
  OBVIOUS
<1> QED BY <1>6, <1>7, <1>8, <1>9, <1>10 DEF length

\* Where the scan goes on after an index.
Onward(ss, text, i) == i + Max({1, MatchLength(ss, text, i)})

\* What it adds at an index to the result from where it goes on.
Added(ss, mark, text, cutoff, i, rest) ==
    IF i > cutoff
    THEN [out |-> <<>>, pending |-> SubSeq(text, i, Len(text))]
    ELSE [out |-> (IF MatchLength(ss, text, i) = 0 THEN <<text[i]>> ELSE mark) \o rest.out,
          pending |-> rest.pending]

\* The recursive definition of the scan has a solution, since it refers to what
\* comes later in the text.
LEMMA ScanUnfolds ==
    ASSUME NEW A, NEW ss \in SUBSET (Seq(A) \ {<<>>}), NEW mark,
           NEW text \in Seq(A), NEW cutoff \in 0..Len(text), NEW i \in 1..Len(text) + 1
    PROVE  LET from == ScanFrom(ss, mark, text, cutoff) IN
           from[i] = Added(ss, mark, text, cutoff, i, from[Onward(ss, text, i)])
<1> DEFINE n == Len(text) + 1
           Solves(f, k) == f = [j \in k..n |-> Added(ss, mark, text, cutoff, j, f[Onward(ss, text, j)])]
           S == {k \in 1..n : \E f : Solves(f, k)}
<1>0. n \in Nat /\ n >= 1 /\ Len(text) \in Nat
  OBVIOUS
<1>1. \A j \in 1..Len(text) : Onward(ss, text, j) \in (j + 1)..n
  BY Longest DEF Onward
<1>2. ASSUME NEW k \in 1..n, \A j \in (k + 1)..n : j \in S PROVE k \in S
  <2>1. CASE k = n
    <3> DEFINE f == [j \in k..n |-> [out |-> <<>>, pending |-> SubSeq(text, j, Len(text))]]
    <3>1. \A j \in k..n : j > cutoff
      BY <1>0, <2>1
    <3>2. Solves(f, k)
      BY <3>1 DEF Added
    <3> QED BY <3>2
  <2>2. CASE k # n
    <3>1. k \in 1..Len(text) /\ k + 1 \in (k + 1)..n
      BY <1>0, <2>2
    <3>2. PICK g : Solves(g, k + 1)
      BY <1>2, <3>1
    <3> DEFINE f == [j \in k..n |-> Added(ss, mark, text, cutoff, j, g[Onward(ss, text, j)])]
    <3> HIDE DEF S
    <3>3. ASSUME NEW j \in (k + 1)..n PROVE f[j] = g[j]
      <4>1. j \in k..n
        BY <3>1
      <4> QED BY <3>2, <4>1
    <3>4. ASSUME NEW j \in k..n
          PROVE Added(ss, mark, text, cutoff, j, g[Onward(ss, text, j)])
                = Added(ss, mark, text, cutoff, j, f[Onward(ss, text, j)])
      <4>1. CASE j > cutoff
        BY <4>1 DEF Added
      <4>2. CASE ~(j > cutoff)
        <5>1. j \in 1..Len(text)
          BY <1>0, <4>2
        <5>2. Onward(ss, text, j) \in (k + 1)..n
          BY <1>1, <5>1
        <5>3. f[Onward(ss, text, j)] = g[Onward(ss, text, j)]
          BY <3>3, <5>2
        <5> HIDE DEF f
        <5> QED BY <5>3
      <4> QED BY <4>1, <4>2
    <3>5. Solves(f, k)
      <4> DEFINE h == [j \in k..n |-> Added(ss, mark, text, cutoff, j, f[Onward(ss, text, j)])]
      <4>1. \A j \in k..n : f[j] = h[j]
        BY <3>4
      <4>2. f = h
        BY <4>1
      <4> QED BY <4>2
    <3> QED BY <3>5 DEF S
  <2> QED BY <2>1, <2>2
<1>3. 1 \in S
  <2> HIDE DEF S, n
  <2>1. \A k \in 1..n : k \in S
    BY <1>0, <1>2, Backward
  <2> QED BY <1>0, <2>1
<1>4. PICK g : Solves(g, 1)
  BY <1>3
<1> DEFINE from == ScanFrom(ss, mark, text, cutoff)
<1>5. from = CHOOSE f : Solves(f, 1)
  BY Zenon DEF ScanFrom, Added, Onward
<1>6. Solves(from, 1)
  <2> HIDE DEF Solves, from
  <2> QED BY <1>4, <1>5, Zenon
<1>7. from = [j \in 1..n |-> Added(ss, mark, text, cutoff, j, from[Onward(ss, text, j)])]
  BY <1>6
<1>8. from[i] = Added(ss, mark, text, cutoff, i, from[Onward(ss, text, i)])
  <2> HIDE DEF from
  <2> QED BY <1>7
<1> QED BY <1>8

\* The scan at an index: beyond the cutoff, without a match, with one.
ScanStep(ss, mark, text, cutoff, i) ==
    LET from == ScanFrom(ss, mark, text, cutoff)
        length == MatchLength(ss, text, i)
    IN  /\ i > cutoff => from[i].out = <<>> /\ from[i].pending = SubSeq(text, i, Len(text))
        /\ i <= cutoff => length \in Nat
        /\ i <= cutoff /\ length = 0 =>
             /\ i + 1 \in (i + 1)..(Len(text) + 1)
             /\ from[i].out = <<text[i]>> \o from[i + 1].out
             /\ from[i].pending = from[i + 1].pending
        /\ i <= cutoff /\ length # 0 =>
             /\ i + length \in (i + 1)..(Len(text) + 1)
             /\ from[i].out = mark \o from[i + length].out
             /\ from[i].pending = from[i + length].pending

\* Every index of a scan is such a step.
LEMMA ScanSteps ==
    ASSUME NEW A, NEW ss \in SUBSET (Seq(A) \ {<<>>}), NEW mark,
           NEW text \in Seq(A), NEW cutoff \in 0..Len(text), NEW i \in 1..Len(text) + 1
    PROVE  ScanStep(ss, mark, text, cutoff, i)
<1> DEFINE from == ScanFrom(ss, mark, text, cutoff)
           length == MatchLength(ss, text, i)
<1>1. from[i] = Added(ss, mark, text, cutoff, i, from[Onward(ss, text, i)])
  BY ScanUnfolds
<1>2. CASE i > cutoff
  <2>1. from[i] = [out |-> <<>>, pending |-> SubSeq(text, i, Len(text))]
    BY <1>1, <1>2 DEF Added
  <2> HIDE DEF from
  <2>2. ~(i <= cutoff)
    BY <1>2
  <2> QED BY <2>1, <2>2 DEF from, ScanStep
<1>3. CASE i <= cutoff
  <2>1. i \in 1..Len(text) /\ ~(i > cutoff)
    BY <1>3
  <2>2. /\ length \in Nat /\ Onward(ss, text, i) \in (i + 1)..(Len(text) + 1)
        /\ Onward(ss, text, i) = i + IF length = 0 THEN 1 ELSE length
    <3>1. /\ MatchLength(ss, text, i) \in Nat
          /\ i + Max({1, MatchLength(ss, text, i)}) \in (i + 1)..(Len(text) + 1)
          /\ Max({1, MatchLength(ss, text, i)})
             = IF MatchLength(ss, text, i) = 0 THEN 1 ELSE MatchLength(ss, text, i)
      BY <2>1, Longest, ZenonT(40)
    <3> QED BY <3>1 DEF Onward
  <2>3. from[i] = [out |-> (IF length = 0 THEN <<text[i]>> ELSE mark) \o from[Onward(ss, text, i)].out,
                   pending |-> from[Onward(ss, text, i)].pending]
    BY <1>1, <2>1 DEF Added
  <2> HIDE DEF from, length
  <2>4. /\ from[i].out = (IF length = 0 THEN <<text[i]>> ELSE mark) \o from[Onward(ss, text, i)].out
        /\ from[i].pending = from[Onward(ss, text, i)].pending
    <3> DEFINE out == (IF length = 0 THEN <<text[i]>> ELSE mark) \o from[Onward(ss, text, i)].out
               pending == from[Onward(ss, text, i)].pending
    <3>1. from[i] = [out |-> out, pending |-> pending]
      BY <2>3
    <3> HIDE DEF out, pending
    <3>2. from[i].out = out /\ from[i].pending = pending
      BY <3>1
    <3> QED BY <3>2 DEF out, pending
  <2>5. CASE length = 0
    <3>1. Onward(ss, text, i) = i + 1
      BY <2>2, <2>5
    <3> QED BY <1>3, <2>1, <2>2, <2>4, <2>5, <3>1 DEF from, length, ScanStep
  <2>6. CASE length # 0
    <3>1. Onward(ss, text, i) = i + length
      BY <2>2, <2>6
    <3> QED BY <1>3, <2>1, <2>2, <2>4, <2>6, <3>1 DEF from, length, ScanStep
  <2> QED BY <2>5, <2>6
<1> QED BY <1>2, <1>3

\* What a scan puts out and what it keeps back are texts.
LEMMA ScanTypes ==
    ASSUME NEW A, NEW ss \in SUBSET (Seq(A) \ {<<>>}), NEW mark \in Seq(A),
           NEW text \in Seq(A), NEW cutoff \in 0..Len(text), NEW i \in 1..Len(text) + 1
    PROVE  LET from == ScanFrom(ss, mark, text, cutoff)
           IN  from[i].out \in Seq(A) /\ from[i].pending \in Seq(A)
<1> DEFINE n == Len(text) + 1
           from == ScanFrom(ss, mark, text, cutoff)
           S == {j \in 1..n : from[j].out \in Seq(A) /\ from[j].pending \in Seq(A)}
<1>0. n \in Nat /\ Len(text) \in Nat
  OBVIOUS
<1>1. ASSUME NEW j \in 1..n, \A k \in (j + 1)..n : k \in S PROVE j \in S
  <2> DEFINE length == MatchLength(ss, text, j)
  <2>1. /\ j > cutoff => from[j].out = <<>> /\ from[j].pending = SubSeq(text, j, Len(text))
        /\ j <= cutoff /\ length = 0 =>
             /\ j + 1 \in (j + 1)..n
             /\ from[j].out = <<text[j]>> \o from[j + 1].out
             /\ from[j].pending = from[j + 1].pending
        /\ j <= cutoff /\ length # 0 =>
             /\ j + length \in (j + 1)..n
             /\ from[j].out = mark \o from[j + length].out
             /\ from[j].pending = from[j + length].pending
    <3>1. ScanStep(ss, mark, text, cutoff, j)
      BY ScanSteps
    <3> QED BY <3>1 DEF ScanStep
  <2> HIDE DEF from, length
  <2>2. CASE j > cutoff
    <3>1. SubSeq(text, j, Len(text)) \in Seq(A) /\ <<>> \in Seq(A)
      BY <1>0, SubSeqProperties
    <3> QED BY <2>1, <2>2, <3>1
  <2>3. CASE j <= cutoff /\ length = 0
    <3>1. from[j + 1].out \in Seq(A) /\ from[j + 1].pending \in Seq(A)
      BY <1>1, <2>1, <2>3
    <3>2. <<text[j]>> \in Seq(A)
      BY <1>0, <2>3
    <3>3. <<text[j]>> \o from[j + 1].out \in Seq(A)
      BY <3>1, <3>2, ConcatProperties
    <3> QED BY <2>1, <2>3, <3>1, <3>3
  <2>4. CASE j <= cutoff /\ length # 0
    <3>1. from[j + length].out \in Seq(A) /\ from[j + length].pending \in Seq(A)
      BY <1>1, <2>1, <2>4
    <3>2. mark \o from[j + length].out \in Seq(A)
      BY <3>1, ConcatProperties
    <3> QED BY <2>1, <2>4, <3>1, <3>2
  <2> QED BY <1>0, <2>2, <2>3, <2>4
<1> HIDE DEF S, n
<1>2. \A j \in 1..n : j \in S
  BY <1>0, <1>1, Backward
<1> QED BY <1>2 DEF S, n

\* An occurrence, character by character.
LEMMA OccursPointwise ==
    ASSUME NEW A, NEW s \in Seq(A), NEW text \in Seq(A), NEW i \in 1..Len(text)
    PROVE  OccursAt(s, text, i) <=>
             /\ i + Len(s) - 1 <= Len(text)
             /\ \A j \in 1..Len(s) : text[i + j - 1] = s[j]
<1> DEFINE e == i + Len(s) - 1
           here == SubSeq(text, i, e)
<1>1. SUFFICES ASSUME e <= Len(text)
               PROVE  here = s <=> \A j \in 1..Len(s) : text[i + j - 1] = s[j]
  BY DEF OccursAt
<1>2. e \in Int /\ Len(s) \in Nat /\ \A j \in i..e : text[j] \in A
  BY <1>1
<1>3. /\ here \in Seq(A) /\ Len(here) = Len(s)
      /\ \A j \in 1..Len(s) : here[j] = text[i + j - 1]
  BY <1>2, SubSeqProperties
<1> HIDE DEF here
<1>4. here = s <=> \A j \in 1..Len(s) : here[j] = s[j]
  BY <1>2, <1>3, SeqEqual
<1> QED BY <1>3, <1>4

\* What matches depends on which secrets occur.
LEMMA SameMatch ==
    ASSUME NEW ss, NEW t, NEW u, NEW i, NEW j,
           \A s \in ss : OccursAt(s, t, i) <=> OccursAt(s, u, j)
    PROVE  MatchLength(ss, t, i) = MatchLength(ss, u, j)
<1>1. {s \in ss : OccursAt(s, t, i)} = {s \in ss : OccursAt(s, u, j)}
  OBVIOUS
<1> QED BY <1>1 DEF MatchLength

\* Only the empty text has no length.
LEMMA NoLength ==
    ASSUME NEW A, NEW s \in Seq(A) PROVE Len(s) = 0 <=> s = <<>>
BY EmptySeq

\* A text without its first k characters.
Drop(text, k) == SubSeq(text, k + 1, Len(text))

\* The characters that are left.
LEMMA DropIs ==
    ASSUME NEW A, NEW text \in Seq(A), NEW k \in 0..Len(text)
    PROVE  /\ Drop(text, k) \in Seq(A) /\ Len(Drop(text, k)) = Len(text) - k
           /\ \A i \in 1..Len(text) - k : Drop(text, k)[i] = text[k + i]
<1>1. \A i \in (k + 1)..Len(text) : text[i] \in A
  OBVIOUS
<1>2. k + 1 \in Int /\ Len(text) \in Int
  OBVIOUS
<1>3. /\ Drop(text, k) \in Seq(A)
      /\ Len(Drop(text, k)) = IF k + 1 <= Len(text) THEN Len(text) - (k + 1) + 1 ELSE 0
      /\ \A i \in 1..Len(text) - (k + 1) + 1 : Drop(text, k)[i] = text[(k + 1) + i - 1]
  BY <1>1, <1>2, SubSeqProperties DEF Drop
<1> QED BY <1>3

\* Dropping twice is dropping the sum.
LEMMA DropTwice ==
    ASSUME NEW A, NEW text \in Seq(A), NEW k \in 0..Len(text), NEW l \in 0..(Len(text) - k)
    PROVE  Drop(Drop(text, k), l) = Drop(text, k + l)
<1> DEFINE rest == Drop(text, k)
           one == Drop(rest, l)
           two == Drop(text, k + l)
<1>1. /\ rest \in Seq(A) /\ Len(rest) = Len(text) - k /\ Len(text) \in Nat
      /\ \A i \in 1..Len(text) - k : rest[i] = text[k + i]
  BY DropIs
<1> HIDE DEF rest
<1>2. l \in 0..Len(rest) /\ k + l \in 0..Len(text)
  BY <1>1
<1>3. /\ one \in Seq(A) /\ Len(one) = Len(rest) - l
      /\ \A i \in 1..Len(rest) - l : one[i] = rest[l + i]
  BY <1>1, <1>2, DropIs, ZenonT(40)
<1>4. /\ two \in Seq(A) /\ Len(two) = Len(text) - (k + l)
      /\ \A i \in 1..Len(text) - (k + l) : two[i] = text[(k + l) + i]
  BY <1>2, DropIs
<1> HIDE DEF one, two
<1>5. ASSUME NEW i \in 1..Len(one) PROVE one[i] = two[i]
  <2>1. l + i \in 1..Len(text) - k /\ k + (l + i) = (k + l) + i
    BY <1>1, <1>2, <1>3
  <2> QED BY <1>1, <1>2, <1>3, <1>4, <2>1, SMTT(30)
<1>6. Len(one) = Len(two)
  BY <1>1, <1>2, <1>3, <1>4
<1>7. one = two
  BY <1>3, <1>4, <1>5, <1>6, SeqEqual
<1> QED BY <1>7 DEF one, two, rest

\* A scan may begin anywhere.
LEMMA ScanShift ==
    ASSUME NEW A, NEW ss \in SUBSET (Seq(A) \ {<<>>}), NEW mark,
           NEW text \in Seq(A), NEW k \in 0..Len(text)
    PROVE  ScanFrom(ss, mark, text, Len(text))[k + 1].out
           = ScanFrom(ss, mark, Drop(text, k), Len(Drop(text, k)))[1].out
<1> DEFINE rest == Drop(text, k)
           n == Len(rest) + 1
           from == ScanFrom(ss, mark, text, Len(text))
           later == ScanFrom(ss, mark, rest, Len(rest))
           S == {i \in 1..n : from[k + i].out = later[i].out}
<1>0. /\ Len(text) \in Nat /\ rest \in Seq(A) /\ Len(rest) = Len(text) - k /\ n \in Nat /\ n >= 1
      /\ \A i \in 1..Len(text) - k : rest[i] = text[k + i]
  BY DropIs
<1> HIDE DEF rest
<1>1. ASSUME NEW i \in 1..n, \A j \in (i + 1)..n : j \in S PROVE i \in S
  <2> DEFINE length == MatchLength(ss, rest, i)
  <2>1. k + i \in 1..Len(text) + 1 /\ Len(text) \in 0..Len(text) /\ Len(rest) \in 0..Len(rest)
    BY <1>0
  <2>2. /\ i > Len(rest) => later[i].out = <<>>
        /\ i <= Len(rest) => length \in Nat
        /\ i <= Len(rest) /\ length = 0 =>
             i + 1 \in (i + 1)..n /\ later[i].out = <<rest[i]>> \o later[i + 1].out
        /\ i <= Len(rest) /\ length # 0 =>
             i + length \in (i + 1)..n /\ later[i].out = mark \o later[i + length].out
    <3>1. ScanStep(ss, mark, rest, Len(rest), i)
      BY <1>0, <2>1, ScanSteps
    <3> QED BY <3>1 DEF ScanStep
  <2>3. /\ k + i > Len(text) => from[k + i].out = <<>>
        /\ k + i <= Len(text) /\ MatchLength(ss, text, k + i) = 0 =>
             from[k + i].out = <<text[k + i]>> \o from[k + i + 1].out
        /\ k + i <= Len(text) /\ MatchLength(ss, text, k + i) # 0 =>
             from[k + i].out = mark \o from[k + i + MatchLength(ss, text, k + i)].out
    <3>1. ScanStep(ss, mark, text, Len(text), k + i)
      BY <2>1, ScanSteps
    <3> QED BY <3>1 DEF ScanStep
  <2>4. ASSUME i <= Len(rest) PROVE length = MatchLength(ss, text, k + i) /\ rest[i] = text[k + i]
    <3>1. i \in 1..Len(rest) /\ k + i \in 1..Len(text)
      BY <1>0, <2>4
    <3>2. ASSUME NEW s \in ss PROVE OccursAt(s, rest, i) <=> OccursAt(s, text, k + i)
      <4>1. s \in Seq(A)
        OBVIOUS
      <4>2. OccursAt(s, rest, i) <=> /\ i + Len(s) - 1 <= Len(rest)
                                     /\ \A j \in 1..Len(s) : rest[i + j - 1] = s[j]
        <5>1. rest \in Seq(A) /\ i \in 1..Len(rest) /\ s \in Seq(A)
          BY <1>0, <3>1, <4>1
        <5> HIDE DEF n
        <5> QED BY <5>1, OccursPointwise
      <4>3. OccursAt(s, text, k + i) <=> /\ k + i + Len(s) - 1 <= Len(text)
                                         /\ \A j \in 1..Len(s) : text[k + i + j - 1] = s[j]
        <5> DEFINE p == k + i
        <5>1. p \in 1..Len(text)
          BY <3>1
        <5> HIDE DEF p, n
        <5>2. OccursAt(s, text, p) <=> /\ p + Len(s) - 1 <= Len(text)
                                       /\ \A j \in 1..Len(s) : text[p + j - 1] = s[j]
          BY <4>1, <5>1, OccursPointwise
        <5> QED BY <5>2 DEF p
      <4>4. ASSUME i + Len(s) - 1 <= Len(rest), NEW j \in 1..Len(s)
            PROVE  rest[i + j - 1] = text[k + i + j - 1]
        <5>1. i + j - 1 \in 1..Len(text) - k /\ k + (i + j - 1) = k + i + j - 1
          BY <1>0, <3>1, <4>1, <4>4
        <5> QED BY <1>0, <5>1
      <4> QED BY <1>0, <3>1, <4>1, <4>2, <4>3, <4>4
    <3>3. length = MatchLength(ss, text, k + i)
      BY <3>2, SameMatch
    <3> QED BY <1>0, <3>1, <3>3
  <2> HIDE DEF length, from, later, n
  <2>5. \A j \in (i + 1)..n : from[k + j].out = later[j].out
    BY <1>1
  <2>6. CASE i > Len(rest)
    <3>1. k + i > Len(text)
      BY <1>0, <2>6
    <3> QED BY <2>2, <2>3, <2>6, <3>1
  <2>7. CASE i <= Len(rest) /\ length = 0
    <3>1. k + i <= Len(text) /\ MatchLength(ss, text, k + i) = 0
      BY <1>0, <2>4, <2>7
    <3>2. from[k + (i + 1)].out = later[i + 1].out /\ k + (i + 1) = k + i + 1
      BY <1>0, <2>2, <2>5, <2>7
    <3> QED BY <2>2, <2>3, <2>4, <2>7, <3>1, <3>2
  <2>8. CASE i <= Len(rest) /\ length # 0
    <3>1. k + i <= Len(text) /\ MatchLength(ss, text, k + i) = length
      BY <1>0, <2>4, <2>8
    <3>2. i + length \in (i + 1)..n
      BY <2>2, <2>8
    <3>3. from[k + (i + length)].out = later[i + length].out
      BY <2>5, <3>2
    <3>4. k + (i + length) = k + i + length
      BY <1>0, <2>2, <2>8
    <3> QED BY <2>2, <2>3, <2>8, <3>1, <3>3, <3>4
  <2> QED BY <1>0, <2>6, <2>7, <2>8
<1>2. \A i \in 1..n : i \in S
  <2> HIDE DEF S, n
  <2> QED BY <1>0, <1>1, Backward
<1>3. 1 \in S
  <2> HIDE DEF S, n
  <2> QED BY <1>0, <1>2
<1> QED BY <1>3 DEF rest

\* Dropping from the first of two texts.
LEMMA DropConcat ==
    ASSUME NEW A, NEW text \in Seq(A), NEW z \in Seq(A), NEW k \in 0..Len(text)
    PROVE  Drop(text, k) \o z = Drop(text \o z, k)
<1>1. /\ Drop(text, k) \in Seq(A) /\ Len(Drop(text, k)) = Len(text) - k
      /\ \A i \in 1..Len(text) - k : Drop(text, k)[i] = text[k + i]
  BY DropIs
<1>2. /\ text \o z \in Seq(A) /\ Len(text \o z) = Len(text) + Len(z)
      /\ \A i \in 1..Len(text) + Len(z) :
           (text \o z)[i] = IF i <= Len(text) THEN text[i] ELSE z[i - Len(text)]
  BY ConcatProperties
<1>3. k \in 0..Len(text \o z) /\ Len(text) \in Nat /\ Len(z) \in Nat
  BY <1>2
<1> DEFINE whole == text \o z
           rest == Drop(text, k)
<1> HIDE DEF whole, rest
<1>4. /\ Drop(whole, k) \in Seq(A) /\ Len(Drop(whole, k)) = Len(whole) - k
      /\ \A i \in 1..Len(whole) - k : Drop(whole, k)[i] = whole[k + i]
  BY <1>2, <1>3, DropIs, ZenonT(40) DEF whole
<1>5. /\ rest \o z \in Seq(A) /\ Len(rest \o z) = Len(rest) + Len(z)
      /\ \A i \in 1..Len(rest) + Len(z) :
           (rest \o z)[i] = IF i <= Len(rest) THEN rest[i] ELSE z[i - Len(rest)]
  BY <1>1, ConcatProperties DEF rest
<1>6. Len(rest \o z) = Len(Drop(whole, k))
  BY <1>1, <1>2, <1>3, <1>4, <1>5 DEF rest, whole
<1>7. ASSUME NEW i \in 1..Len(rest \o z) PROVE (rest \o z)[i] = Drop(whole, k)[i]
  <2>1. Drop(whole, k)[i] = whole[k + i] /\ k + i \in 1..Len(text) + Len(z)
    BY <1>2, <1>3, <1>4, <1>6, <1>7 DEF whole
  <2>2. CASE i <= Len(rest)
    BY <1>1, <1>2, <1>3, <1>5, <2>1, <2>2 DEF rest, whole
  <2>3. CASE i > Len(rest)
    <3>1. (rest \o z)[i] = z[i - Len(rest)]
      BY <1>1, <1>5, <1>7, <2>3 DEF rest
    <3>2. whole[k + i] = z[k + i - Len(text)]
      BY <1>1, <1>2, <1>3, <2>1, <2>3 DEF rest, whole
    <3>3. i - Len(rest) = k + i - Len(text)
      BY <1>1, <1>3 DEF rest
    <3> QED BY <2>1, <3>1, <3>2, <3>3
  <2> QED BY <1>1, <1>3, <2>2, <2>3 DEF rest
<1> HIDE DEF whole, rest
<1>8. rest \o z = Drop(whole, k)
  BY <1>4, <1>5, <1>6, <1>7, SeqEqual
<1> QED BY <1>8 DEF rest, whole

\* A redacted text is a text.
LEMMA WholeType ==
    ASSUME NEW A, NEW ss \in SUBSET (Seq(A) \ {<<>>}), NEW mark \in Seq(A), NEW text \in Seq(A)
    PROVE  ScanWhole(ss, mark, text) \in Seq(A)
<1>1. Len(text) \in 0..Len(text) /\ 1 \in 1..Len(text) + 1
  OBVIOUS
<1> QED BY <1>1, ScanTypes DEF ScanWhole, Scan

\* What stands in the first of two texts stands in both together.
LEMMA OccursBefore ==
    ASSUME NEW A, NEW s \in Seq(A), NEW text \in Seq(A), NEW z \in Seq(A), NEW i \in 1..Len(text)
    PROVE  OccursAt(s, text, i) <=> OccursAt(s, text \o z, i) /\ i + Len(s) - 1 <= Len(text)
<1> DEFINE whole == text \o z
<1>1. /\ whole \in Seq(A) /\ Len(whole) = Len(text) + Len(z) /\ Len(text) \in Nat /\ Len(z) \in Nat
      /\ Len(s) \in Nat
      /\ \A j \in 1..Len(text) : whole[j] = text[j]
  BY ConcatProperties
<1> HIDE DEF whole
<1>2. i \in 1..Len(whole)
  BY <1>1
<1>3. OccursAt(s, text, i) <=> /\ i + Len(s) - 1 <= Len(text)
                               /\ \A j \in 1..Len(s) : text[i + j - 1] = s[j]
  BY OccursPointwise
<1>4. OccursAt(s, whole, i) <=> /\ i + Len(s) - 1 <= Len(whole)
                                /\ \A j \in 1..Len(s) : whole[i + j - 1] = s[j]
  BY <1>1, <1>2, OccursPointwise, ZenonT(40)
<1>5. ASSUME i + Len(s) - 1 <= Len(text), NEW j \in 1..Len(s)
      PROVE  whole[i + j - 1] = text[i + j - 1]
  <2>1. i + j - 1 \in 1..Len(text)
    BY <1>1, <1>5
  <2> QED BY <1>1, <2>1
<1>6. i + Len(s) - 1 <= Len(text) => i + Len(s) - 1 <= Len(whole)
  BY <1>1
<1>7. OccursAt(s, text, i) <=> OccursAt(s, whole, i) /\ i + Len(s) - 1 <= Len(text)
  BY <1>3, <1>4, <1>5, <1>6
<1> QED BY <1>7 DEF whole

\* Three texts of one alphabet.
AllTexts(A, a, b, c) == a \in Seq(A) /\ b \in Seq(A) /\ c \in Seq(A)

\* Texts are joined in any order.
LEMMA Associative ==
    ASSUME NEW A, NEW a, NEW b, NEW c, AllTexts(A, a, b, c)
    PROVE  (a \o b) \o c = a \o (b \o c)
BY ConcatAssociative DEF AllTexts

\* A scan may stop at any cutoff that no match crosses: what it keeps back and
\* what comes after can be scanned later.
IsCut(ss, mark, text, z, cutoff) ==
    LET scan == Scan(ss, mark, text, cutoff)
    IN  ScanWhole(ss, mark, text \o z) = scan.out \o ScanWhole(ss, mark, scan.pending \o z)

\* No match that begins at or before the cutoff goes beyond the text.
LEMMA ScanCut ==
    ASSUME NEW A, NEW ss \in SUBSET (Seq(A) \ {<<>>}), NEW mark \in Seq(A),
           NEW text \in Seq(A), NEW z \in Seq(A), NEW cutoff \in 0..Len(text),
           \A s \in ss, i \in 1..cutoff : OccursAt(s, text \o z, i) => i + Len(s) - 1 <= Len(text)
    PROVE  IsCut(ss, mark, text, z, cutoff)
<1> DEFINE n == Len(text) + 1
           all == text \o z
           from == ScanFrom(ss, mark, text, cutoff)
           whole == ScanFrom(ss, mark, all, Len(all))
           Later(i) == ScanWhole(ss, mark, from[i].pending \o z)
           Splits == {i \in 1..n : whole[i].out = from[i].out \o Later(i)}
<1>0. /\ n \in Nat /\ n >= 1 /\ Len(text) \in Nat /\ Len(z) \in Nat
      /\ all \in Seq(A) /\ Len(all) = Len(text) + Len(z)
      /\ \A i \in 1..Len(text) : all[i] = text[i]
  BY ConcatProperties
<1> HIDE DEF all
<1>1. ASSUME NEW i \in 1..n
      PROVE  /\ from[i].out \in Seq(A) /\ from[i].pending \in Seq(A) /\ Later(i) \in Seq(A)
  <2>1. from[i].out \in Seq(A) /\ from[i].pending \in Seq(A)
    BY ScanTypes
  <2> HIDE DEF from
  <2>2. from[i].pending \o z \in Seq(A)
    BY <2>1, ConcatProperties
  <2> QED BY <2>1, <2>2, WholeType
<1>2. ASSUME NEW i \in 1..n, \A j \in (i + 1)..n : j \in Splits PROVE i \in Splits
  <2> DEFINE length == MatchLength(ss, text, i)
             long == MatchLength(ss, all, i)
  <2>0. /\ i \in 1..Len(text) + 1 /\ i \in 1..Len(all) + 1 /\ Len(all) \in 0..Len(all)
        /\ i <= cutoff => i \in 1..Len(text) /\ i <= Len(all)
    BY <1>0
  <2>1. /\ i > cutoff => from[i].out = <<>> /\ from[i].pending = SubSeq(text, i, Len(text))
        /\ i <= cutoff => length \in Nat
        /\ i <= cutoff /\ length = 0 =>
             /\ i + 1 \in (i + 1)..n
             /\ from[i].out = <<text[i]>> \o from[i + 1].out
             /\ from[i].pending = from[i + 1].pending
        /\ i <= cutoff /\ length # 0 =>
             /\ i + length \in (i + 1)..n
             /\ from[i].out = mark \o from[i + length].out
             /\ from[i].pending = from[i + length].pending
    <3>1. ScanStep(ss, mark, text, cutoff, i)
      BY <2>0, ScanSteps
    <3> QED BY <3>1 DEF ScanStep
  <2>2. /\ i <= Len(all) /\ long = 0 => whole[i].out = <<all[i]>> \o whole[i + 1].out
        /\ i <= Len(all) /\ long # 0 => whole[i].out = mark \o whole[i + long].out
    <3>1. ScanStep(ss, mark, all, Len(all), i)
      BY <1>0, <2>0, ScanSteps
    <3> QED BY <3>1 DEF ScanStep
  <2>3. ASSUME i <= cutoff PROVE length = long /\ all[i] = text[i]
    <3>1. i \in 1..Len(text) /\ i \in 1..cutoff
      BY <2>0, <2>3
    <3>2. ASSUME NEW s \in ss PROVE OccursAt(s, text, i) <=> OccursAt(s, all, i)
      <4>1. s \in Seq(A)
        OBVIOUS
      <4>2. OccursAt(s, text, i) <=> OccursAt(s, all, i) /\ i + Len(s) - 1 <= Len(text)
        BY <3>1, <4>1, OccursBefore DEF all
      <4>3. OccursAt(s, all, i) => i + Len(s) - 1 <= Len(text)
        BY <3>1 DEF all
      <4> QED BY <4>2, <4>3
    <3>3. length = long
      BY <3>2, SameMatch
    <3> QED BY <1>0, <3>1, <3>3
  <2>4. CASE i > cutoff
    <3>1. from[i].out = <<>> /\ from[i].pending = Drop(text, i - 1) /\ i - 1 \in 0..Len(text)
      BY <1>0, <2>0, <2>1, <2>4 DEF Drop
    <3>2. from[i].pending \o z = Drop(all, i - 1)
      <4>1. Drop(text, i - 1) \o z = Drop(all, i - 1)
        BY <3>1, DropConcat DEF all
      <4> HIDE DEF from
      <4> QED BY <3>1, <4>1
    <3>3. whole[(i - 1) + 1].out = ScanWhole(ss, mark, Drop(all, i - 1))
      <4>1. i - 1 \in 0..Len(all)
        BY <1>0, <3>1
      <4>2. whole[(i - 1) + 1].out = ScanFrom(ss, mark, Drop(all, i - 1), Len(Drop(all, i - 1)))[1].out
        <5>1. all \in Seq(A) /\ i - 1 \in 0..Len(all)
          BY <1>0, <4>1
        <5> HIDE DEF n
        <5>2. \A k \in 0..Len(all) : whole[k + 1].out
                  = ScanFrom(ss, mark, Drop(all, k), Len(Drop(all, k)))[1].out
          BY <5>1, ScanShift
        <5> HIDE DEF whole
        <5> QED BY <5>1, <5>2
      <4> QED BY <4>2 DEF ScanWhole, Scan
    <3>4. whole[i].out = Later(i)
      <4>1. (i - 1) + 1 = i
        BY <1>0
      <4> QED BY <3>2, <3>3, <4>1
    <3> HIDE DEF from, Later, whole
    <3>5. <<>> \o Later(i) = Later(i)
      BY <1>1, ConcatEmptySeq
    <3> QED BY <3>1, <3>4, <3>5
  <2> HIDE DEF length, long, from, whole, n
  <2>5. CASE i <= cutoff /\ length = 0
    <3>1. i + 1 \in 1..n /\ whole[i + 1].out = from[i + 1].out \o Later(i + 1)
      BY <1>0, <1>2, <2>1, <2>5
    <3>2. whole[i].out = <<text[i]>> \o (from[i + 1].out \o Later(i + 1))
      BY <2>0, <2>2, <2>3, <2>5, <3>1
    <3>3. from[i].out = <<text[i]>> \o from[i + 1].out /\ Later(i) = Later(i + 1)
      BY <2>1, <2>5
    <3> HIDE DEF Later
    <3>4. <<text[i]>> \in Seq(A) /\ from[i + 1].out \in Seq(A) /\ Later(i + 1) \in Seq(A)
      BY <1>1, <2>0, <2>5, <3>1
    <3>5. whole[i].out = (<<text[i]>> \o from[i + 1].out) \o Later(i + 1)
      <4> DEFINE a == <<text[i]>>
                 b == from[i + 1].out
                 c == Later(i + 1)
      <4>1. AllTexts(A, a, b, c)
        BY <3>4 DEF AllTexts
      <4> HIDE DEF a, b, c
      <4>2. (a \o b) \o c = a \o (b \o c)
        BY <4>1, Associative
      <4> QED BY <3>2, <4>2 DEF a, b, c
    <3> QED BY <3>3, <3>5
  <2>6. CASE i <= cutoff /\ length # 0
    <3>1. i + length \in 1..n /\ whole[i + length].out = from[i + length].out \o Later(i + length)
      <4>1. i + length \in (i + 1)..n /\ length \in Nat
        BY <2>1, <2>6
      <4> QED BY <1>0, <1>2, <4>1
    <3>2. whole[i].out = mark \o (from[i + length].out \o Later(i + length))
      BY <2>0, <2>2, <2>3, <2>6, <3>1
    <3>3. from[i].out = mark \o from[i + length].out /\ Later(i) = Later(i + length)
      BY <2>1, <2>6
    <3> HIDE DEF Later
    <3>4. from[i + length].out \in Seq(A) /\ Later(i + length) \in Seq(A)
      BY <1>1, <3>1
    <3>5. whole[i].out = (mark \o from[i + length].out) \o Later(i + length)
      <4> DEFINE a == mark
                 b == from[i + length].out
                 c == Later(i + length)
      <4>1. AllTexts(A, a, b, c)
        BY <3>4 DEF AllTexts
      <4> HIDE DEF a, b, c
      <4>2. (a \o b) \o c = a \o (b \o c)
        BY <4>1, Associative
      <4> QED BY <3>2, <4>2 DEF a, b, c
    <3> QED BY <3>3, <3>5
  <2>7. i \in Int /\ cutoff \in Int
    BY <1>0, <2>0
  <2> HIDE DEF Later
  <2> QED BY <2>4, <2>5, <2>6, <2>7
<1>3. \A i \in 1..n : i \in Splits
  <2> HIDE DEF Splits, n
  <2> QED BY <1>0, <1>2, Backward
<1>4. whole[1].out = from[1].out \o Later(1)
  <2>1. 1 \in Splits
    <3> HIDE DEF Splits, n
    <3> QED BY <1>0, <1>3
  <2> QED BY <2>1
<1> QED BY <1>4 DEF ScanWhole, Scan, all, IsCut

\* A run of m plain characters of the output, from its index j on, is one of the
\* text, at or after i, where nothing matched.
IsRun(ss, text, out, i, j, m) ==
    \E p \in i..Len(text) :
        /\ p + m - 1 <= Len(text) /\ MatchLength(ss, text, p) = 0
        /\ j = 1 => p = i
        /\ j + m - 1 = Len(out) => p + m - 1 = Len(text)
        /\ \A k \in 1..m : text[p + k - 1] = out[j + k - 1]

RunsAreText(ss, text, out, i, Plain) ==
    /\ out = <<>> => i = Len(text) + 1
    /\ \A j \in 1..Len(out) : \A m \in 1..Len(out) :
         j + m - 1 <= Len(out) /\ (\A k \in 1..m : out[j + k - 1] \in Plain)
           => IsRun(ss, text, out, i, j, m)

\* Whatever has no character of the marker was printed.
LEMMA PlainRuns ==
    ASSUME NEW A, NEW ss \in SUBSET (Seq(A) \ {<<>>}), NEW mark \in Seq(A),
           NEW text \in Seq(A), NEW Plain,
           mark # <<>>, \A j \in 1..Len(mark) : mark[j] \notin Plain,
           NEW start \in 1..Len(text) + 1
    PROVE  RunsAreText(ss, text, ScanFrom(ss, mark, text, Len(text))[start].out, start, Plain)
<1> DEFINE n == Len(text) + 1
           from == ScanFrom(ss, mark, text, Len(text))
           Good == {i \in 1..n : RunsAreText(ss, text, from[i].out, i, Plain)}
<1>0. n \in Nat /\ n >= 1 /\ Len(text) \in Nat /\ Len(mark) \in Nat \ {0} /\ Len(text) \in 0..Len(text)
  BY EmptySeq
<1>1. \A i \in 1..n : from[i].out \in Seq(A)
  BY <1>0, ScanTypes
<1>2. ASSUME NEW i \in 1..n, \A j \in (i + 1)..n : j \in Good PROVE i \in Good
  <2> DEFINE length == MatchLength(ss, text, i)
             out == from[i].out
  <2>1. /\ i > Len(text) => from[i].out = <<>>
        /\ i <= Len(text) => length \in Nat
        /\ i <= Len(text) /\ length = 0 =>
             i + 1 \in (i + 1)..n /\ from[i].out = <<text[i]>> \o from[i + 1].out
        /\ i <= Len(text) /\ length # 0 =>
             i + length \in (i + 1)..n /\ from[i].out = mark \o from[i + length].out
    <3>1. ScanStep(ss, mark, text, Len(text), i)
      BY <1>0, ScanSteps
    <3> QED BY <3>1 DEF ScanStep
  <2>2. out \in Seq(A) /\ Len(out) \in Nat
    BY <1>1
  <2> HIDE DEF length, from, n
  <2>3. CASE i > Len(text)
    <3>1. out = <<>> /\ Len(out) = 0 /\ i = Len(text) + 1
      BY <1>0, <2>1, <2>3 DEF n
    <3> HIDE DEF out
    <3>2. RunsAreText(ss, text, out, i, Plain)
      BY <3>1 DEF RunsAreText
    <3> QED BY <3>2 DEF out
  <2>4. CASE i <= Len(text) /\ length = 0
    <3> DEFINE next == from[i + 1].out
    <3>1. i \in 1..Len(text) /\ i + 1 \in 1..n /\ RunsAreText(ss, text, next, i + 1, Plain)
      BY <1>0, <1>2, <2>1, <2>4 DEF n
    <3>2. next \in Seq(A) /\ Len(next) \in Nat
      BY <1>1, <3>1
    <3>3. out = <<text[i]>> \o next
      BY <2>1, <2>4
    <3> HIDE DEF next, out
    <3>4. /\ Len(out) = Len(next) + 1 /\ out[1] = text[i]
          /\ \A x \in 2..Len(out) : out[x] = next[x - 1]
      <4>1. <<text[i]>> \in Seq(A) /\ Len(<<text[i]>>) = 1
        BY <3>1
      <4>2. /\ Len(<<text[i]>> \o next) = Len(<<text[i]>>) + Len(next)
            /\ \A x \in 1..Len(<<text[i]>>) + Len(next) :
                 (<<text[i]>> \o next)[x]
                 = IF x <= Len(<<text[i]>>) THEN <<text[i]>>[x] ELSE next[x - Len(<<text[i]>>)]
        BY <3>2, <4>1, ConcatProperties
      <4> QED BY <3>2, <3>3, <4>1, <4>2
    <3>5. ASSUME NEW j \in 1..Len(out), NEW m \in 1..Len(out), j + m - 1 <= Len(out),
                 \A k \in 1..m : out[j + k - 1] \in Plain
          PROVE  IsRun(ss, text, out, i, j, m)
      <4>1. CASE j = 1 /\ m = 1
        <5>1. next = <<>> => i = Len(text)
          BY <1>0, <3>1 DEF RunsAreText
        <5>2. Len(out) = 1 => i = Len(text)
          <6>1. Len(next) = 0 => next = <<>>
            BY <3>2, NoLength
          <6>2. Len(out) = 1 => Len(next) = 0
            BY <2>2, <3>2, <3>4
          <6> QED BY <5>1, <6>1, <6>2, Zenon
        <5>3. /\ i \in i..Len(text) /\ i + m - 1 = i /\ MatchLength(ss, text, i) = 0
              /\ \A k \in 1..m : text[i + k - 1] = out[j + k - 1]
          BY <1>0, <2>4, <3>1, <3>4, <4>1 DEF length
        <5> QED BY <1>0, <3>1, <4>1, <5>2, <5>3 DEF IsRun
      <4>2. CASE j = 1 /\ m > 1
        <5>1. /\ 1 \in 1..Len(next) /\ m - 1 \in 1..Len(next) /\ 1 + (m - 1) - 1 <= Len(next)
          BY <2>2, <3>2, <3>4, <3>5, <4>2
        <5>2. ASSUME NEW k \in 1..(m - 1) PROVE next[1 + k - 1] \in Plain
          <6>1. out[j + (k + 1) - 1] \in Plain /\ out[k + 1] = next[k] /\ j + (k + 1) - 1 = k + 1
            BY <2>2, <3>2, <3>4, <3>5, <4>2
          <6> QED BY <6>1
        <5>3. IsRun(ss, text, next, i + 1, 1, m - 1)
          BY <3>1, <5>1, <5>2 DEF RunsAreText
        <5>4. PICK p \in (i + 1)..Len(text) :
                /\ p + (m - 1) - 1 <= Len(text) /\ p = i + 1
                /\ 1 + (m - 1) - 1 = Len(next) => p + (m - 1) - 1 = Len(text)
                /\ \A k \in 1..(m - 1) : text[p + k - 1] = next[1 + k - 1]
          BY <5>3 DEF IsRun
        <5>5. ASSUME NEW k \in 1..m PROVE text[i + k - 1] = out[j + k - 1]
          <6>1. CASE k = 1
            BY <1>0, <3>1, <3>4, <4>2, <6>1
          <6>2. CASE k > 1
            <7>1. /\ text[p + (k - 1) - 1] = next[1 + (k - 1) - 1]
                  /\ p + (k - 1) - 1 = i + k - 1 /\ 1 + (k - 1) - 1 = k - 1
              BY <1>0, <3>1, <5>4, <6>2
            <7>2. out[k] = next[k - 1] /\ j + k - 1 = k
              BY <2>2, <3>4, <3>5, <4>2, <6>2
            <7> QED BY <7>1, <7>2
          <6> QED BY <6>1, <6>2
        <5>6. /\ i \in i..Len(text) /\ i + m - 1 <= Len(text)
              /\ j + m - 1 = Len(out) => i + m - 1 = Len(text)
          <6>1. p + (m - 1) - 1 = i + m - 1
            BY <1>0, <3>1, <4>2, <5>4
          <6>2. j + m - 1 = Len(out) => 1 + (m - 1) - 1 = Len(next)
            BY <2>2, <3>2, <3>4, <4>2
          <6>3. j + m - 1 = Len(out) => i + m - 1 = Len(text)
            BY <5>4, <6>1, <6>2
          <6> QED BY <1>0, <3>1, <5>4, <6>1, <6>3
        <5> QED BY <2>4, <5>5, <5>6 DEF IsRun, length
      <4>3. CASE j > 1
        <5>1. /\ j - 1 \in 1..Len(next) /\ m \in 1..Len(next) /\ (j - 1) + m - 1 <= Len(next)
          BY <2>2, <3>2, <3>4, <3>5, <4>3
        <5>2. ASSUME NEW k \in 1..m PROVE out[j + k - 1] = next[(j - 1) + k - 1]
          <6>1. j + k - 1 \in 2..Len(out) /\ (j + k - 1) - 1 = (j - 1) + k - 1
            BY <2>2, <3>5, <4>3
          <6> QED BY <3>4, <6>1
        <5>3. IsRun(ss, text, next, i + 1, j - 1, m)
          BY <3>1, <3>5, <5>1, <5>2 DEF RunsAreText
        <5>4. PICK p \in (i + 1)..Len(text) :
                /\ p + m - 1 <= Len(text) /\ MatchLength(ss, text, p) = 0
                /\ (j - 1) + m - 1 = Len(next) => p + m - 1 = Len(text)
                /\ \A k \in 1..m : text[p + k - 1] = next[(j - 1) + k - 1]
          BY <5>3 DEF IsRun
        <5>5. /\ p \in i..Len(text) /\ j # 1
              /\ j + m - 1 = Len(out) => p + m - 1 = Len(text)
          BY <1>0, <2>2, <3>1, <3>2, <3>4, <4>3, <5>1, <5>4
        <5>6. \A k \in 1..m : text[p + k - 1] = out[j + k - 1]
          BY <5>2, <5>4
        <5> QED BY <5>4, <5>5, <5>6 DEF IsRun
      <4> QED BY <2>2, <4>1, <4>2, <4>3
    <3>6. out # <<>>
      BY <2>2, <3>2, <3>4, EmptySeq
    <3>7. RunsAreText(ss, text, out, i, Plain)
      BY <3>5, <3>6 DEF RunsAreText
    <3> QED BY <3>7 DEF out
  <2>5. CASE i <= Len(text) /\ length # 0
    <3> DEFINE next == from[i + length].out
               w == Len(mark)
    <3>1. /\ i \in 1..Len(text) /\ length \in Nat /\ i + length \in 1..n
          /\ RunsAreText(ss, text, next, i + length, Plain)
      BY <1>0, <1>2, <2>1, <2>5 DEF n
    <3>2. next \in Seq(A) /\ Len(next) \in Nat /\ w \in Nat \ {0}
      BY <1>0, <1>1, <3>1
    <3>3. out = mark \o next
      BY <2>1, <2>5
    <3> HIDE DEF next, out
    <3>4. /\ Len(out) = w + Len(next)
          /\ \A x \in 1..w : out[x] = mark[x]
          /\ \A x \in (w + 1)..Len(out) : out[x] = next[x - w]
      <4>1. /\ Len(mark \o next) = Len(mark) + Len(next)
            /\ \A x \in 1..Len(mark) + Len(next) :
                 (mark \o next)[x] = IF x <= Len(mark) THEN mark[x] ELSE next[x - Len(mark)]
        BY <3>2, ConcatProperties
      <4> QED BY <3>2, <3>3, <4>1
    <3> HIDE DEF w
    <3>5. ASSUME NEW j \in 1..Len(out), NEW m \in 1..Len(out), j + m - 1 <= Len(out),
                 \A k \in 1..m : out[j + k - 1] \in Plain
          PROVE  IsRun(ss, text, out, i, j, m)
      <4>1. j > w
        <5>1. SUFFICES ASSUME j <= w PROVE FALSE
          BY <3>2
        <5>2. out[j + 1 - 1] \in Plain /\ j + 1 - 1 = j
          <6>1. 1 \in 1..m /\ j + 1 - 1 = j
            BY <2>2, <3>2, <3>4
          <6> QED BY <3>5, <6>1
        <5>3. j \in 1..w /\ j \in 1..Len(mark)
          BY <5>1, <3>2 DEF w
        <5>4. out[j] = mark[j]
          BY <3>4, <5>3
        <5> QED BY <5>2, <5>3, <5>4
      <4>2. /\ j - w \in 1..Len(next) /\ m \in 1..Len(next) /\ (j - w) + m - 1 <= Len(next)
        BY <2>2, <3>2, <3>4, <3>5, <4>1
      <4>3. ASSUME NEW k \in 1..m PROVE out[j + k - 1] = next[(j - w) + k - 1]
        <5>1. j + k - 1 \in (w + 1)..Len(out) /\ (j + k - 1) - w = (j - w) + k - 1
          BY <2>2, <3>2, <3>5, <4>1
        <5> QED BY <3>4, <5>1
      <4>4. IsRun(ss, text, next, i + length, j - w, m)
        BY <3>1, <3>5, <4>2, <4>3 DEF RunsAreText
      <4>5. PICK p \in (i + length)..Len(text) :
              /\ p + m - 1 <= Len(text) /\ MatchLength(ss, text, p) = 0
              /\ (j - w) + m - 1 = Len(next) => p + m - 1 = Len(text)
              /\ \A k \in 1..m : text[p + k - 1] = next[(j - w) + k - 1]
        BY <4>4 DEF IsRun
      <4>6. /\ p \in i..Len(text) /\ j # 1
            /\ j + m - 1 = Len(out) => p + m - 1 = Len(text)
        BY <1>0, <2>2, <3>1, <3>2, <3>4, <4>1, <4>2, <4>5
      <4>7. \A k \in 1..m : text[p + k - 1] = out[j + k - 1]
        BY <4>3, <4>5
      <4> QED BY <4>5, <4>6, <4>7 DEF IsRun
    <3>6. out # <<>>
      BY <2>2, <3>2, <3>4, EmptySeq
    <3>7. RunsAreText(ss, text, out, i, Plain)
      BY <3>5, <3>6 DEF RunsAreText
    <3> QED BY <3>7 DEF out
  <2> QED BY <1>0, <2>3, <2>4, <2>5 DEF n
<1>3. \A i \in 1..n : i \in Good
  <2> HIDE DEF Good, n
  <2> QED BY <1>0, <1>2, Backward
<1> QED BY <1>3

\* Sharing no character with the marker, a secret is gone after the scan.
LEMMA ScanRemoves ==
    ASSUME NEW A, NEW ss \in SUBSET (Seq(A) \ {<<>>}), NEW mark \in Seq(A) \ {<<>>},
           NEW text \in Seq(A), NEW s \in Seq(A) \ {<<>>},
           SharesNothing(s, mark), s \in ss \/ ~Occurs(s, text)
    PROVE  ~Occurs(s, ScanWhole(ss, mark, text))
<1> DEFINE out == ScanWhole(ss, mark, text)
           m == Len(s)
<1>1. out \in Seq(A) /\ Len(out) \in Nat /\ Len(text) \in Nat /\ m \in Nat \ {0}
  BY WholeType, EmptySeq
<1>2. \A j \in 1..Len(mark) : mark[j] \notin ToSet(s)
  <2>1. \A j \in 1..Len(mark) : mark[j] \in ToSet(mark)
    BY DEF ToSet
  <2> QED BY <2>1 DEF SharesNothing
<1>3. RunsAreText(ss, text, out, 1, ToSet(s))
  <2>1. 1 \in 1..Len(text) + 1
    BY <1>1
  <2>2. RunsAreText(ss, text, ScanFrom(ss, mark, text, Len(text))[1].out, 1, ToSet(s))
    BY <1>2, <2>1, PlainRuns
  <2> QED BY <2>2 DEF ScanWhole, Scan
<1> HIDE DEF out
<1>4. ASSUME NEW i \in 1..Len(out), OccursAt(s, out, i) PROVE FALSE
  <2>1. i + m - 1 <= Len(out) /\ \A k \in 1..m : out[i + k - 1] = s[k]
    BY <1>1, <1>4, OccursPointwise
  <2>2. \A k \in 1..m : s[k] \in ToSet(s)
    BY DEF ToSet
  <2>3. m \in 1..Len(out)
    BY <1>1, <2>1
  <2>4. IsRun(ss, text, out, 1, i, m)
    BY <1>3, <2>1, <2>2, <2>3 DEF RunsAreText
  <2>5. PICK p \in 1..Len(text) :
          /\ p + m - 1 <= Len(text) /\ MatchLength(ss, text, p) = 0
          /\ \A k \in 1..m : text[p + k - 1] = out[i + k - 1]
    BY <2>4 DEF IsRun
  <2>6. OccursAt(s, text, p)
    <3>1. \A k \in 1..m : text[p + k - 1] = s[k]
      BY <2>1, <2>5
    <3> QED BY <2>5, <3>1, OccursPointwise
  <2>7. CASE s \in ss
    BY <2>5, <2>6, <2>7, Longest
  <2>8. CASE ~Occurs(s, text)
    BY <2>6, <2>8 DEF Occurs
  <2> QED BY <2>7, <2>8
<1>5. ~Occurs(s, out)
  BY <1>4 DEF Occurs
<1> QED BY <1>5 DEF out

\* A string of part of a text is one of the text.
LEMMA OccursInPart ==
    ASSUME NEW A, NEW s \in Seq(A), NEW text \in Seq(A), NEW z \in Seq(A),
           NEW k \in 0..Len(text), Occurs(s, Drop(text, k))
    PROVE  Occurs(s, text \o z)
<1> DEFINE part == Drop(text, k)
           all == text \o z
<1>1. /\ part \in Seq(A) /\ Len(part) = Len(text) - k /\ Len(text) \in Nat
      /\ \A i \in 1..Len(text) - k : part[i] = text[k + i]
  BY DropIs
<1>2. /\ all \in Seq(A) /\ Len(all) = Len(text) + Len(z) /\ Len(z) \in Nat
      /\ \A i \in 1..Len(text) : all[i] = text[i]
  BY ConcatProperties
<1>3. PICK i \in 1..Len(part) : OccursAt(s, part, i)
  BY DEF Occurs
<1> HIDE DEF part, all
<1>4. i + Len(s) - 1 <= Len(part) /\ \A j \in 1..Len(s) : part[i + j - 1] = s[j]
  <2>1. part \in Seq(A) /\ i \in 1..Len(part) /\ OccursAt(s, part, i)
    BY <1>1, <1>3
  <2> QED BY <2>1, OccursPointwise
<1>5. ASSUME NEW j \in 1..Len(s) PROVE all[(k + i) + j - 1] = s[j]
  <2>1. /\ i + j - 1 \in 1..Len(text) - k /\ k + (i + j - 1) \in 1..Len(text)
        /\ k + (i + j - 1) = (k + i) + j - 1
    BY <1>1, <1>3, <1>4
  <2> QED BY <1>1, <1>2, <1>4, <2>1
<1>6. k + i \in 1..Len(all) /\ (k + i) + Len(s) - 1 <= Len(all)
  BY <1>1, <1>2, <1>4
<1>7. OccursAt(s, all, k + i)
  BY <1>2, <1>5, <1>6, OccursPointwise
<1>8. Occurs(s, all)
  BY <1>6, <1>7 DEF Occurs
<1> QED BY <1>8 DEF all

\* LastOf drops what is too much.
LEMMA LastOfDrops ==
    ASSUME NEW A, NEW text \in Seq(A), NEW size \in Nat
    PROVE  LET excess == IF Len(text) > size THEN Len(text) - size ELSE 0
           IN  excess \in 0..Len(text) /\ LastOf(text, size) = Drop(text, excess)
<1> DEFINE excess == IF Len(text) > size THEN Len(text) - size ELSE 0
           both == {1, Len(text) - size + 1}
<1>1. Len(text) \in Nat /\ excess \in 0..Len(text) /\ both \in SUBSET Int
  OBVIOUS
<1>2. Max(both) = excess + 1
  <2>1. excess + 1 \in both /\ \A y \in both : y <= excess + 1
    BY <1>1
  <2> HIDE DEF both, excess
  <2> QED BY <1>1, <2>1, MaxIs
<1> QED BY <1>1, <1>2 DEF LastOf, Drop

\* The tail of what is appended to a tail, and whether anything was lost.
LEMMA TailOfTail ==
    ASSUME NEW A, NEW text \in Seq(A), NEW more \in Seq(A), NEW size \in Nat
    PROVE  /\ LastOf(text, size) \in Seq(A)
           /\ LastOf(LastOf(text, size) \o more, size) = LastOf(text \o more, size)
           /\ Len(text) > size \/ Len(LastOf(text, size) \o more) > size
                <=> Len(text \o more) > size
<1> DEFINE k == IF Len(text) > size THEN Len(text) - size ELSE 0
           tail == LastOf(text, size)
           new == tail \o more
           all == text \o more
           l == IF Len(new) > size THEN Len(new) - size ELSE 0
           h == IF Len(all) > size THEN Len(all) - size ELSE 0
<1>1. k \in 0..Len(text) /\ tail = Drop(text, k) /\ Len(text) \in Nat /\ Len(more) \in Nat
  BY LastOfDrops
<1>2. tail \in Seq(A) /\ Len(tail) = Len(text) - k
  BY <1>1, DropIs
<1>3. all \in Seq(A) /\ Len(all) = Len(text) + Len(more)
  BY ConcatProperties
<1> HIDE DEF tail
<1>4. new \in Seq(A) /\ Len(new) = Len(tail) + Len(more)
  BY <1>2, ConcatProperties
<1>5. new = Drop(all, k)
  BY <1>1, DropConcat
<1> HIDE DEF new, all
<1>6. LastOf(new, size) = Drop(new, l) /\ l \in 0..Len(new)
  BY <1>4, LastOfDrops
<1>7. LastOf(all, size) = Drop(all, h) /\ h \in 0..Len(all)
  BY <1>3, LastOfDrops
<1>8. h = k + l /\ (Len(text) > size \/ Len(new) > size <=> Len(all) > size)
  <2>1. /\ Len(all) = Len(text) + Len(more) /\ Len(new) = Len(text) - k + Len(more)
        /\ Len(all) \in Nat /\ Len(new) \in Nat
    BY <1>1, <1>2, <1>3, <1>4
  <2>2. CASE Len(text) > size
    BY <1>1, <2>1, <2>2
  <2>3. CASE ~(Len(text) > size)
    BY <1>1, <2>1, <2>3
  <2> QED BY <2>2, <2>3
<1>9. Drop(Drop(all, k), l) = Drop(all, k + l)
  <2>1. k \in 0..Len(all) /\ l \in 0..(Len(all) - k)
    <3> HIDE DEF k, l
    <3>1. Len(all) \in Nat /\ Len(all) = Len(text) + Len(more) /\ Len(new) = Len(text) - k + Len(more)
      BY <1>1, <1>2, <1>3, <1>4
    <3> QED BY <1>1, <1>6, <3>1
  <2> HIDE DEF k, l
  <2> QED BY <1>3, <2>1, DropTwice
<1> QED BY <1>2, <1>5, <1>6, <1>7, <1>8, <1>9 DEF new, all, tail

\* Induction from 0 to a number.
LEMMA Forward ==
    ASSUME NEW n \in Nat, NEW S, 0 \in S, \A k \in 0..n : k \in S /\ k < n => k + 1 \in S
    PROVE  n \in S
<1> DEFINE T == (0..n) \ S
<1>1. SUFFICES ASSUME T # {} PROVE FALSE
  BY DEF T
<1>2. T \in SUBSET Nat
  OBVIOUS
<1>3. PICK k \in T : \A j \in T : k <= j
  <2> HIDE DEF T
  <2> QED BY <1>1, <1>2, Smallest
<1>4. k \in 0..n /\ k \notin S /\ k # 0
  BY <1>3 DEF T
<1>5. k - 1 \in S
  BY <1>3, <1>4 DEF T
<1>6. (k - 1) + 1 \in S
  BY <1>4, <1>5
<1> QED BY <1>4, <1>6

\* The lengths of finitely many strings are bounded.
LEMMA LengthsBounded ==
    ASSUME NEW A, NEW ss \in SUBSET Seq(A), IsFiniteSet(ss)
    PROVE  \E b \in Nat : \A s \in ss : Len(s) <= b
<1>1. PICK n \in Nat : ExistsSurjection(1..n, ss)
  BY FS_NatSurjection
<1>2. PICK f \in [1..n -> ss] : \A s \in ss : \E i \in 1..n : f[i] = s
  BY <1>1 DEF ExistsSurjection, Surjection
<1> DEFINE S == {k \in 0..n : \E b \in Nat : \A i \in 1..k : Len(f[i]) <= b}
<1>3. 0 \in S
  BY <1>1
<1>4. ASSUME NEW k \in 0..n, k \in S, k < n PROVE k + 1 \in S
  <2>1. PICK b \in Nat : \A i \in 1..k : Len(f[i]) <= b
    BY <1>4
  <2>2. Len(f[k + 1]) \in Nat
    <3>1. f[k + 1] \in Seq(A)
      BY <1>2, <1>4
    <3> QED BY <3>1
  <2>3. \A i \in 1..k + 1 : Len(f[i]) <= b + Len(f[k + 1])
    <3> SUFFICES ASSUME NEW i \in 1..k + 1 PROVE Len(f[i]) <= b + Len(f[k + 1])
      OBVIOUS
    <3>1. CASE i \in 1..k
      <4>1. f[i] \in Seq(A)
        BY <1>2, <1>4
      <4>2. Len(f[i]) \in Nat
        BY <4>1
      <4> QED BY <2>1, <2>2, <3>1, <4>2
    <3>2. CASE i = k + 1
      BY <2>1, <2>2, <3>2
    <3> QED BY <1>4, <3>1, <3>2
  <2>4. b + Len(f[k + 1]) \in Nat /\ k + 1 \in 0..n
    BY <1>4, <2>1, <2>2
  <2> QED BY <2>3, <2>4
<1>5. n \in S
  <2> HIDE DEF S
  <2> QED BY <1>3, <1>4, Forward
<1> QED BY <1>2, <1>5

\* No match at or before the cutoff goes beyond the text.
LEMMA CutoffIs ==
    ASSUME NEW A, NEW ss \in SUBSET (Seq(A) \ {<<>>}), IsFiniteSet(ss), NEW text \in Seq(A)
    PROVE  /\ Cutoff(ss, text) \in 0..Len(text)
           /\ \A s \in ss, i \in 1..Cutoff(ss, text) : i + Len(s) - 1 <= Len(text)
<1> DEFINE lengths == {0} \cup {Len(s) : s \in ss}
           longest == LongestSecret(ss)
           n == Len(text)
           from == {0, n - longest + 1}
           upto == {n, Max(from)}
<1>1. PICK b \in Nat : \A s \in ss : Len(s) <= b
  BY LengthsBounded
<1>2. lengths \in SUBSET (0..b) /\ lengths # {} /\ lengths \in SUBSET Int /\ n \in Nat
  BY <1>1
<1>3. PICK x \in lengths : \A y \in lengths : y <= x
  <2> HIDE DEF lengths
  <2> QED BY <1>1, <1>2, Largest
<1>4. longest = x
  <2> HIDE DEF lengths
  <2>1. Max(lengths) = x
    BY <1>2, <1>3, MaxIs
  <2> QED BY <2>1 DEF LongestSecret, lengths
<1>5. longest \in Nat /\ \A s \in ss : Len(s) <= longest
  BY <1>2, <1>3, <1>4
<1> HIDE DEF longest
<1>6. Max(from) = IF n - longest + 1 > 0 THEN n - longest + 1 ELSE 0
  <2> DEFINE m == IF n - longest + 1 > 0 THEN n - longest + 1 ELSE 0
  <2>1. from \in SUBSET Int /\ m \in from /\ \A y \in from : y <= m
    BY <1>2, <1>5
  <2> HIDE DEF from, m
  <2>2. Max(from) = m
    BY <2>1, MaxIs
  <2> QED BY <2>2 DEF m
<1>7. Max(from) \in Int
  <2> HIDE DEF from
  <2> QED BY <1>2, <1>5, <1>6
<1>8. Min(upto) = IF Max(from) < n THEN Max(from) ELSE n
  <2> HIDE DEF from
  <2> DEFINE m == IF Max(from) < n THEN Max(from) ELSE n
  <2>1. upto \in SUBSET Int /\ m \in upto /\ \A y \in upto : m <= y
    BY <1>2, <1>7
  <2> HIDE DEF upto, m
  <2>2. Min(upto) = m
    BY <2>1, MinIs
  <2> QED BY <2>2 DEF m
<1>9. Cutoff(ss, text) = Min(upto)
  BY DEF Cutoff, longest
<1> HIDE DEF from, upto
<1>10. Cutoff(ss, text) \in 0..n
  BY <1>2, <1>5, <1>6, <1>7, <1>8, <1>9
<1>11. ASSUME NEW s \in ss, NEW i \in 1..Cutoff(ss, text) PROVE i + Len(s) - 1 <= n
  <2>1. Len(s) \in Nat /\ Len(s) <= longest
    BY <1>5
  <2>2. i <= n - longest + 1
    BY <1>2, <1>5, <1>6, <1>7, <1>8, <1>9, <1>10
  <2> QED BY <1>2, <1>5, <1>10, <2>1, <2>2
<1> QED BY <1>10, <1>11

--------------------------------------------------------------------------------
(* Redaction: the inductive invariant and the steps.                          *)

\* What is fed and what comes out.
Alphabet == Characters \cup ToSet(Mark) \cup ToSet(RuntimeMark)

OutputTypeOK ==
    /\ secrets \in SecretSets
    /\ printed \in Seq(Characters)
    /\ buffer \in [tail : Seq(Alphabet), pending : Seq(Alphabet), truncated : BOOLEAN]
    /\ finished \in BOOLEAN

Whole(text) == ScanWhole(secrets, Mark, text)

\* What has been given to the tail so far is D; with it, what is kept back
\* stands for everything printed, whatever comes after.
IsEmitted(D) ==
    /\ buffer.tail = LastOf(D, TailSize)
    /\ buffer.truncated <=> Len(D) > TailSize
    /\ finished => buffer.pending = <<>> /\ D = Whole(printed)
    /\ ~finished => \A z \in Seq(Alphabet) : Whole(printed \o z) = D \o Whole(buffer.pending \o z)

RedactionInductive == OutputTypeOK /\ \E D \in Seq(Alphabet) : IsEmitted(D)

\* What is printed, the marker and the secrets are texts of one alphabet.
LEMMA Texts ==
    /\ Seq(Characters) \subseteq Seq(Alphabet)
    /\ Mark \in Seq(Alphabet) /\ Mark # <<>>
    /\ \A ss \in SecretSets : ss \in SUBSET (Seq(Alphabet) \ {<<>>}) /\ IsFiniteSet(ss)
    /\ \A chunk \in Chunks : chunk \in Seq(Characters)
    /\ TailSize \in Nat
<1>1. Seq(Characters) \subseteq Seq(Alphabet)
  <2>1. Characters \subseteq Alphabet
    BY DEF Alphabet
  <2> QED BY <2>1, SeqMonotonic
<1>2. Mark \in Seq(Alphabet) /\ Mark # <<>>
  <2>1. Mark \in Seq({"*"}) /\ Len(Mark) = 3 /\ Mark[1] = "*"
    BY DEF Mark
  <2>2. "*" \in ToSet(Mark)
    <3>1. 1 \in DOMAIN Mark
      BY <2>1
    <3> QED BY <2>1, <3>1 DEF ToSet
  <2>3. {"*"} \subseteq Alphabet
    BY <2>2 DEF Alphabet
  <2>4. Mark \in Seq(Alphabet)
    BY <2>1, <2>3, SeqMonotonic
  <2>5. Mark # <<>>
    BY <2>1, NoLength
  <2> QED BY <2>4, <2>5
<1> QED BY <1>1, <1>2, TextAssumption, TailAssumption

\* A scan of the whole keeps nothing back.
LEMMA NothingKept ==
    ASSUME NEW A, NEW ss \in SUBSET (Seq(A) \ {<<>>}), NEW mark, NEW text \in Seq(A)
    PROVE  Scan(ss, mark, text, Len(text)).pending = <<>>
<1> DEFINE n == Len(text) + 1
           from == ScanFrom(ss, mark, text, Len(text))
           Good == {i \in 1..n : from[i].pending = <<>>}
<1>0. n \in Nat /\ n >= 1 /\ Len(text) \in Nat /\ Len(text) \in 0..Len(text)
  OBVIOUS
<1>1. ASSUME NEW i \in 1..n, \A j \in (i + 1)..n : j \in Good PROVE i \in Good
  <2> DEFINE length == MatchLength(ss, text, i)
  <2>1. /\ i > Len(text) => from[i].pending = SubSeq(text, i, Len(text))
        /\ i <= Len(text) => length \in Nat
        /\ i <= Len(text) /\ length = 0 => i + 1 \in (i + 1)..n /\ from[i].pending = from[i + 1].pending
        /\ i <= Len(text) /\ length # 0 =>
             i + length \in (i + 1)..n /\ from[i].pending = from[i + length].pending
    <3>1. ScanStep(ss, mark, text, Len(text), i)
      BY <1>0, ScanSteps
    <3> QED BY <3>1 DEF ScanStep
  <2> HIDE DEF length, from
  <2>2. i > Len(text) => SubSeq(text, i, Len(text)) = <<>>
    BY <1>0, SubSeqEmpty
  <2> QED BY <1>0, <1>1, <2>1, <2>2
<1>2. \A i \in 1..n : i \in Good
  <2> HIDE DEF Good, n
  <2> QED BY <1>0, <1>1, Backward
<1>3. 1 \in Good
  <2> HIDE DEF Good, n
  <2> QED BY <1>0, <1>2
<1> QED BY <1>3 DEF Scan

\* Of nothing nothing is made.
LEMMA NothingFromNothing ==
    ASSUME NEW A, NEW ss \in SUBSET (Seq(A) \ {<<>>}), NEW mark
    PROVE  ScanWhole(ss, mark, <<>>) = <<>>
<1> DEFINE text == <<>>
<1>1. text \in Seq(A) /\ Len(text) = 0
  BY EmptySeq
<1> HIDE DEF text
<1>2. 0 \in 0..Len(text) /\ 1 \in 1..Len(text) + 1 /\ 1 > 0
  BY <1>1
<1>3. ScanStep(ss, mark, text, 0, 1)
  BY <1>1, <1>2, ScanSteps
<1>4. ScanFrom(ss, mark, text, 0)[1].out = <<>>
  BY <1>2, <1>3 DEF ScanStep
<1> QED BY <1>1, <1>4 DEF ScanWhole, Scan, text

\* What processing adds to what is emitted.
IsProcessed(D, chunk, final) ==
    LET combined == buffer.pending \o chunk
        cutoff == IF final THEN Len(combined) ELSE Cutoff(secrets, combined)
        scan == Scan(secrets, Mark, combined, cutoff)
    IN  /\ combined \in Seq(Alphabet) /\ cutoff \in 0..Len(combined)
        /\ scan.out \in Seq(Alphabet) /\ scan.pending \in Seq(Alphabet)
        /\ buffer' \in [tail : Seq(Alphabet), pending : Seq(Alphabet), truncated : BOOLEAN]
        /\ buffer'.pending = scan.pending
        /\ D \o scan.out \in Seq(Alphabet)
        /\ buffer'.tail = LastOf(D \o scan.out, TailSize)
        /\ buffer'.truncated <=> Len(D \o scan.out) > TailSize

\* A processed chunk is put out and kept back so.
LEMMA Processed ==
    ASSUME OutputTypeOK, NEW D \in Seq(Alphabet), IsEmitted(D), NEW chunk \in Seq(Alphabet),
           NEW final \in BOOLEAN, buffer' = Process(buffer, chunk, final)
    PROVE  IsProcessed(D, chunk, final)
<1> DEFINE combined == buffer.pending \o chunk
           cutoff == IF final THEN Len(combined) ELSE Cutoff(secrets, combined)
           scan == Scan(secrets, Mark, combined, cutoff)
           out == scan.out
<1>1. /\ buffer.pending \in Seq(Alphabet) /\ buffer.tail \in Seq(Alphabet) /\ buffer.truncated \in BOOLEAN
      /\ secrets \in SUBSET (Seq(Alphabet) \ {<<>>}) /\ IsFiniteSet(secrets)
      /\ Mark \in Seq(Alphabet) /\ TailSize \in Nat
  BY Texts DEF OutputTypeOK
<1>2. combined \in Seq(Alphabet) /\ Len(combined) \in Nat
  BY <1>1, ConcatProperties
<1> HIDE DEF combined
<1>3. cutoff \in 0..Len(combined)
  <2>1. Cutoff(secrets, combined) \in 0..Len(combined)
    BY <1>1, <1>2, CutoffIs
  <2> QED BY <1>2, <2>1
<1> HIDE DEF cutoff
<1>4. out \in Seq(Alphabet) /\ scan.pending \in Seq(Alphabet)
  <2>1. 1 \in 1..Len(combined) + 1
    BY <1>2
  <2> QED BY <1>1, <1>2, <1>3, <2>1, ScanTypes DEF Scan
<1>5. buffer' = [Retain(buffer, out) EXCEPT !.pending = scan.pending]
  BY DEF Process, combined, cutoff
<1> HIDE DEF scan, out
<1>6. /\ buffer.tail = LastOf(D, TailSize) /\ (buffer.truncated <=> Len(D) > TailSize)
  BY DEF IsEmitted
<1>7. /\ LastOf(buffer.tail \o out, TailSize) = LastOf(D \o out, TailSize)
      /\ Len(D) > TailSize \/ Len(buffer.tail \o out) > TailSize <=> Len(D \o out) > TailSize
  BY <1>1, <1>4, <1>6, TailOfTail
<1>8. D \o out \in Seq(Alphabet) /\ LastOf(D \o out, TailSize) \in Seq(Alphabet)
  <2>1. D \o out \in Seq(Alphabet)
    BY <1>4, ConcatProperties
  <2>2. <<>> \in Seq(Alphabet)
    BY EmptySeq
  <2> QED BY <1>1, <2>1, <2>2, TailOfTail
<1>9. buffer' = [tail |-> LastOf(buffer.tail \o out, TailSize), pending |-> scan.pending,
                 truncated |-> buffer.truncated \/ Len(buffer.tail \o out) > TailSize]
  BY <1>1, <1>5 DEF Retain, OutputTypeOK
<1>10. /\ buffer'.pending = scan.pending
       /\ buffer'.tail = LastOf(D \o out, TailSize)
       /\ buffer'.truncated <=> Len(D \o out) > TailSize
       /\ buffer'.truncated \in BOOLEAN
  <2>1. /\ buffer'.pending = scan.pending
        /\ buffer'.tail = LastOf(buffer.tail \o out, TailSize)
        /\ buffer'.truncated = (buffer.truncated \/ Len(buffer.tail \o out) > TailSize)
    BY <1>9
  <2>2. buffer'.truncated <=> Len(D \o out) > TailSize
    BY <1>6, <1>7, <2>1
  <2> QED BY <1>1, <1>7, <2>1, <2>2
<1>11. buffer' \in [tail : Seq(Alphabet), pending : Seq(Alphabet), truncated : BOOLEAN]
  BY <1>4, <1>7, <1>8, <1>9
<1> QED BY <1>2, <1>3, <1>4, <1>8, <1>10, <1>11 DEF combined, cutoff, scan, out, IsProcessed

\* The inductive invariant holds before anything is printed.
LEMMA RedactionInit == OutputInit => RedactionInductive
<1> SUFFICES ASSUME OutputInit PROVE RedactionInductive
  OBVIOUS
<1>1. /\ secrets \in SecretSets /\ printed = <<>> /\ finished = FALSE
      /\ buffer = [tail |-> <<>>, pending |-> <<>>, truncated |-> FALSE]
  BY DEF OutputInit, EmptyBuffer
<1>2. <<>> \in Seq(Alphabet) /\ <<>> \in Seq(Characters) /\ Len(<<>>) = 0
  BY EmptySeq
<1>3. OutputTypeOK
  BY <1>1, <1>2 DEF OutputTypeOK
<1>4. LastOf(<<>>, TailSize) = <<>>
  <2>1. TailSize \in Nat
    BY Texts
  <2>2. LastOf(<<>>, TailSize) = Drop(<<>>, 0)
    <3> DEFINE t == <<>>
    <3>1. t \in Seq(Alphabet) /\ Len(t) = 0
      BY <1>2
    <3> HIDE DEF t
    <3>2. LastOf(t, TailSize) = Drop(t, IF Len(t) > TailSize THEN Len(t) - TailSize ELSE 0)
      BY <2>1, <3>1, LastOfDrops
    <3>3. ~(Len(t) > TailSize)
      BY <2>1, <3>1
    <3>4. LastOf(t, TailSize) = Drop(t, 0)
      BY <3>2, <3>3
    <3> QED BY <3>4 DEF t
  <2>3. Drop(<<>>, 0) = <<>>
    BY SubSeqEmpty DEF Drop
  <2> QED BY <2>2, <2>3
<1>5. ASSUME NEW z \in Seq(Alphabet) PROVE Whole(printed \o z) = <<>> \o Whole(buffer.pending \o z)
  <2>1. <<>> \o z = z
    BY ConcatEmptySeq
  <2>2. Whole(z) \in Seq(Alphabet)
    BY <1>1, Texts, WholeType DEF Whole
  <2>3. <<>> \o Whole(z) = Whole(z)
    BY <2>2, ConcatEmptySeq
  <2> QED BY <1>1, <2>1, <2>3
<1>6. IsEmitted(<<>>)
  BY <1>1, <1>2, <1>4, <1>5, Texts DEF IsEmitted
<1> QED BY <1>2, <1>3, <1>6 DEF RedactionInductive

\* Feeding keeps it: no match crosses the cutoff, whatever comes after.
LEMMA FeedKeepsRedaction ==
    ASSUME RedactionInductive, NEW chunk \in Chunks, Feed(chunk) PROVE RedactionInductive'
<1>1. PICK D \in Seq(Alphabet) : IsEmitted(D)
  BY DEF RedactionInductive
<1>2. /\ ~finished /\ ~finished' /\ printed' = printed \o chunk /\ secrets' = secrets
      /\ finished' = finished /\ buffer' = Process(buffer, chunk, FALSE)
  BY DEF Feed
<1>3. /\ OutputTypeOK /\ secrets \in SecretSets /\ printed \in Seq(Characters)
      /\ printed \in Seq(Alphabet) /\ finished \in BOOLEAN
      /\ buffer.pending \in Seq(Alphabet) /\ chunk \in Seq(Characters) /\ chunk \in Seq(Alphabet)
      /\ secrets \in SUBSET (Seq(Alphabet) \ {<<>>}) /\ IsFiniteSet(secrets)
      /\ Mark \in Seq(Alphabet) /\ TailSize \in Nat
  BY Texts DEF RedactionInductive, OutputTypeOK
<1> DEFINE combined == buffer.pending \o chunk
           cutoff == Cutoff(secrets, combined)
           scan == Scan(secrets, Mark, combined, cutoff)
           more == D \o scan.out
<1>4. /\ combined \in Seq(Alphabet) /\ cutoff \in 0..Len(combined)
      /\ scan.out \in Seq(Alphabet) /\ scan.pending \in Seq(Alphabet)
      /\ buffer' \in [tail : Seq(Alphabet), pending : Seq(Alphabet), truncated : BOOLEAN]
      /\ buffer'.pending = scan.pending
      /\ more \in Seq(Alphabet)
      /\ buffer'.tail = LastOf(more, TailSize)
      /\ buffer'.truncated <=> Len(more) > TailSize
  <2>1. IsProcessed(D, chunk, FALSE)
    BY <1>1, <1>2, <1>3, Processed
  <2> QED BY <2>1 DEF IsProcessed
<1>5. ASSUME NEW z \in Seq(Alphabet) PROVE Whole((printed \o chunk) \o z) = more \o Whole(scan.pending \o z)
  <2>1. chunk \o z \in Seq(Alphabet) /\ scan.pending \o z \in Seq(Alphabet)
    BY <1>3, <1>4, ConcatProperties
  <2>2. (printed \o chunk) \o z = printed \o (chunk \o z)
    <3>1. AllTexts(Alphabet, printed, chunk, z)
      BY <1>3 DEF AllTexts
    <3> QED BY <3>1, Associative
  <2>3. Whole(printed \o (chunk \o z)) = D \o Whole(buffer.pending \o (chunk \o z))
    BY <1>1, <1>2, <2>1 DEF IsEmitted
  <2>4. buffer.pending \o (chunk \o z) = combined \o z
    <3> DEFINE a == buffer.pending
    <3>1. AllTexts(Alphabet, a, chunk, z)
      BY <1>3 DEF AllTexts
    <3> HIDE DEF a
    <3>2. (a \o chunk) \o z = a \o (chunk \o z)
      BY <3>1, Associative
    <3> QED BY <3>2 DEF a
  <2> HIDE DEF combined
  <2>5. Whole(combined \o z) = scan.out \o Whole(scan.pending \o z)
    <3>1. \A s \in secrets, i \in 1..cutoff : i + Len(s) - 1 <= Len(combined)
      BY <1>3, <1>4, CutoffIs
    <3> HIDE DEF cutoff
    <3>2. \A s \in secrets, i \in 1..cutoff :
            OccursAt(s, combined \o z, i) => i + Len(s) - 1 <= Len(combined)
      BY <3>1
    <3>3. ScanWhole(secrets, Mark, combined \o z)
          = Scan(secrets, Mark, combined, cutoff).out
            \o ScanWhole(secrets, Mark, Scan(secrets, Mark, combined, cutoff).pending \o z)
      <4>1. /\ combined \in Seq(Alphabet) /\ cutoff \in 0..Len(combined)
            /\ Mark \in Seq(Alphabet) /\ secrets \in SUBSET (Seq(Alphabet) \ {<<>>})
        BY <1>3, <1>4
      <4>2. IsCut(secrets, Mark, combined, z, cutoff)
        BY <3>2, <4>1, ScanCut
      <4> QED BY <4>2 DEF IsCut
    <3> QED BY <3>3 DEF Whole
  <2> HIDE DEF scan
  <2>6. Whole(scan.pending \o z) \in Seq(Alphabet)
    BY <1>3, <2>1, WholeType DEF Whole
  <2>7. D \o (scan.out \o Whole(scan.pending \o z)) = more \o Whole(scan.pending \o z)
    <3> DEFINE a == scan.out
               b == Whole(scan.pending \o z)
    <3>1. AllTexts(Alphabet, D, a, b)
      BY <1>4, <2>6 DEF AllTexts
    <3> HIDE DEF a, b
    <3>2. (D \o a) \o b = D \o (a \o b)
      BY <3>1, Associative
    <3> QED BY <3>2 DEF a, b
  <2> QED BY <2>2, <2>3, <2>4, <2>5, <2>7
<1> HIDE DEF combined, cutoff, scan
<1>6. OutputTypeOK'
  <2>1. printed \o chunk \in Seq(Characters)
    BY <1>3, ConcatProperties
  <2> QED BY <1>2, <1>3, <1>4, <2>1 DEF OutputTypeOK
<1> HIDE DEF more
<1>7. PICK E \in Seq(Alphabet) : E = more
  BY <1>4
<1>8. IsEmitted(E)'
  <2>1. \A z \in Seq(Alphabet) : Whole(printed \o z)' = E \o Whole(buffer.pending \o z)'
    BY <1>2, <1>4, <1>5, <1>7 DEF Whole
  <2> QED BY <1>2, <1>4, <1>7, <2>1 DEF IsEmitted
<1> QED BY <1>6, <1>8 DEF RedactionInductive

\* Finishing keeps it, a second time as well.
LEMMA FinishKeepsRedaction ==
    ASSUME RedactionInductive, Finish PROVE RedactionInductive'
<1>1. PICK D \in Seq(Alphabet) : IsEmitted(D)
  BY DEF RedactionInductive
<1>2. /\ finished' = TRUE /\ printed' = printed /\ secrets' = secrets
      /\ buffer' = Process(buffer, <<>>, TRUE)
  BY DEF Finish
<1>3. /\ OutputTypeOK /\ secrets \in SecretSets /\ printed \in Seq(Characters)
      /\ printed \in Seq(Alphabet) /\ finished \in BOOLEAN /\ <<>> \in Seq(Alphabet)
      /\ buffer.pending \in Seq(Alphabet)
      /\ secrets \in SUBSET (Seq(Alphabet) \ {<<>>})
      /\ Mark \in Seq(Alphabet) /\ TailSize \in Nat
  BY Texts, EmptySeq DEF RedactionInductive, OutputTypeOK
<1> DEFINE kept == buffer.pending
           scan == Scan(secrets, Mark, kept, Len(kept))
           more == D \o scan.out
<1>4. printed \o <<>> = printed /\ kept \o <<>> = kept
  BY <1>3, ConcatEmptySeq
<1>5. /\ scan.out \in Seq(Alphabet)
      /\ buffer' \in [tail : Seq(Alphabet), pending : Seq(Alphabet), truncated : BOOLEAN]
      /\ buffer'.pending = scan.pending
      /\ more \in Seq(Alphabet)
      /\ buffer'.tail = LastOf(more, TailSize)
      /\ buffer'.truncated <=> Len(more) > TailSize
  <2> DEFINE combined == kept \o <<>>
             full == Scan(secrets, Mark, combined, Len(combined))
  <2>1. /\ full.out \in Seq(Alphabet)
        /\ buffer' \in [tail : Seq(Alphabet), pending : Seq(Alphabet), truncated : BOOLEAN]
        /\ buffer'.pending = full.pending
        /\ D \o full.out \in Seq(Alphabet)
        /\ buffer'.tail = LastOf(D \o full.out, TailSize)
        /\ buffer'.truncated <=> Len(D \o full.out) > TailSize
    <3>1. IsProcessed(D, <<>>, TRUE)
      BY <1>1, <1>2, <1>3, Processed
    <3> QED BY <3>1 DEF IsProcessed
  <2>2. full = scan
    BY <1>4
  <2> HIDE DEF full, scan
  <2> QED BY <2>1, <2>2
<1>6. scan.pending = <<>>
  BY <1>3, NothingKept
<1>7. more = Whole(printed)
  <2>1. CASE finished
    <3>1. kept = <<>> /\ D = Whole(printed)
      BY <1>1, <2>1 DEF IsEmitted
    <3>2. scan.out = <<>>
      BY <1>3, <3>1, NothingFromNothing DEF ScanWhole
    <3> HIDE DEF scan
    <3>3. D \o <<>> = D
      BY ConcatEmptySeq
    <3> QED BY <3>1, <3>2, <3>3
  <2>2. CASE ~finished
    <3>1. Whole(printed \o <<>>) = D \o Whole(kept \o <<>>)
      BY <1>1, <1>3, <2>2 DEF IsEmitted
    <3>2. Whole(kept) = scan.out
      BY DEF Whole, ScanWhole
    <3> QED BY <1>4, <3>1, <3>2
  <2> QED BY <1>3, <2>1, <2>2
<1> HIDE DEF kept, scan, more
<1>8. OutputTypeOK'
  BY <1>2, <1>3, <1>5 DEF OutputTypeOK
<1>9. PICK E \in Seq(Alphabet) : E = more
  BY <1>5
<1>10. IsEmitted(E)'
  <2>1. /\ buffer'.tail = LastOf(E, TailSize) /\ (buffer'.truncated <=> Len(E) > TailSize)
        /\ buffer'.pending = <<>> /\ E = Whole(printed)' /\ finished'
    BY <1>2, <1>5, <1>6, <1>7, <1>9 DEF Whole
  <2> QED BY <2>1 DEF IsEmitted
<1> QED BY <1>8, <1>10 DEF RedactionInductive

\* Doing nothing keeps it.
LEMMA StutterKeepsRedaction ==
    ASSUME RedactionInductive, UNCHANGED outputVars PROVE RedactionInductive'
<1>1. PICK D \in Seq(Alphabet) : IsEmitted(D)
  BY DEF RedactionInductive
<1>2. secrets' = secrets /\ printed' = printed /\ buffer' = buffer /\ finished' = finished
  BY DEF outputVars
<1>3. IsEmitted(D)'
  BY <1>1, <1>2 DEF IsEmitted, Whole
<1>4. OutputTypeOK'
  BY <1>2 DEF RedactionInductive, OutputTypeOK
<1> QED BY <1>3, <1>4 DEF RedactionInductive

(* However chunks are cut, what the tail has been given and what _process       *)
(* keeps back stand for everything printed, whatever is printed next; and so   *)
(* they stay after finish.                                                     *)
THEOREM RedactionInductiveHolds == OutputSpec => []RedactionInductive
<1>1. RedactionInductive /\ [OutputNext]_outputVars => RedactionInductive'
  BY FeedKeepsRedaction, FinishKeepsRedaction, StutterKeepsRedaction DEF OutputNext
<1> QED BY <1>1, RedactionInit, PTL DEF OutputSpec

\* The inductive invariant says what the buffer is in the end.
LEMMA RedactedAsOne == RedactionInductive => ChunksAreRedactedAsOne
<1> SUFFICES ASSUME RedactionInductive PROVE ChunksAreRedactedAsOne
  OBVIOUS
<1>1. PICK D \in Seq(Alphabet) : IsEmitted(D)
  BY DEF RedactionInductive
<1>2. /\ printed \in Seq(Alphabet) /\ <<>> \in Seq(Alphabet) /\ finished \in BOOLEAN
      /\ buffer.pending \in Seq(Alphabet)
      /\ secrets \in SUBSET (Seq(Alphabet) \ {<<>>})
      /\ Mark \in Seq(Alphabet) \ {<<>>} /\ TailSize \in Nat
  BY Texts, EmptySeq DEF RedactionInductive, OutputTypeOK
<1>3. ASSUME finished
      PROVE  buffer = [tail |-> LastOf(Whole(printed), TailSize), pending |-> <<>>,
                       truncated |-> Len(Whole(printed)) > TailSize]
  <2>1. /\ D = Whole(printed) /\ buffer.pending = <<>> /\ buffer.tail = LastOf(D, TailSize)
        /\ buffer.truncated <=> Len(D) > TailSize
    BY <1>1, <1>3 DEF IsEmitted
  <2>2. buffer \in [tail : Seq(Alphabet), pending : Seq(Alphabet), truncated : BOOLEAN]
    BY DEF RedactionInductive, OutputTypeOK
  <2> QED BY <2>1, <2>2
<1>4. ASSUME NEW s \in secrets, SharesNothing(s, Mark) PROVE ~Occurs(s, buffer.tail)
  <2>1. PICK more \in Seq(Alphabet) : Whole(printed) = D \o more
    <3>1. printed \o <<>> = printed /\ buffer.pending \o <<>> = buffer.pending /\ D \o <<>> = D
      BY <1>2, ConcatEmptySeq
    <3>2. CASE finished
      <4>1. Whole(printed) = D \o <<>>
        BY <1>1, <3>1, <3>2 DEF IsEmitted
      <4> QED BY <1>2, <4>1
    <3>3. CASE ~finished
      <4>1. Whole(printed \o <<>>) = D \o Whole(buffer.pending \o <<>>)
        BY <1>1, <1>2, <3>3 DEF IsEmitted
      <4>2. Whole(buffer.pending) \in Seq(Alphabet)
        BY <1>2, WholeType DEF Whole
      <4> QED BY <3>1, <4>1, <4>2
    <3> QED BY <1>2, <3>2, <3>3
  <2>2. ~Occurs(s, D \o more)
    <3>1. ~Occurs(s, Whole(printed))
      BY <1>2, <1>4, ScanRemoves DEF Whole
    <3> QED BY <2>1, <3>1
  <2>3. PICK k \in 0..Len(D) : LastOf(D, TailSize) = Drop(D, k)
    BY <1>2, LastOfDrops
  <2>4. s \in Seq(Alphabet)
    BY <1>2
  <2>5. ~Occurs(s, Drop(D, k))
    BY <2>2, <2>4, OccursInPart
  <2> QED BY <1>1, <2>3, <2>5 DEF IsEmitted
<1> QED BY <1>3, <1>4 DEF ChunksAreRedactedAsOne, Whole

(* For secrets, chunks and tails of any length: what the _RedactingTailBuffer   *)
(* holds in the end is the tail of the whole output redacted at once, with     *)
(* truncation reported exactly when something was lost, and at no time is      *)
(* there a secret in it.                                                       *)
THEOREM OneRedaction == OutputSpec => []ChunksAreRedactedAsOne
BY RedactionInductiveHolds, RedactedAsOne, PTL

--------------------------------------------------------------------------------
(* Events: replacing several strings one after the other.                     *)

\* A text in which a string is replaced is a text.
LEMMA ReplaceType ==
    ASSUME NEW A, NEW s \in Seq(A) \ {<<>>}, NEW mark \in Seq(A), NEW text \in Seq(A)
    PROVE  {s} \in SUBSET (Seq(A) \ {<<>>}) /\ Replace(text, s, mark) \in Seq(A)
<1>1. {s} \in SUBSET (Seq(A) \ {<<>>})
  OBVIOUS
<1> QED BY <1>1, WholeType DEF Replace

\* The steps of a replacement of several strings, one after the other.
Replaces(A, after, text, strings, mark) ==
    /\ \A k \in 0..Len(strings) : after[k] \in Seq(A)
    /\ after[0] = text
    /\ \A k \in 1..Len(strings) : after[k] = Replace(after[k - 1], strings[k], mark)
    /\ ReplaceEach(text, strings, mark) = after[Len(strings)]

\* Replacing several strings is done in such steps.
LEMMA ReplaceUnfolds ==
    ASSUME NEW A, NEW strings \in Seq(Seq(A) \ {<<>>}), NEW mark \in Seq(A), NEW text \in Seq(A)
    PROVE  \E after : Replaces(A, after, text, strings, mark)
<1> DEFINE n == Len(strings)
           Solves(f, k) == f = [j \in 0..k |-> IF j = 0 THEN text
                                               ELSE Replace(f[j - 1], strings[j], mark)]
           S == {k \in 0..n : \E f : Solves(f, k)}
<1>0. n \in Nat /\ \A k \in 1..n : strings[k] \in Seq(A) \ {<<>>}
  OBVIOUS
<1>1. 0 \in S
  <2> DEFINE f == [j \in 0..0 |-> text]
             h == [j \in 0..0 |-> IF j = 0 THEN text ELSE Replace(f[j - 1], strings[j], mark)]
  <2>1. \A j \in 0..0 : f[j] = h[j]
    BY SMT
  <2>2. f = h
    BY <2>1
  <2>3. Solves(f, 0)
    BY <2>2
  <2> HIDE DEF f, Solves, n
  <2> QED BY <1>0, <2>3
<1>2. ASSUME NEW k \in 0..n, k \in S, k < n PROVE k + 1 \in S
  <2>1. PICK g : Solves(g, k)
    BY <1>2
  <2> DEFINE f == [j \in 0..(k + 1) |-> IF j = 0 THEN text ELSE Replace(g[j - 1], strings[j], mark)]
  <2>2. \A j \in 0..k : f[j] = g[j]
    BY <1>0, <2>1
  <2>3. \A j \in 0..(k + 1) : j # 0 => f[j - 1] = g[j - 1]
    <3> HIDE DEF f
    <3> QED BY <1>0, <2>2
  <2>4. Solves(f, k + 1)
    <3> DEFINE h == [j \in 0..(k + 1) |-> IF j = 0 THEN text ELSE Replace(f[j - 1], strings[j], mark)]
    <3>1. \A j \in 0..(k + 1) : f[j] = h[j]
      BY <2>3
    <3>2. f = h
      BY <3>1
    <3> QED BY <3>2
  <2> HIDE DEF f, Solves
  <2> QED BY <1>0, <1>2, <2>4
<1>3. n \in S
  <2> HIDE DEF S, n
  <2> QED BY <1>0, <1>1, <1>2, Forward
<1>4. PICK g : Solves(g, n)
  BY <1>3
<1> DEFINE after == CHOOSE f : Solves(f, n)
<1>5. Solves(after, n)
  <2> HIDE DEF Solves
  <2> QED BY <1>4, Zenon
<1>6. ReplaceEach(text, strings, mark) = after[n]
  BY Zenon DEF ReplaceEach
<1> HIDE DEF after
<1>7. after[0] = text /\ \A k \in 1..n : after[k] = Replace(after[k - 1], strings[k], mark)
  <2> DEFINE h == [j \in 0..n |-> IF j = 0 THEN text ELSE Replace(after[j - 1], strings[j], mark)]
  <2>1. after = h
    BY <1>5
  <2>2. \A j \in 0..n : h[j] = IF j = 0 THEN text ELSE Replace(after[j - 1], strings[j], mark)
    OBVIOUS
  <2> HIDE DEF h, n
  <2>3. 0 \in 0..n /\ \A k \in 1..n : k \in 0..n /\ k # 0
    BY <1>0
  <2> QED BY <2>1, <2>2, <2>3, Zenon
<1> HIDE DEF Solves
<1> DEFINE Good == {k \in 0..n : after[k] \in Seq(A)}
<1>8. 0 \in Good
  BY <1>0, <1>7
<1>9. ASSUME NEW k \in 0..n, k \in Good, k < n PROVE k + 1 \in Good
  <2>1. k + 1 \in 1..n /\ (k + 1) - 1 = k /\ after[k] \in Seq(A)
    BY <1>0, <1>9
  <2>2. after[k + 1] = Replace(after[k], strings[k + 1], mark)
    BY <1>7, <2>1
  <2>3. Replace(after[k], strings[k + 1], mark) \in Seq(A)
    BY <1>0, <2>1, ReplaceType
  <2> QED BY <2>1, <2>2, <2>3
<1>10. ASSUME NEW k \in 0..n PROVE after[k] \in Seq(A)
  <2> DEFINE Upto == {j \in 0..n : j <= k => after[j] \in Seq(A)}
  <2>1. 0 \in Upto
    BY <1>8
  <2>2. ASSUME NEW j \in 0..k, j \in Good, j < k PROVE j + 1 \in Good
    BY <1>0, <1>9, <2>2
  <2>3. k \in Good
    <3> HIDE DEF Good
    <3> QED BY <1>8, <2>2, Forward
  <2> QED BY <2>3
<1> QED BY <1>6, <1>7, <1>10 DEF Replaces

\* Where nothing matches nothing is replaced.
LEMMA Untouched ==
    ASSUME NEW A, NEW s \in Seq(A) \ {<<>>}, NEW mark \in Seq(A), NEW text \in Seq(A),
           ~Occurs(s, text)
    PROVE  Replace(text, s, mark) = text
<1> DEFINE n == Len(text) + 1
           from == ScanFrom({s}, mark, text, Len(text))
           Good == {i \in 1..n : from[i].out = SubSeq(text, i, Len(text))}
<1>0. n \in Nat /\ n >= 1 /\ Len(text) \in Nat /\ Len(text) \in 0..Len(text)
      /\ {s} \in SUBSET (Seq(A) \ {<<>>})
  OBVIOUS
<1>1. ASSUME NEW i \in 1..n, \A j \in (i + 1)..n : j \in Good PROVE i \in Good
  <2> DEFINE length == MatchLength({s}, text, i)
  <2>1. /\ i > Len(text) => from[i].out = <<>>
        /\ i <= Len(text) /\ length = 0 =>
             i + 1 \in (i + 1)..n /\ from[i].out = <<text[i]>> \o from[i + 1].out
    <3>1. ScanStep({s}, mark, text, Len(text), i)
      BY <1>0, ScanSteps
    <3> QED BY <3>1 DEF ScanStep
  <2>2. i <= Len(text) => length = 0
    <3> SUFFICES ASSUME i <= Len(text), length # 0 PROVE FALSE
      OBVIOUS
    <3>1. i \in 1..Len(text)
      BY <1>0
    <3>2. \E t \in {s} : OccursAt(t, text, i)
      BY <1>0, <3>1, Longest, ZenonT(40)
    <3> QED BY <3>1, <3>2 DEF Occurs
  <2> HIDE DEF length, from
  <2>3. i > Len(text) => SubSeq(text, i, Len(text)) = <<>>
    BY <1>0, SubSeqEmpty
  <2>4. ASSUME i <= Len(text)
        PROVE  SubSeq(text, i, Len(text)) = <<text[i]>> \o SubSeq(text, i + 1, Len(text))
    <3>1. i \in 1..Len(text) /\ Len(text) \in i..Len(text)
      BY <1>0, <2>4
    <3> QED BY <3>1, SubSeqRecursiveFirst
  <2>5. CASE i > Len(text)
    BY <2>1, <2>3, <2>5
  <2>6. CASE i <= Len(text)
    <3>1. from[i + 1].out = SubSeq(text, i + 1, Len(text))
      BY <1>1, <2>1, <2>2, <2>6
    <3> QED BY <2>1, <2>2, <2>4, <2>6, <3>1
  <2> QED BY <1>0, <2>5, <2>6
<1>2. \A i \in 1..n : i \in Good
  <2> HIDE DEF Good, n
  <2> QED BY <1>0, <1>1, Backward
<1>3. from[1].out = SubSeq(text, 1, Len(text))
  <2>1. 1 \in Good
    <3> HIDE DEF Good, n
    <3> QED BY <1>0, <1>2
  <2> QED BY <2>1
<1>4. SubSeq(text, 1, Len(text)) = text
  BY SubSeqFull
<1> QED BY <1>3, <1>4 DEF Replace, ScanWhole, Scan

\* A string occurs in itself.
LEMMA OccursInItself ==
    ASSUME NEW A, NEW s \in Seq(A) \ {<<>>} PROVE 1 \in 1..Len(s) /\ OccursAt(s, s, 1)
<1>1. Len(s) \in Nat \ {0}
  BY EmptySeq
<1>2. SubSeq(s, 1, Len(s)) = s
  BY SubSeqFull
<1>3. 1 + Len(s) - 1 = Len(s)
  BY <1>1
<1> QED BY <1>1, <1>2, <1>3 DEF OccursAt

\* A match is as long as any of its secrets.
LEMMA Matching ==
    ASSUME NEW A, NEW ss \in SUBSET (Seq(A) \ {<<>>}), NEW text \in Seq(A), NEW i \in 1..Len(text),
           NEW s \in ss, OccursAt(s, text, i)
    PROVE  Len(s) <= MatchLength(ss, text, i) /\ MatchLength(ss, text, i) # 0
BY Longest, ZenonT(40)

\* Of a string itself only the marker is left.
LEMMA Replaced ==
    ASSUME NEW A, NEW s \in Seq(A) \ {<<>>}, NEW mark \in Seq(A)
    PROVE  Replace(s, s, mark) = mark
<1> DEFINE from == ScanFrom({s}, mark, s, Len(s))
           length == MatchLength({s}, s, 1)
           n == Len(s) + 1
<1>0. /\ {s} \in SUBSET (Seq(A) \ {<<>>}) /\ Len(s) \in 0..Len(s) /\ 1 \in 1..n /\ n \in 1..n
      /\ Len(s) \in Nat \ {0}
  BY EmptySeq
<1>1. 1 \in 1..Len(s) /\ OccursAt(s, s, 1)
  BY OccursInItself
<1>2. length = Len(s)
  <2>1. s \in Seq(A) /\ {s} \in SUBSET (Seq(A) \ {<<>>}) /\ 1 \in 1..Len(s)
    BY <1>0, <1>1
  <2>2. length # 0 => \E t \in {s} : OccursAt(t, s, 1) /\ Len(t) = length
    <3> HIDE DEF n, from
    <3> QED BY <2>1, Longest, ZenonT(40)
  <2>3. Len(s) <= length /\ length # 0
    <3> HIDE DEF n, from
    <3>1. s \in {s}
      OBVIOUS
    <3> QED BY <1>1, <2>1, <3>1, Matching
  <2> HIDE DEF length, n, from
  <2> QED BY <1>1, <2>2, <2>3
<1>3. 1 <= Len(s) /\ length # 0 => from[1].out = mark \o from[1 + length].out
  <2>1. ScanStep({s}, mark, s, Len(s), 1)
    BY <1>0, ScanSteps
  <2> QED BY <2>1 DEF ScanStep
<1>4. from[n].out = <<>>
  <2>1. ScanStep({s}, mark, s, Len(s), n)
    BY <1>0, ScanSteps
  <2>2. n > Len(s)
    BY <1>0
  <2> QED BY <2>1, <2>2 DEF ScanStep
<1>5. from[1].out = mark \o <<>>
  <2>1. 1 + length = n /\ 1 <= Len(s) /\ length # 0
    BY <1>0, <1>2
  <2> HIDE DEF from, length, n
  <2> QED BY <1>3, <1>4, <2>1
<1>6. mark \o <<>> = mark
  BY ConcatEmptySeq
<1> QED BY <1>5, <1>6 DEF Replace, ScanWhole, Scan

\* Texts that no match spans can be redacted one by one.
NoneCrosses(ss, text, z) ==
    \A s \in ss, i \in 1..Len(text) : OccursAt(s, text \o z, i) => i + Len(s) - 1 <= Len(text)

Splits(ss, mark, text, z) ==
    ScanWhole(ss, mark, text \o z) = ScanWhole(ss, mark, text) \o ScanWhole(ss, mark, z)

\* Where no match crosses, a redacted text is made of two.
LEMMA WholeOfTwo ==
    ASSUME NEW A, NEW ss \in SUBSET (Seq(A) \ {<<>>}), NEW mark \in Seq(A),
           NEW text \in Seq(A), NEW z \in Seq(A), NoneCrosses(ss, text, z)
    PROVE  Splits(ss, mark, text, z)
<1>1. Len(text) \in 0..Len(text)
  OBVIOUS
<1>2. IsCut(ss, mark, text, z, Len(text))
  BY <1>1, ScanCut DEF NoneCrosses
<1>3. Scan(ss, mark, text, Len(text)).pending = <<>>
  BY NothingKept
<1>4. <<>> \o z = z
  BY ConcatEmptySeq
<1> QED BY <1>2, <1>3, <1>4 DEF IsCut, ScanWhole, Splits

\* A text of three parts.
Parts(x, w, y) == x \o (w \o y)

IsText(A, x, w, y) ==
    /\ Parts(x, w, y) \in Seq(A)
    /\ Len(x) \in Nat /\ Len(w) \in Nat /\ Len(y) \in Nat
    /\ Len(Parts(x, w, y)) = Len(x) + Len(w) + Len(y)
    /\ \A i \in 1..Len(x) : Parts(x, w, y)[i] = x[i]
    /\ \A i \in 1..Len(w) : Parts(x, w, y)[Len(x) + i] = w[i]
    /\ \A i \in 1..Len(y) : Parts(x, w, y)[Len(x) + Len(w) + i] = y[i]

\* The characters of the three parts.
LEMMA PartsAre ==
    ASSUME NEW A, NEW x, NEW w, NEW y, AllTexts(A, x, w, y)
    PROVE  IsText(A, x, w, y)
<1> DEFINE z == w \o y
           all == x \o z
<1>1. x \in Seq(A) /\ w \in Seq(A) /\ y \in Seq(A)
  BY DEF AllTexts
<1>2. /\ z \in Seq(A) /\ Len(z) = Len(w) + Len(y)
      /\ \A i \in 1..Len(w) + Len(y) : z[i] = IF i <= Len(w) THEN w[i] ELSE y[i - Len(w)]
  BY <1>1, ConcatProperties
<1>3. Len(x) \in Nat /\ Len(w) \in Nat /\ Len(y) \in Nat
  BY <1>1
<1> HIDE DEF z
<1>4. /\ all \in Seq(A) /\ Len(all) = Len(x) + Len(z)
      /\ \A i \in 1..Len(x) + Len(z) : all[i] = IF i <= Len(x) THEN x[i] ELSE z[i - Len(x)]
  <2>1. x \in Seq(A) /\ z \in Seq(A)
    BY <1>1, <1>2
  <2> QED BY <2>1, ConcatProperties
<1> HIDE DEF all
<1>5. ASSUME NEW i \in 1..Len(x) PROVE all[i] = x[i]
  <2>1. Len(z) \in Nat
    BY <1>2, <1>3
  <2>2. i \in 1..Len(x) + Len(z) /\ i <= Len(x)
    BY <1>3, <2>1
  <2> QED BY <1>4, <2>2
<1>6. ASSUME NEW i \in 1..Len(w) PROVE all[Len(x) + i] = w[i]
  <2>1. Len(x) + i \in 1..Len(x) + Len(z) /\ ~(Len(x) + i <= Len(x)) /\ Len(x) + i - Len(x) = i
        /\ i \in 1..Len(w) + Len(y)
    BY <1>2, <1>3
  <2> QED BY <1>2, <1>4, <2>1
<1>7. ASSUME NEW i \in 1..Len(y) PROVE all[Len(x) + Len(w) + i] = y[i]
  <2> DEFINE j == Len(w) + i
  <2>1. /\ j \in 1..Len(w) + Len(y) /\ ~(j <= Len(w)) /\ j - Len(w) = i
        /\ Len(x) + Len(w) + i = Len(x) + j /\ Len(x) + j \in 1..Len(x) + Len(z)
        /\ ~(Len(x) + j <= Len(x)) /\ Len(x) + j - Len(x) = j
    BY <1>2, <1>3
  <2> HIDE DEF j
  <2>2. all[Len(x) + j] = z[j] /\ z[j] = y[j - Len(w)]
    BY <1>2, <1>4, <2>1
  <2> QED BY <2>1, <2>2
<1>8. all = Parts(x, w, y)
  BY DEF all, z, Parts
<1>9. Len(all) = Len(x) + Len(w) + Len(y)
  BY <1>2, <1>3, <1>4
<1> QED BY <1>3, <1>4, <1>5, <1>6, <1>7, <1>8, <1>9 DEF IsText

\* String v occurs in no two of the parts at once.
Within(v, x, w, y) ==
    \A j \in 1..Len(Parts(x, w, y)) :
        OccursAt(v, Parts(x, w, y), j) =>
            \/ j + Len(v) - 1 <= Len(x)
            \/ Len(x) < j /\ j + Len(v) - 1 <= Len(x) + Len(w)
            \/ Len(x) + Len(w) < j

\* Then replacing it in the text is replacing it in each part.
LEMMA ReplaceParts ==
    ASSUME NEW A, NEW u \in Seq(A) \ {<<>>}, NEW mark \in Seq(A), NEW x, NEW w, NEW y,
           AllTexts(A, x, w, y), Within(u, x, w, y)
    PROVE  Replace(Parts(x, w, y), u, mark)
           = Parts(Replace(x, u, mark), Replace(w, u, mark), Replace(y, u, mark))
<1> DEFINE ss == {u}
           z == w \o y
           all == Parts(x, w, y)
<1>1. x \in Seq(A) /\ w \in Seq(A) /\ y \in Seq(A)
  BY DEF AllTexts
<1>2. z \in Seq(A) /\ ss \in SUBSET (Seq(A) \ {<<>>}) /\ Len(u) \in Nat \ {0}
  BY <1>1, ConcatProperties, EmptySeq
<1>3. IsText(A, x, w, y)
  BY PartsAre
<1>4. ASSUME NEW i \in 1..Len(x), OccursAt(u, x \o z, i)
      PROVE  i + Len(u) - 1 <= Len(x)
  <2>1. OccursAt(u, all, i) /\ i \in 1..Len(all)
    BY <1>3, <1>4 DEF IsText, Parts
  <2>2. Len(x) \in Nat /\ Len(w) \in Nat
    BY <1>3 DEF IsText
  <2> QED BY <2>1, <2>2 DEF Within
<1>5. ASSUME NEW i \in 1..Len(w), OccursAt(u, z, i)
      PROVE  i + Len(u) - 1 <= Len(w)
  <2> DEFINE j == Len(x) + i
  <2>1. /\ Len(x) \in Nat /\ Len(w) \in Nat /\ Len(y) \in Nat /\ Len(z) = Len(w) + Len(y)
        /\ Len(all) = Len(x) + Len(w) + Len(y) /\ all \in Seq(A)
        /\ all = x \o z
    BY <1>1, <1>3, ConcatProperties DEF IsText, Parts
  <2>2. j \in 1..Len(all) /\ i \in 1..Len(z)
    BY <2>1
  <2>3. \A k \in 1..Len(z) : all[Len(x) + k] = z[k]
    <3>1. /\ \A k \in 1..Len(x) + Len(z) : all[k] = IF k <= Len(x) THEN x[k] ELSE z[k - Len(x)]
      BY <1>1, <1>2, <2>1, ConcatProperties
    <3> HIDE DEF all, z
    <3> TAKE k \in 1..Len(z)
    <3>2. Len(x) + k \in 1..Len(x) + Len(z) /\ ~(Len(x) + k <= Len(x)) /\ Len(x) + k - Len(x) = k
      BY <2>1
    <3> QED BY <3>1, <3>2
  <2>4. i + Len(u) - 1 <= Len(z) /\ \A k \in 1..Len(u) : z[i + k - 1] = u[k]
    <3> HIDE DEF z
    <3> QED BY <1>2, <1>5, <2>2, OccursPointwise
  <2>5. j + Len(u) - 1 <= Len(all) /\ \A k \in 1..Len(u) : all[j + k - 1] = u[k]
    <3> HIDE DEF z, all
    <3>1. j + Len(u) - 1 <= Len(all)
      BY <1>2, <2>1, <2>4
    <3>2. ASSUME NEW k \in 1..Len(u) PROVE all[j + k - 1] = u[k]
      <4>1. i + k - 1 \in 1..Len(z) /\ j + k - 1 = Len(x) + (i + k - 1)
        BY <1>2, <2>1, <2>4
      <4> HIDE DEF j
      <4> QED BY <2>3, <2>4, <4>1
    <3> QED BY <3>1, <3>2
  <2>6. OccursAt(u, all, j)
    <3> HIDE DEF all, j
    <3> QED BY <1>2, <2>1, <2>2, <2>5, OccursPointwise
  <2> HIDE DEF all
  <2>7. \/ j + Len(u) - 1 <= Len(x) 
        \/ Len(x) < j /\ j + Len(u) - 1 <= Len(x) + Len(w)
        \/ Len(x) + Len(w) < j
    BY <2>2, <2>6 DEF Within, all
  <2> QED BY <1>2, <2>1, <2>7
<1>6. NoneCrosses(ss, x, z) /\ NoneCrosses(ss, w, y)
  BY <1>4, <1>5 DEF NoneCrosses
<1> HIDE DEF z, ss
<1>7. Splits(ss, mark, x, z)
  <2>1. ss \in SUBSET (Seq(A) \ {<<>>}) /\ x \in Seq(A) /\ z \in Seq(A) /\ NoneCrosses(ss, x, z)
    BY <1>1, <1>2, <1>6
  <2> QED BY <2>1, WholeOfTwo
<1>8. Splits(ss, mark, w, y)
  <2>1. ss \in SUBSET (Seq(A) \ {<<>>}) /\ w \in Seq(A) /\ y \in Seq(A) /\ NoneCrosses(ss, w, y)
    BY <1>1, <1>2, <1>6
  <2> QED BY <2>1, WholeOfTwo
<1> QED BY <1>7, <1>8 DEF Replace, Parts, z, ss, Splits

\* What has no character of the marker was there before.
LEMMA ReplacedRuns ==
    ASSUME NEW A, NEW u \in Seq(A) \ {<<>>}, NEW mark \in Seq(A) \ {<<>>}, NEW text \in Seq(A),
           NEW v \in Seq(A), SharesNothing(v, mark)
    PROVE  RunsAreText({u}, text, Replace(text, u, mark), 1, ToSet(v))
<1>1. \A j \in 1..Len(mark) : mark[j] \notin ToSet(v)
  <2>1. \A j \in 1..Len(mark) : mark[j] \in ToSet(mark)
    BY DEF ToSet
  <2> QED BY <2>1 DEF SharesNothing
<1>2. 1 \in 1..Len(text) + 1 /\ {u} \in SUBSET (Seq(A) \ {<<>>}) /\ mark \in Seq(A) /\ mark # <<>>
  OBVIOUS
<1>3. RunsAreText({u}, text, ScanFrom({u}, mark, text, Len(text))[1].out, 1, ToSet(v))
  BY <1>1, <1>2, PlainRuns
<1> QED BY <1>3 DEF Replace, ScanWhole, Scan

\* Around a part that stays the same, replacing moves no string across a border.
LEMMA WithinKept ==
    ASSUME NEW A, NEW u \in Seq(A) \ {<<>>}, NEW mark \in Seq(A) \ {<<>>},
           NEW x, NEW w, NEW y, AllTexts(A, x, w, y),
           NEW v \in Seq(A) \ {<<>>}, SharesNothing(v, mark), Within(v, x, w, y)
    PROVE  Within(v, Replace(x, u, mark), w, Replace(y, u, mark))
<1> DEFINE X == Replace(x, u, mark)
           Y == Replace(y, u, mark)
           m == Len(v)
           old == Parts(x, w, y)
           new == Parts(X, w, Y)
           d == Len(x) - Len(X)
<1>1. x \in Seq(A) /\ w \in Seq(A) /\ y \in Seq(A)
  BY DEF AllTexts
<1>2. X \in Seq(A) /\ Y \in Seq(A)
  BY <1>1, ReplaceType
<1>3. RunsAreText({u}, x, X, 1, ToSet(v)) /\ RunsAreText({u}, y, Y, 1, ToSet(v))
  BY <1>1, ReplacedRuns
<1>4. m \in Nat \ {0} /\ \A k \in 1..m : v[k] \in ToSet(v)
  BY EmptySeq DEF ToSet
<1> HIDE DEF X, Y
<1>5. IsText(A, x, w, y) /\ IsText(A, X, w, Y)
  BY <1>1, <1>2, PartsAre DEF AllTexts
<1> SUFFICES ASSUME NEW j \in 1..Len(new), OccursAt(v, new, j),
                    j + m - 1 > Len(X), ~(Len(X) < j /\ j + m - 1 <= Len(X) + Len(w)),
                    j <= Len(X) + Len(w)
             PROVE  FALSE
  <2>1. Len(X) \in Nat /\ Len(w) \in Nat
    BY <1>1, <1>2
  <2>2. ASSUME NEW j \in 1..Len(new), OccursAt(v, new, j)
        PROVE  \/ j + m - 1 <= Len(X)
               \/ Len(X) < j /\ j + m - 1 <= Len(X) + Len(w)
               \/ Len(X) + Len(w) < j
    BY <1>4, <2>1, <2>2, SMTT(30)
  <2> QED BY <2>2 DEF Within, X, Y
<1>6. /\ old \in Seq(A) /\ new \in Seq(A)
      /\ Len(x) \in Nat /\ Len(w) \in Nat /\ Len(y) \in Nat /\ Len(X) \in Nat /\ Len(Y) \in Nat
      /\ Len(old) = Len(x) + Len(w) + Len(y) /\ Len(new) = Len(X) + Len(w) + Len(Y)
  BY <1>5 DEF IsText
<1>7. j + m - 1 <= Len(new) /\ \A k \in 1..m : new[j + k - 1] = v[k]
  <2> HIDE DEF new, m
  <2> QED BY <1>6, OccursPointwise, ZenonT(40) DEF m
<1>8. ASSUME j <= Len(X)
      PROVE  /\ j + d >= 1
             /\ \A k \in 1..m : j + k - 1 <= Len(X) => old[j + d + k - 1] = v[k]
  <2> DEFINE r == Len(X) - j + 1
  <2>1. r \in 1..Len(X) /\ j \in 1..Len(X) /\ j + r - 1 = Len(X) /\ r <= m
    BY <1>4, <1>6, <1>8
  <2>2. \A k \in 1..r : X[j + k - 1] = v[k] /\ X[j + k - 1] \in ToSet(v)
    <3> TAKE k \in 1..r
    <3>1. k \in 1..m /\ j + k - 1 \in 1..Len(X)
      BY <1>4, <1>6, <2>1
    <3>2. new[j + k - 1] = X[j + k - 1]
      BY <1>5, <3>1 DEF IsText
    <3> QED BY <1>4, <1>7, <3>1, <3>2
  <2>3. IsRun({u}, x, X, 1, j, r)
    <3>1. j + r - 1 <= Len(X)
      BY <1>6, <2>1
    <3>2. \A k \in 1..r : X[j + k - 1] \in ToSet(v)
      BY <2>2
    <3> HIDE DEF r
    <3> QED BY <1>3, <2>1, <3>1, <3>2 DEF RunsAreText
  <2>4. PICK p \in 1..Len(x) : /\ p + r - 1 = Len(x)
                               /\ \A k \in 1..r : x[p + k - 1] = X[j + k - 1]
    <3> HIDE DEF r
    <3> QED BY <2>1, <2>3 DEF IsRun
  <2>5. p = j + d
    <3>1. p \in Nat /\ j \in Nat /\ p + r - 1 = Len(x) /\ Len(x) \in Nat /\ Len(X) \in Nat
      BY <1>6, <2>1, <2>4
    <3>2. r = Len(X) - j + 1 /\ d = Len(x) - Len(X) /\ r \in Int /\ d \in Int /\ p \in Int /\ j \in Int
      BY <3>1
    <3>3. Len(x) = p + r - 1 /\ Len(X) = r + j - 1
      BY <3>1, <3>2
    <3>4. d = (p + r - 1) - (r + j - 1)
      BY <3>3
    <3>5. d = p - j
      <4>1. \A a, b, c, e \in Int : e = (a + c - 1) - (c + b - 1) => e = a - b
        OBVIOUS
      <4>2. r \in Int /\ d \in Int /\ p \in Int /\ j \in Int
        BY <3>2
      <4> HIDE DEF d, r, m, new, old
      <4> QED BY <4>1, <4>2, <3>4, Zenon
    <3> QED BY <3>1, <3>5
  <2>6. ASSUME NEW k \in 1..m, j + k - 1 <= Len(X) PROVE old[j + d + k - 1] = v[k]
    <3>1. k \in 1..r /\ p + k - 1 \in 1..Len(x)
      BY <1>4, <1>6, <2>1, <2>4, <2>6, SMTT(30)
    <3>2. x[p + k - 1] = v[k]
      BY <2>2, <2>4, <3>1
    <3>3. old[p + k - 1] = x[p + k - 1]
      BY <1>5, <3>1 DEF IsText
    <3> HIDE DEF old, d
    <3> QED BY <2>5, <3>2, <3>3
  <2> QED BY <2>4, <2>5, <2>6
<1>9. j + d >= 1
  BY <1>6, <1>8
<1>10. ASSUME j + m - 1 > Len(X) + Len(w)
       PROVE  /\ j + d + m - 1 <= Len(old)
              /\ \A k \in 1..m : j + k - 1 > Len(X) + Len(w) => old[j + d + k - 1] = v[k]
  <2> DEFINE b == Len(X) + Len(w)
             r == j + m - 1 - b
  <2>1. r \in 1..Len(Y) /\ 1 \in 1..Len(Y) /\ 1 + r - 1 <= Len(Y) /\ b \in Nat /\ r <= m
    BY <1>4, <1>6, <1>7, <1>10, SMTT(30)
  <2>2. \A k \in 1..r : Y[k] = v[b + k - j + 1] /\ Y[1 + k - 1] \in ToSet(v)
    <3> TAKE k \in 1..r
    <3>1. /\ b + k - j + 1 \in 1..m /\ k \in 1..Len(Y) /\ j + (b + k - j + 1) - 1 = b + k
          /\ 1 + k - 1 = k
      <4>1. /\ k \in Nat /\ k >= 1 /\ k <= r /\ j \in Nat /\ b \in Nat /\ m \in Nat /\ r = j + m - 1 - b
            /\ r <= Len(Y) /\ Len(Y) \in Nat
        BY <1>4, <1>6, <2>1
      <4>2. j <= b
        BY <1>6
      <4> HIDE DEF b, r, m
      <4>3. b + k - j + 1 \in Int /\ b + k - j + 1 >= 1 /\ b + k - j + 1 <= m
        BY <4>1, <4>2
      <4> QED BY <4>1, <4>3
    <3>2. new[b + k] = Y[k]
      BY <1>5, <3>1 DEF IsText
    <3>3. new[b + k] = v[b + k - j + 1]
      <4> HIDE DEF b, new, m
      <4> QED BY <1>7, <3>1
    <3> HIDE DEF b, new, m
    <3> QED BY <1>4, <3>1, <3>2, <3>3
  <2>3. IsRun({u}, y, Y, 1, 1, r)
    <3> HIDE DEF r
    <3> QED BY <1>3, <1>6, <2>1, <2>2 DEF RunsAreText
  <2>4. PICK p \in 1..Len(y) : /\ p + r - 1 <= Len(y) /\ p = 1
                               /\ \A k \in 1..r : y[p + k - 1] = Y[1 + k - 1]
    <3> HIDE DEF r
    <3> QED BY <2>1, <2>3 DEF IsRun
  <2>5. r <= Len(y) /\ \A k \in 1..r : y[k] = Y[k]
    <3>1. \A k \in 1..r : 1 + k - 1 = k
      BY <2>1
    <3> HIDE DEF r
    <3> QED BY <2>1, <2>4, <3>1
  <2>6. j + d + m - 1 <= Len(old)
    BY <1>4, <1>6, <2>1, <2>5
  <2>7. ASSUME NEW k \in 1..m, j + k - 1 > b PROVE old[j + d + k - 1] = v[k]
    <3> DEFINE i == j + k - 1 - b
    <3>1. /\ i \in 1..r /\ i \in 1..Len(y) /\ j + d + k - 1 = Len(x) + Len(w) + i /\ b + i - j + 1 = k
      <4>1. k \in Nat /\ j \in Nat /\ m \in Nat /\ k <= m /\ r <= Len(y) /\ k >= 1
        BY <1>4, <2>5
      <4>2. /\ r = j + m - 1 - b /\ b = Len(X) + Len(w) /\ i = j + k - 1 - b /\ d = Len(x) - Len(X)
            /\ Len(X) \in Nat /\ Len(w) \in Nat /\ Len(x) \in Nat /\ Len(y) \in Nat /\ j + k - 1 > b
        BY <1>6, <2>7
      <4> HIDE DEF r, b, i, d, m, old, new
      <4>3. b \in Nat /\ d \in Int /\ i \in Int /\ r \in Int
        BY <4>1, <4>2
      <4>4. i >= 1 /\ i <= r
        BY <4>1, <4>2, <4>3, SMTT(30)
      <4>5. i <= Len(y)
        BY <4>1, <4>2, <4>3, <4>4, SMTT(30)
      <4>6. j + d + k - 1 = Len(x) + Len(w) + i /\ b + i - j + 1 = k
        BY <4>1, <4>2, <4>3
      <4> QED BY <4>2, <4>3, <4>4, <4>5, <4>6
    <3>2. old[Len(x) + Len(w) + i] = y[i]
      BY <1>5, <3>1 DEF IsText
    <3> HIDE DEF i, b, r, old, d
    <3> QED BY <2>2, <2>5, <3>1, <3>2
  <2> QED BY <2>6, <2>7
<1>11. j + d + m - 1 <= Len(old)
  BY <1>4, <1>6, <1>10
<1>12. ASSUME NEW k \in 1..m PROVE old[j + d + k - 1] = v[k]
  <2>1. CASE j + k - 1 <= Len(X)
    BY <1>4, <1>6, <1>8, <2>1, SMTT(30)
  <2>2. CASE j + k - 1 > Len(X) + Len(w)
    BY <1>4, <1>6, <1>10, <2>2, SMTT(30)
  <2>3. CASE Len(X) < j + k - 1 /\ j + k - 1 <= Len(X) + Len(w)
    <3> DEFINE i == j + k - 1 - Len(X)
    <3>1. /\ i \in 1..Len(w) /\ j + d + k - 1 = Len(x) + i /\ j + k - 1 = Len(X) + i
      BY <1>4, <1>6, <2>3
    <3>2. old[Len(x) + i] = w[i] /\ new[Len(X) + i] = w[i]
      BY <1>5, <3>1 DEF IsText
    <3> HIDE DEF i, old, new, d
    <3> QED BY <1>7, <3>1, <3>2
  <2> QED BY <1>4, <1>6, <2>1, <2>2, <2>3, SMTT(30)
<1>13. j + d \in 1..Len(old)
  BY <1>4, <1>6, <1>9, <1>11
<1>14. OccursAt(v, old, j + d)
  <2> DEFINE i == j + d
  <2> HIDE DEF i
  <2>1. i \in 1..Len(old) /\ i + m - 1 <= Len(old) /\ \A k \in 1..m : old[i + k - 1] = v[k]
    BY <1>11, <1>12, <1>13 DEF i
  <2> HIDE DEF old
  <2>2. OccursAt(v, old, i)
    BY <1>6, <2>1, OccursPointwise
  <2> QED BY <2>2 DEF i
<1>15. \/ j + d + m - 1 <= Len(x)
       \/ Len(x) < j + d /\ j + d + m - 1 <= Len(x) + Len(w)
       \/ Len(x) + Len(w) < j + d
  BY <1>13, <1>14 DEF Within
<1> QED BY <1>4, <1>6, <1>15, SMTT(30)

\* Nothing with a character of its own occurs across a part that is not empty.
LEMMA MarkParts ==
    ASSUME NEW A, NEW x, NEW w, NEW y, AllTexts(A, x, w, y), w # <<>>,
           NEW v \in Seq(A) \ {<<>>}, SharesNothing(v, w)
    PROVE  Within(v, x, w, y) /\ ~Occurs(v, w)
<1> DEFINE m == Len(v)
           all == Parts(x, w, y)
<1>1. x \in Seq(A) /\ w \in Seq(A) /\ y \in Seq(A)
  BY DEF AllTexts
<1>2. m \in Nat \ {0} /\ Len(w) \in Nat \ {0}
  BY <1>1, EmptySeq
<1>3. \A k \in 1..m, i \in 1..Len(w) : v[k] # w[i]
  BY DEF SharesNothing, ToSet
<1>4. IsText(A, x, w, y)
  BY PartsAre
<1>5. ASSUME NEW j \in 1..Len(all), OccursAt(v, all, j)
      PROVE  j + m - 1 <= Len(x) \/ Len(x) + Len(w) < j
  <2>1. /\ all \in Seq(A) /\ Len(x) \in Nat /\ Len(all) = Len(x) + Len(w) + Len(y)
        /\ \A i \in 1..Len(w) : all[Len(x) + i] = w[i]
    BY <1>4 DEF IsText
  <2>2. \A k \in 1..m : all[j + k - 1] = v[k]
    <3> HIDE DEF all, m
    <3> QED BY <1>5, <2>1, OccursPointwise, ZenonT(40) DEF m
  <2> HIDE DEF all
  <2> SUFFICES ASSUME j + m - 1 > Len(x), j <= Len(x) + Len(w) PROVE FALSE
    BY <1>2, <2>1
  <2>3. CASE j > Len(x)
    <3>1. 1 \in 1..m /\ j - Len(x) \in 1..Len(w) /\ Len(x) + (j - Len(x)) = j /\ j + 1 - 1 = j
      BY <1>2, <2>1, <2>3
    <3>2. all[j] = v[1] /\ all[j] = w[j - Len(x)]
      BY <2>1, <2>2, <3>1
    <3> QED BY <1>3, <3>1, <3>2
  <2>4. CASE j <= Len(x)
    <3> DEFINE k == Len(x) + 2 - j
    <3>1. k \in 1..m /\ 1 \in 1..Len(w) /\ j + k - 1 = Len(x) + 1
      BY <1>2, <2>1, <2>4
    <3> HIDE DEF k
    <3>2. all[Len(x) + 1] = v[k] /\ all[Len(x) + 1] = w[1]
      BY <2>1, <2>2, <3>1
    <3> QED BY <1>3, <3>1, <3>2
  <2> QED BY <2>1, <2>3, <2>4
<1>6. Within(v, x, w, y)
  BY <1>5 DEF Within
<1>7. ASSUME NEW i \in 1..Len(w), OccursAt(v, w, i) PROVE FALSE
  <2>1. 1 \in 1..m /\ i + 1 - 1 = i
    BY <1>2
  <2>2. w[i + 1 - 1] = v[1]
    BY <1>1, <1>7, <2>1, OccursPointwise
  <2> QED BY <1>3, <2>1, <2>2
<1> QED BY <1>6, <1>7 DEF Occurs

\* Strings of a set V, none of which has a character of the marker.
AreReplaced(A, V, strings, mark) ==
    /\ V \subseteq Seq(A) \ {<<>>}
    /\ strings \in Seq(V)
    /\ \A v \in V : SharesNothing(v, mark)

\* A text in which strings are replaced is a text.
LEMMA ReplacedType ==
    ASSUME NEW A, NEW strings \in Seq(Seq(A) \ {<<>>}), NEW mark \in Seq(A), NEW text \in Seq(A)
    PROVE  ReplaceEach(text, strings, mark) \in Seq(A)
<1>1. PICK after : Replaces(A, after, text, strings, mark)
  BY ReplaceUnfolds
<1>2. Len(strings) \in 0..Len(strings)
  OBVIOUS
<1> QED BY <1>1, <1>2 DEF Replaces

\* What replacing string after string makes of a text of three parts, the second
\* of which either stays or is replaced as a whole.
Apart(V, x, w, y) == \A v \in V : Within(v, x, w, y)

\* Replacing one after the other goes part by part.
LEMMA EachOfParts ==
    ASSUME NEW A, NEW V, NEW strings, NEW mark \in Seq(A) \ {<<>>}, NEW x, NEW w, NEW y,
           AreReplaced(A, V, strings, mark), AllTexts(A, x, w, y), Apart(V, x, w, y),
           NEW W, Replaces(A, W, w, strings, mark),
           \A k \in 1..Len(strings) : W[k] = W[k - 1] \/ W[k] = mark
    PROVE  LET Each(text) == ReplaceEach(text, strings, mark) IN
           /\ AllTexts(A, Each(x), Each(w), Each(y))
           /\ Each(Parts(x, w, y)) = Parts(Each(x), Each(w), Each(y))
           /\ Apart(V, Each(x), Each(w), Each(y))
<1> DEFINE n == Len(strings)
<1>1. V \subseteq Seq(A) \ {<<>>} /\ \A v \in V : SharesNothing(v, mark)
  BY DEF AreReplaced
<1>2. strings \in Seq(V) /\ n \in Nat /\ \A k \in 1..n : strings[k] \in V
  BY DEF AreReplaced
<1>3. strings \in Seq(Seq(A) \ {<<>>})
  BY <1>1, <1>2, SeqMonotonic
<1>4. x \in Seq(A) /\ w \in Seq(A) /\ y \in Seq(A) /\ mark \in Seq(A)
  BY DEF AllTexts
<1>5. Parts(x, w, y) \in Seq(A)
  BY PartsAre DEF IsText
<1>6. PICK X : Replaces(A, X, x, strings, mark)
  BY <1>3, <1>4, ReplaceUnfolds
<1>7. PICK Y : Replaces(A, Y, y, strings, mark)
  BY <1>3, <1>4, ReplaceUnfolds
<1>8. PICK T : Replaces(A, T, Parts(x, w, y), strings, mark)
  BY <1>3, <1>4, <1>5, ReplaceUnfolds
<1> DEFINE Good == {k \in 0..n : /\ T[k] = Parts(X[k], W[k], Y[k])
                                 /\ Apart(V, X[k], W[k], Y[k])}
<1>9. 0 \in Good
  <2>1. X[0] = x /\ Y[0] = y /\ W[0] = w /\ T[0] = Parts(x, w, y) /\ 0 \in 0..n
    BY <1>2, <1>6, <1>7, <1>8 DEF Replaces
  <2> QED BY <2>1
<1>10. ASSUME NEW k \in 0..n, k \in Good, k < n PROVE k + 1 \in Good
  <2> DEFINE u == strings[k + 1]
             a == X[k]
             b == W[k]
             c == Y[k]
  <2>1. k + 1 \in 1..n /\ (k + 1) - 1 = k /\ k \in 0..n /\ k + 1 \in 0..n
    BY <1>2, <1>10
  <2>2. u \in V /\ u \in Seq(A) \ {<<>>}
    BY <1>1, <1>2, <2>1
  <2>3. AllTexts(A, a, b, c)
    BY <1>6, <1>7, <2>1 DEF Replaces, AllTexts
  <2>4. X[k + 1] = Replace(a, u, mark)
    BY <1>6, <2>1 DEF Replaces
  <2>5. Y[k + 1] = Replace(c, u, mark)
    BY <1>7, <2>1 DEF Replaces
  <2>6. W[k + 1] = Replace(b, u, mark)
    BY <2>1 DEF Replaces
  <2>7. T[k + 1] = Replace(T[k], u, mark)
    BY <1>8, <2>1 DEF Replaces
  <2>8. T[k] = Parts(a, b, c) /\ Apart(V, a, b, c)
    BY <1>10
  <2>9. W[k + 1] = b \/ W[k + 1] = mark
    BY <2>1
  <2>10. AllTexts(A, X[k + 1], W[k + 1], Y[k + 1])
    BY <1>6, <1>7, <2>1 DEF Replaces, AllTexts
  <2> HIDE DEF u, a, b, c
  <2>11. Replace(Parts(a, b, c), u, mark)
         = Parts(Replace(a, u, mark), Replace(b, u, mark), Replace(c, u, mark))
    <3>1. Within(u, a, b, c)
      BY <2>2, <2>8 DEF Apart
    <3> QED BY <1>4, <2>2, <2>3, <3>1, ReplaceParts
  <2>12. ASSUME NEW v \in V PROVE Within(v, X[k + 1], W[k + 1], Y[k + 1])
    <3>1. v \in Seq(A) \ {<<>>} /\ SharesNothing(v, mark)
      BY <1>1
    <3>2. CASE W[k + 1] = b
      <4>1. Within(v, a, b, c)
        BY <2>8 DEF Apart
      <4>2. Within(v, Replace(a, u, mark), b, Replace(c, u, mark))
        BY <2>2, <2>3, <3>1, <4>1, WithinKept
      <4> QED BY <2>4, <2>5, <3>2, <4>2
    <3>3. CASE W[k + 1] = mark
      <4>1. mark # <<>> /\ AllTexts(A, X[k + 1], mark, Y[k + 1])
        BY <2>10, <3>3
      <4>2. Within(v, X[k + 1], mark, Y[k + 1])
        BY <3>1, <4>1, MarkParts
      <4> QED BY <3>3, <4>2
    <3> QED BY <2>9, <3>2, <3>3
  <2> QED BY <2>1, <2>4, <2>5, <2>6, <2>7, <2>8, <2>11, <2>12 DEF Apart
<1>11. n \in Good
  <2> HIDE DEF Good, n
  <2> QED BY <1>2, <1>9, <1>10, Forward
<1>12. /\ ReplaceEach(x, strings, mark) = X[n] /\ ReplaceEach(y, strings, mark) = Y[n]
       /\ ReplaceEach(w, strings, mark) = W[n]
       /\ ReplaceEach(Parts(x, w, y), strings, mark) = T[n]
  BY <1>6, <1>7, <1>8 DEF Replaces
<1>13. AllTexts(A, X[n], W[n], Y[n])
  <2>1. n \in 0..n
    BY <1>2
  <2> QED BY <1>6, <1>7, <2>1 DEF Replaces, AllTexts
<1> QED BY <1>11, <1>12, <1>13

\* Strings that do not occur in a text leave it alone.
NoneOccurs(strings, w) == \A k \in 1..Len(strings) : ~Occurs(strings[k], w)

\* Then replacing them leaves it alone.
LEMMA WindowStays ==
    ASSUME NEW A, NEW strings \in Seq(Seq(A) \ {<<>>}), NEW mark \in Seq(A), NEW w \in Seq(A),
           NoneOccurs(strings, w)
    PROVE  \E W : Replaces(A, W, w, strings, mark) /\ \A k \in 0..Len(strings) : W[k] = w
<1> DEFINE n == Len(strings)
<1>1. PICK W : Replaces(A, W, w, strings, mark)
  BY ReplaceUnfolds
<1>2. n \in Nat /\ \A k \in 1..n : strings[k] \in Seq(A) \ {<<>>}
  OBVIOUS
<1> SUFFICES ASSUME NEW m \in 0..n PROVE W[m] = w
  BY <1>1
<1> DEFINE Good == {k \in 0..n : W[k] = w}
<1>3. 0 \in Good
  BY <1>1, <1>2 DEF Replaces
<1>4. ASSUME NEW k \in 0..m, k \in Good, k < m PROVE k + 1 \in Good
  <2>1. k + 1 \in 1..n /\ (k + 1) - 1 = k /\ k + 1 \in 0..n
    BY <1>2, <1>4
  <2>2. W[k + 1] = Replace(w, strings[k + 1], mark)
    BY <1>1, <1>4, <2>1 DEF Replaces
  <2>3. Replace(w, strings[k + 1], mark) = w
    BY <1>2, <2>1, Untouched DEF NoneOccurs
  <2> QED BY <2>1, <2>2, <2>3
<1>5. m \in Good
  <2>1. m \in Nat
    BY <1>2
  <2> HIDE DEF Good
  <2> QED BY <2>1, <1>3, <1>4, Forward
<1> QED BY <1>5

\* Of a string that is among them, and in which none of those before it occurs,
\* the marker is left.
IsFirst(strings, q) == \A k \in 1..(q - 1) : ~Occurs(strings[k], strings[q])

\* Then the string stays until its turn, and is the marker from there on.
StaysUntil(A, W, strings, q, mark) ==
    /\ Replaces(A, W, strings[q], strings, mark)
    /\ \A k \in 0..Len(strings) : W[k] = IF k < q THEN strings[q] ELSE mark

LEMMA WindowMarked ==
    ASSUME NEW A, NEW strings \in Seq(Seq(A) \ {<<>>}), NEW mark \in Seq(A),
           NEW q \in 1..Len(strings), IsFirst(strings, q), NoneOccurs(strings, mark)
    PROVE  \E W : StaysUntil(A, W, strings, q, mark)
<1> DEFINE n == Len(strings)
           s == strings[q]
<1>1. n \in Nat /\ (\A k \in 1..n : strings[k] \in Seq(A) \ {<<>>}) /\ s \in Seq(A) \ {<<>>}
      /\ q \in 1..n
  OBVIOUS
<1>2. PICK W : Replaces(A, W, s, strings, mark)
  BY <1>1, ReplaceUnfolds
<1> SUFFICES ASSUME NEW m \in 0..n PROVE W[m] = IF m < q THEN s ELSE mark
  BY <1>2 DEF StaysUntil
<1> DEFINE Good == {k \in 0..n : W[k] = IF k < q THEN s ELSE mark}
<1>3. 0 \in Good
  BY <1>1, <1>2 DEF Replaces
<1>4. ASSUME NEW k \in 0..m, k \in Good, k < m PROVE k + 1 \in Good
  <2>1. k + 1 \in 1..n /\ (k + 1) - 1 = k /\ k + 1 \in 0..n
    BY <1>1, <1>4
  <2>2. W[k + 1] = Replace(W[k], strings[k + 1], mark) /\ strings[k + 1] \in Seq(A) \ {<<>>}
    BY <1>1, <1>2, <2>1 DEF Replaces
  <2>3. CASE k + 1 < q
    <3>1. ~Occurs(strings[k + 1], s) /\ W[k] = s
      BY <1>1, <1>4, <2>1, <2>3 DEF IsFirst
    <3>2. Replace(s, strings[k + 1], mark) = s
      <4> HIDE DEF s
      <4> QED BY <1>1, <2>2, <3>1, Untouched
    <3> QED BY <2>1, <2>2, <2>3, <3>1, <3>2
  <2>4. CASE k + 1 = q
    <3>1. W[k] = s /\ strings[k + 1] = s
      BY <1>1, <1>4, <2>4
    <3>2. Replace(s, s, mark) = mark
      BY <1>1, Replaced
    <3> QED BY <1>1, <2>1, <2>2, <2>4, <3>1, <3>2
  <2>5. CASE k + 1 > q
    <3>1. ~Occurs(strings[k + 1], mark) /\ W[k] = mark
      BY <1>1, <1>4, <2>1, <2>5 DEF NoneOccurs
    <3>2. Replace(mark, strings[k + 1], mark) = mark
      BY <2>2, <3>1, Untouched
    <3> QED BY <1>1, <2>1, <2>2, <2>5, <3>1, <3>2
  <2> QED BY <1>1, <2>1, <2>3, <2>4, <2>5
<1>5. m \in Good
  <2>1. m \in Nat
    BY <1>1
  <2> HIDE DEF Good
  <2> QED BY <2>1, <1>3, <1>4, Forward
<1> QED BY <1>5

\* A string that is among them is nowhere left.
LEMMA Gone ==
    ASSUME NEW A, NEW strings \in Seq(Seq(A) \ {<<>>}), NEW mark \in Seq(A) \ {<<>>},
           NEW text \in Seq(A), NEW q \in 1..Len(strings), SharesNothing(strings[q], mark)
    PROVE  ~Occurs(strings[q], ReplaceEach(text, strings, mark))
<1> DEFINE n == Len(strings)
           s == strings[q]
<1>1. n \in Nat /\ (\A k \in 1..n : strings[k] \in Seq(A) \ {<<>>}) /\ s \in Seq(A) \ {<<>>}
      /\ q \in 1..n /\ mark \in Seq(A)
  OBVIOUS
<1>2. PICK after : Replaces(A, after, text, strings, mark)
  BY <1>1, ReplaceUnfolds
<1> DEFINE Good == {k \in 0..n : k >= q => ~Occurs(s, after[k])}
<1>3. 0 \in Good
  BY <1>1
<1>4. ASSUME NEW k \in 0..n, k \in Good, k < n PROVE k + 1 \in Good
  <2> DEFINE u == strings[k + 1]
             before == after[k]
  <2>1. k + 1 \in 1..n /\ (k + 1) - 1 = k /\ k + 1 \in 0..n
    BY <1>1, <1>4
  <2>2. after[k + 1] = Replace(before, u, mark) /\ u \in Seq(A) \ {<<>>} /\ before \in Seq(A)
    BY <1>1, <1>2, <2>1 DEF Replaces
  <2> SUFFICES ASSUME k + 1 >= q PROVE ~Occurs(s, Replace(before, u, mark))
    BY <2>1, <2>2
  <2>3. s \in {u} \/ ~Occurs(s, before)
    BY <1>1, <1>4
  <2>4. {u} \in SUBSET (Seq(A) \ {<<>>}) /\ SharesNothing(s, mark)
    BY <2>2
  <2> HIDE DEF u, before, s
  <2>5. ~Occurs(s, ScanWhole({u}, mark, before))
    BY <1>1, <2>2, <2>3, <2>4, ScanRemoves
  <2> QED BY <2>5 DEF Replace
<1>5. n \in Good
  <2> HIDE DEF Good, n
  <2> QED BY <1>1, <1>3, <1>4, Forward
<1> QED BY <1>1, <1>2, <1>5 DEF Replaces

\* The other marker is a text as well.
LEMMA RuntimeText == RuntimeMark \in Seq(Alphabet) \ {<<>>}
<1>1. RuntimeMark \in Seq({"[", "]"}) /\ Len(RuntimeMark) = 2 /\ RuntimeMark[1] = "[" /\ RuntimeMark[2] = "]"
  BY DEF RuntimeMark
<1>2. "[" \in ToSet(RuntimeMark) /\ "]" \in ToSet(RuntimeMark)
  <2>1. 1 \in DOMAIN RuntimeMark /\ 2 \in DOMAIN RuntimeMark
    BY <1>1
  <2> QED BY <1>1, <2>1 DEF ToSet
<1>3. {"[", "]"} \subseteq Alphabet
  BY <1>2 DEF Alphabet
<1>4. RuntimeMark \in Seq(Alphabet)
  BY <1>1, <1>3, SeqMonotonic
<1>5. RuntimeMark # <<>>
  BY <1>1, NoLength
<1> QED BY <1>4, <1>5

\* An order of a set names each of its members, the longer before the shorter.
LEMMA OrderIs ==
    ASSUME NEW strings, IsFiniteSet(strings), NEW order \in Orders(strings)
    PROVE  /\ order \in Seq(strings)
           /\ \A s \in strings : \E q \in 1..Len(order) : order[q] = s
           /\ \A i, j \in 1..Len(order) :
                i < j => Len(order[i]) >= Len(order[j]) /\ order[i] # order[j]
<1> DEFINE n == Cardinality(strings)
<1>1. n \in Nat
  BY FS_CardinalityType
<1>2. /\ order \in [1..n -> strings]
      /\ \A i, j \in 1..n : i # j => order[i] # order[j]
      /\ \A i, j \in DOMAIN order : i < j => Len(order[i]) >= Len(order[j])
  BY DEF Orders, SetToSeqs
<1> HIDE DEF n
<1>3. order \in Seq(strings) /\ Len(order) = n /\ DOMAIN order = 1..n
  BY <1>1, <1>2
<1>4. order \in Injection(1..n, strings)
  BY <1>2 DEF Injection, IsInjective
<1>5. Cardinality(1..n) = Cardinality(strings)
  BY <1>1, FS_Interval DEF n
<1>6. order \in Surjection(1..n, strings)
  BY <1>4, <1>5, FS_Injection
<1>7. \A s \in strings : \E q \in 1..n : order[q] = s
  BY <1>6 DEF Surjection
<1>8. \A i, j \in 1..n : i < j => Len(order[i]) >= Len(order[j]) /\ order[i] # order[j]
  <2> TAKE i, j \in 1..n
  <2>1. i < j => i # j
    BY <1>1
  <2> QED BY <1>2, <1>3, <2>1
<1> QED BY <1>3, <1>7, <1>8

\* What is not shorter than a string, and another, does not occur in it.
LEMMA TooLong ==
    ASSUME NEW A, NEW u \in Seq(A) \ {<<>>}, NEW s \in Seq(A) \ {<<>>},
           Len(u) >= Len(s), u # s
    PROVE  ~Occurs(u, s)
<1> SUFFICES ASSUME NEW i \in 1..Len(s), OccursAt(u, s, i) PROVE FALSE
  BY DEF Occurs
<1>1. Len(u) \in Nat /\ Len(s) \in Nat
  OBVIOUS
<1>2. i + Len(u) - 1 <= Len(s) /\ SubSeq(s, i, i + Len(u) - 1) = u
  BY DEF OccursAt
<1>3. i = 1 /\ i + Len(u) - 1 = Len(s)
  BY <1>1, <1>2
<1>4. SubSeq(s, 1, Len(s)) = s
  BY SubSeqFull
<1> QED BY <1>2, <1>3, <1>4

\* What occurs in the second part occurs in the text.
LEMMA OccursInMiddle ==
    ASSUME NEW A, NEW x, NEW w, NEW y, AllTexts(A, x, w, y),
           NEW v \in Seq(A), NEW i \in 1..Len(w), OccursAt(v, w, i)
    PROVE  Len(x) + i \in 1..Len(Parts(x, w, y)) /\ OccursAt(v, Parts(x, w, y), Len(x) + i)
<1> DEFINE all == Parts(x, w, y)
           j == Len(x) + i
<1>1. /\ all \in Seq(A) /\ Len(x) \in Nat /\ Len(w) \in Nat /\ Len(y) \in Nat
      /\ Len(all) = Len(x) + Len(w) + Len(y)
      /\ \A k \in 1..Len(w) : all[Len(x) + k] = w[k]
  BY PartsAre DEF IsText
<1> HIDE DEF all
<1>2. w \in Seq(A) /\ Len(v) \in Nat
  BY DEF AllTexts
<1>3. i + Len(v) - 1 <= Len(w) /\ \A k \in 1..Len(v) : w[i + k - 1] = v[k]
  BY <1>2, OccursPointwise
<1>4. j \in 1..Len(all) /\ j + Len(v) - 1 <= Len(all)
  BY <1>1, <1>2, <1>3
<1>5. ASSUME NEW k \in 1..Len(v) PROVE all[j + k - 1] = v[k]
  <2>1. i + k - 1 \in 1..Len(w) /\ j + k - 1 = Len(x) + (i + k - 1)
    BY <1>1, <1>2, <1>3
  <2> HIDE DEF j
  <2> QED BY <1>1, <1>3, <2>1
<1> HIDE DEF j
<1>6. OccursAt(v, all, j)
  BY <1>1, <1>4, <1>5, OccursPointwise
<1> QED BY <1>4, <1>6 DEF all, j

\* A text around a string that occurs in it.
LEMMA TextAround ==
    ASSUME NEW A, NEW text \in Seq(A), NEW s \in Seq(A) \ {<<>>},
           NEW i \in 1..Len(text), OccursAt(s, text, i)
    PROVE  LET x == SubSeq(text, 1, i - 1)
               y == SubSeq(text, i + Len(s), Len(text)) IN
           AllTexts(A, x, s, y) /\ text = Parts(x, s, y) /\ Len(x) = i - 1
<1> DEFINE n == Len(text)
           e == i + Len(s) - 1
           x == SubSeq(text, 1, i - 1)
           y == SubSeq(text, i + Len(s), n)
<1>1. n \in Nat /\ Len(s) \in Nat \ {0} /\ i \in 1..n /\ \A k \in 1..n : text[k] \in A
  BY EmptySeq
<1>2. e <= n /\ SubSeq(text, i, e) = s
  BY DEF OccursAt
<1>3. x \in Seq(A) /\ Len(x) = i - 1
  <2>1. 1 \in Int /\ i - 1 \in Int /\ \A k \in 1..(i - 1) : text[k] \in A
    BY <1>1
  <2>2. x \in Seq(A) /\ Len(x) = IF 1 <= i - 1 THEN (i - 1) - 1 + 1 ELSE 0
    BY <2>1, SubSeqProperties
  <2> QED BY <1>1, <2>2
<1>4. y \in Seq(A)
  <2>1. i + Len(s) \in Int /\ n \in Int /\ \A k \in (i + Len(s))..n : text[k] \in A
    BY <1>1
  <2> QED BY <2>1, SubSeqProperties
<1>5. SubSeq(text, i, e) \o SubSeq(text, e + 1, n) = SubSeq(text, i, n)
  <2>1. i \in 1..Len(text) + 1 /\ e \in i - 1..Len(text) /\ n \in e..Len(text)
    BY <1>1, <1>2
  <2> QED BY <2>1, ConcatAdjacentSubSeq
<1>6. SubSeq(text, 1, i - 1) \o SubSeq(text, (i - 1) + 1, n) = SubSeq(text, 1, n)
  <2>1. 1 \in 1..Len(text) + 1 /\ i - 1 \in 1 - 1..Len(text) /\ n \in i - 1..Len(text)
    BY <1>1
  <2> QED BY <2>1, ConcatAdjacentSubSeq
<1>7. e + 1 = i + Len(s) /\ (i - 1) + 1 = i
  BY <1>1
<1>8. SubSeq(text, 1, n) = text
  BY SubSeqFull, SMTT(30)
<1>9. text = x \o (s \o y)
  BY <1>2, <1>5, <1>6, <1>7, <1>8, ZenonT(40)
<1> QED BY <1>3, <1>4, <1>9 DEF AllTexts, Parts

\* A string that stands alone in a text is apart from what is around it.
LEMMA AloneIsApart ==
    ASSUME NEW A, NEW V \in SUBSET (Seq(A) \ {<<>>}), NEW paths \in SUBSET V, NEW x, NEW y,
           NEW s \in V \ paths, AllTexts(A, x, s, y),
           StandsAlone(s, Len(x) + 1, Parts(x, s, y), paths, V \ paths)
    PROVE  Apart(V, x, s, y) /\ \A p \in paths : ~Occurs(p, s)
<1> DEFINE all == Parts(x, s, y)
           i == Len(x) + 1
<1>1. /\ Len(x) \in Nat /\ \A t \in V : t \in Seq(A) /\ Len(t) \in Nat \ {0}
  BY EmptySeq DEF AllTexts
<1>2. ASSUME NEW t \in V, NEW j \in 1..Len(all), OccursAt(t, all, j)
      PROVE  \/ j + Len(t) <= i
             \/ i + Len(s) <= j
             \/ t \in V \ paths /\ i <= j /\ j + Len(t) <= i + Len(s)
  BY <1>2 DEF StandsAlone
<1>3. ASSUME NEW t \in V PROVE Within(t, x, s, y)
  <2> SUFFICES ASSUME NEW j \in 1..Len(all), OccursAt(t, all, j)
               PROVE  \/ j + Len(t) - 1 <= Len(x)
                      \/ Len(x) < j /\ j + Len(t) - 1 <= Len(x) + Len(s)
                      \/ Len(x) + Len(s) < j
    BY DEF Within
  <2>1. \/ j + Len(t) <= i
        \/ i + Len(s) <= j
        \/ i <= j /\ j + Len(t) <= i + Len(s)
    BY <1>2
  <2>2. j \in Nat /\ Len(t) \in Nat /\ Len(s) \in Nat
    BY <1>1
  <2> HIDE DEF all
  <2> QED BY <1>1, <2>1, <2>2
<1>4. ASSUME NEW p \in paths, Occurs(p, s) PROVE FALSE
  <2>1. PICK k \in 1..Len(s) : OccursAt(p, s, k)
    BY <1>4 DEF Occurs
  <2>2. p \in V /\ p \in Seq(A) /\ Len(p) \in Nat \ {0} /\ Len(s) \in Nat
    BY <1>1
  <2>3. Len(x) + k \in 1..Len(all) /\ OccursAt(p, all, Len(x) + k)
    BY <2>1, <2>2, OccursInMiddle
  <2>4. Len(x) + k + Len(p) <= i \/ i + Len(s) <= Len(x) + k
    BY <1>2, <2>2, <2>3
  <2> QED BY <1>1, <2>2, <2>4
<1> QED BY <1>3, <1>4 DEF Apart

\* The strings to replace in an event: V, of which some are paths, in some order.
AreOrdered(A, V, paths, ps, os) ==
    /\ V \in SUBSET (Seq(A) \ {<<>>}) /\ IsFiniteSet(V)
    /\ paths \in SUBSET V
    /\ ps \in Orders(paths) /\ os \in Orders(V \ paths)
    /\ RuntimeMark \in Seq(A) \ {<<>>} /\ Mark \in Seq(A) \ {<<>>}

\* Such orders are sequences of strings.
LEMMA OrderedTypes ==
    ASSUME NEW A, NEW V, NEW paths, NEW ps, NEW os, AreOrdered(A, V, paths, ps, os)
    PROVE  /\ ps \in Seq(paths) /\ ps \in Seq(V) /\ ps \in Seq(Seq(A) \ {<<>>})
           /\ os \in Seq(V \ paths) /\ os \in Seq(V) /\ os \in Seq(Seq(A) \ {<<>>})
<1>1. V \subseteq Seq(A) \ {<<>>} /\ paths \subseteq V /\ V \ paths \subseteq V
      /\ paths \subseteq Seq(A) \ {<<>>} /\ V \ paths \subseteq Seq(A) \ {<<>>}
  BY DEF AreOrdered
<1>2. IsFiniteSet(paths) /\ IsFiniteSet(V \ paths)
  BY <1>1, FS_Subset DEF AreOrdered
<1>3. ps \in Seq(paths)
  BY <1>2, OrderIs DEF AreOrdered
<1>4. os \in Seq(V \ paths)
  BY <1>2, OrderIs DEF AreOrdered
<1> QED BY <1>1, <1>3, <1>4, SeqMonotonic

\* A secret is nowhere left in an event.
LEMMA SecretGone ==
    ASSUME NEW A, NEW V, NEW paths, NEW ps, NEW os, AreOrdered(A, V, paths, ps, os),
           NEW text \in Seq(A), NEW s \in V \ paths, SharesNothing(s, Mark)
    PROVE  ~Occurs(s, RedactedBy(text, ps, os))
<1> DEFINE part == ReplaceEach(text, ps, RuntimeMark)
<1>1. ps \in Seq(Seq(A) \ {<<>>}) /\ os \in Seq(Seq(A) \ {<<>>})
  BY OrderedTypes
<1>2. RuntimeMark \in Seq(A) /\ Mark \in Seq(A) \ {<<>>}
  BY DEF AreOrdered
<1>3. part \in Seq(A)
  BY <1>1, <1>2, ReplacedType
<1>4. IsFiniteSet(V \ paths) /\ os \in Orders(V \ paths)
  <2>1. IsFiniteSet(V) /\ V \ paths \in SUBSET V
    BY DEF AreOrdered
  <2> QED BY <2>1, FS_Subset DEF AreOrdered
<1>5. PICK q \in 1..Len(os) : os[q] = s
  BY <1>4, OrderIs
<1> HIDE DEF part
<1>6. ~Occurs(os[q], ReplaceEach(part, os, Mark))
  BY <1>1, <1>2, <1>3, <1>5, Gone
<1> QED BY <1>5, <1>6 DEF RedactedBy, part

\* Around a secret that stands alone an event is redacted as if it were not there.
LEMMA AloneReplaced ==
    ASSUME NEW A, NEW V, NEW paths, NEW ps, NEW os, AreOrdered(A, V, paths, ps, os),
           \A t \in V : SharesNothing(t, Mark) /\ SharesNothing(t, RuntimeMark),
           NEW x, NEW y, NEW s \in V \ paths, AllTexts(A, x, s, y),
           StandsAlone(s, Len(x) + 1, Parts(x, s, y), paths, V \ paths)
    PROVE  /\ AllTexts(A, RedactedBy(x, ps, os), Mark, RedactedBy(y, ps, os))
           /\ RedactedBy(Parts(x, s, y), ps, os)
              = Parts(RedactedBy(x, ps, os), Mark, RedactedBy(y, ps, os))
<1> DEFINE One(t) == ReplaceEach(t, ps, RuntimeMark)
           Two(t) == ReplaceEach(t, os, Mark)
<1>1. /\ ps \in Seq(paths) /\ ps \in Seq(V) /\ ps \in Seq(Seq(A) \ {<<>>})
      /\ os \in Seq(V) /\ os \in Seq(Seq(A) \ {<<>>})
  BY OrderedTypes
<1>2. /\ V \in SUBSET (Seq(A) \ {<<>>}) /\ IsFiniteSet(V) /\ paths \in SUBSET V
      /\ RuntimeMark \in Seq(A) \ {<<>>} /\ Mark \in Seq(A) \ {<<>>}
      /\ s \in V /\ s \in Seq(A) \ {<<>>}
  BY DEF AreOrdered
<1>3. Apart(V, x, s, y) /\ \A p \in paths : ~Occurs(p, s)
  BY <1>2, AloneIsApart
<1>4. /\ AllTexts(A, One(x), s, One(y))
      /\ One(Parts(x, s, y)) = Parts(One(x), s, One(y))
      /\ Apart(V, One(x), s, One(y))
  <2>1. AreReplaced(A, V, ps, RuntimeMark)
    BY <1>1, <1>2 DEF AreReplaced
  <2>2. NoneOccurs(ps, s)
    BY <1>1, <1>3 DEF NoneOccurs
  <2>3. PICK W : Replaces(A, W, s, ps, RuntimeMark) /\ \A k \in 0..Len(ps) : W[k] = s
    <3>1. RuntimeMark \in Seq(A) /\ s \in Seq(A) /\ ps \in Seq(Seq(A) \ {<<>>})
      BY <1>1, <1>2
    <3> QED BY <2>2, <3>1, WindowStays
  <2>4. \A k \in 1..Len(ps) : W[k] = W[k - 1] \/ W[k] = RuntimeMark
    <3> TAKE k \in 1..Len(ps)
    <3>1. k \in 0..Len(ps) /\ k - 1 \in 0..Len(ps)
      BY <1>1
    <3> QED BY <2>3, <3>1
  <2>5. One(s) = s
    <3>1. Len(ps) \in 0..Len(ps)
      BY <1>1
    <3>2. One(s) = W[Len(ps)]
      BY <2>3 DEF Replaces
    <3> QED BY <2>3, <3>1, <3>2
  <2>6. /\ AllTexts(A, One(x), One(s), One(y))
        /\ One(Parts(x, s, y)) = Parts(One(x), One(s), One(y))
        /\ Apart(V, One(x), One(s), One(y))
    BY <1>2, <1>3, <2>1, <2>3, <2>4, EachOfParts
  <2> HIDE DEF One
  <2> QED BY <2>5, <2>6
<1>5. ASSUME NEW a, NEW b, AllTexts(A, a, s, b), Apart(V, a, s, b)
      PROVE  AllTexts(A, Two(a), Mark, Two(b)) /\ Two(Parts(a, s, b)) = Parts(Two(a), Mark, Two(b))
  <2>1. AreReplaced(A, V, os, Mark)
    BY <1>1, <1>2 DEF AreReplaced
  <2>2. IsFiniteSet(V \ paths) /\ os \in Orders(V \ paths)
    <3>1. V \ paths \in SUBSET V
      OBVIOUS
    <3> QED BY <1>2, <3>1, FS_Subset DEF AreOrdered
  <2>3. PICK q \in 1..Len(os) : os[q] = s
    BY <2>2, OrderIs
  <2>4. IsFirst(os, q)
    <3> SUFFICES ASSUME NEW k \in 1..(q - 1) PROVE ~Occurs(os[k], os[q])
      BY DEF IsFirst
    <3>1. k \in 1..Len(os) /\ k < q
      BY <1>1
    <3>2. Len(os[k]) >= Len(os[q]) /\ os[k] # os[q]
      BY <2>2, <3>1, OrderIs
    <3>3. os[k] \in Seq(A) \ {<<>>}
      BY <1>1, <3>1
    <3> QED BY <1>2, <2>3, <3>2, <3>3, TooLong
  <2>5. NoneOccurs(os, Mark)
    <3> SUFFICES ASSUME NEW k \in 1..Len(os) PROVE ~Occurs(os[k], Mark)
      BY DEF NoneOccurs
    <3>1. os[k] \in V
      BY <1>1
    <3>2. os[k] \in Seq(A) \ {<<>>} /\ SharesNothing(os[k], Mark)
      BY <1>2, <3>1
    <3>3. AllTexts(A, Mark, Mark, Mark) /\ Mark # <<>>
      BY <1>2 DEF AllTexts
    <3> QED BY <3>2, <3>3, MarkParts
  <2>6. PICK W : /\ Replaces(A, W, os[q], os, Mark)
                 /\ \A k \in 0..Len(os) : W[k] = IF k < q THEN os[q] ELSE Mark
    <3>1. Mark \in Seq(A) /\ os \in Seq(Seq(A) \ {<<>>})
      BY <1>1, <1>2
    <3>2. \E W : StaysUntil(A, W, os, q, Mark)
      BY <2>4, <2>5, <3>1, WindowMarked
    <3> QED BY <3>2 DEF StaysUntil
  <2>7. \A k \in 1..Len(os) : W[k] = W[k - 1] \/ W[k] = Mark
    <3> TAKE k \in 1..Len(os)
    <3>1. k \in 0..Len(os) /\ k - 1 \in 0..Len(os) /\ (k < q => k - 1 < q)
      BY <1>1
    <3> QED BY <2>6, <3>1
  <2>8. Two(s) = Mark
    <3>1. Len(os) \in 0..Len(os) /\ ~(Len(os) < q)
      BY <1>1
    <3>2. Two(os[q]) = W[Len(os)]
      BY <2>6 DEF Replaces
    <3> QED BY <2>3, <2>6, <3>1, <3>2
  <2>9. Replaces(A, W, s, os, Mark)
    BY <2>3, <2>6
  <2>10. /\ AllTexts(A, Two(a), Two(s), Two(b))
         /\ Two(Parts(a, s, b)) = Parts(Two(a), Two(s), Two(b))
    BY <1>2, <1>5, <2>1, <2>7, <2>9, EachOfParts
  <2> HIDE DEF Two
  <2> QED BY <2>8, <2>10
<1>6. /\ AllTexts(A, Two(One(x)), Mark, Two(One(y)))
      /\ Two(Parts(One(x), s, One(y))) = Parts(Two(One(x)), Mark, Two(One(y)))
  <2> HIDE DEF One, Two
  <2> QED BY <1>4, <1>5
<1> QED BY <1>4, <1>6 DEF RedactedBy

\* What is said of events holds of any text.
LEMMA RedactedEvents ==
    ASSUME OutputTypeOK PROVE EventsAreRedacted
<1> DEFINE A == Alphabet
           V == secrets
<1>1. /\ printed \in Seq(A) /\ V \in SUBSET (Seq(A) \ {<<>>}) /\ IsFiniteSet(V)
      /\ RuntimeMark \in Seq(A) \ {<<>>} /\ Mark \in Seq(A) \ {<<>>}
  BY Texts, RuntimeText DEF OutputTypeOK
<1> HIDE DEF A, V
<1> SUFFICES ASSUME NEW paths \in SUBSET V, NEW ps \in Orders(paths), NEW os \in Orders(V \ paths),
                    NEW s \in V \ paths
             PROVE  /\ SharesNothing(s, Mark) => ~Occurs(s, RedactedBy(printed, ps, os))
                    /\ \A i \in 1..Len(printed) :
                        /\ \A t \in V : SharesNothing(t, Mark) /\ SharesNothing(t, RuntimeMark)
                        /\ StandsAlone(s, i, printed, paths, V \ paths)
                        => RedactedBy(printed, ps, os)
                           = RedactedBy(SubSeq(printed, 1, i - 1), ps, os) \o Mark
                             \o RedactedBy(SubSeq(printed, i + Len(s), Len(printed)), ps, os)
  BY DEF EventsAreRedacted, V
<1>2. AreOrdered(A, V, paths, ps, os)
  BY <1>1 DEF AreOrdered
<1>3. ASSUME SharesNothing(s, Mark) PROVE ~Occurs(s, RedactedBy(printed, ps, os))
  BY <1>1, <1>2, <1>3, SecretGone
<1>4. ASSUME NEW i \in 1..Len(printed),
             \A t \in V : SharesNothing(t, Mark) /\ SharesNothing(t, RuntimeMark),
             StandsAlone(s, i, printed, paths, V \ paths)
      PROVE  RedactedBy(printed, ps, os)
             = RedactedBy(SubSeq(printed, 1, i - 1), ps, os) \o Mark
               \o RedactedBy(SubSeq(printed, i + Len(s), Len(printed)), ps, os)
  <2> DEFINE x == SubSeq(printed, 1, i - 1)
             y == SubSeq(printed, i + Len(s), Len(printed))
  <2>1. OccursAt(s, printed, i) /\ s \in Seq(A) \ {<<>>}
    BY <1>1, <1>4 DEF StandsAlone
  <2>2. AllTexts(A, x, s, y) /\ printed = Parts(x, s, y) /\ Len(x) = i - 1
    BY <1>1, <2>1, TextAround
  <2> HIDE DEF x, y
  <2>3. Len(x) + 1 = i
    BY <2>2
  <2>4. StandsAlone(s, Len(x) + 1, Parts(x, s, y), paths, V \ paths)
    BY <1>4, <2>2, <2>3
  <2>5. /\ AllTexts(A, RedactedBy(x, ps, os), Mark, RedactedBy(y, ps, os))
        /\ RedactedBy(Parts(x, s, y), ps, os)
           = Parts(RedactedBy(x, ps, os), Mark, RedactedBy(y, ps, os))
    BY <1>2, <1>4, <2>2, <2>4, AloneReplaced
  <2>6. (RedactedBy(x, ps, os) \o Mark) \o RedactedBy(y, ps, os)
        = RedactedBy(x, ps, os) \o (Mark \o RedactedBy(y, ps, os))
    BY <2>5, Associative
  <2>7. RedactedBy(printed, ps, os) = RedactedBy(x, ps, os) \o Mark \o RedactedBy(y, ps, os)
    BY <2>2, <2>5, <2>6 DEF Parts
  <2> QED BY <2>7 DEF x, y
<1> QED BY <1>3, <1>4

(* For any secrets and paths, in whatever order capture_text replaces those     *)
(* that are equally long: no secret is left in an event, and of a secret that  *)
(* others are part of nothing at all is left.                                  *)
THEOREM NoSecretInEvents == OutputSpec => []EventsAreRedacted
<1>1. RedactionInductive => EventsAreRedacted
  BY RedactedEvents DEF RedactionInductive
<1> QED BY <1>1, RedactionInductiveHolds, PTL
================================================================================
