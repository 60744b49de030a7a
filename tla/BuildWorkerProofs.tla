------------------------- MODULE BuildWorkerProofs -------------------------
(* Theorems of BuildWorker: the workers use the store as JobStore says, so  *)
(* that what is proved of the store for arbitrary callers holds for them.   *)
EXTENDS BuildWorker, JobStoreProofs

\* A slot at work serves an attempt.
LEMMA HeldAttempt ==
    ASSUME WorkerTypeOK, NEW s \in Slots,
           pc[s] \notin {"idle", "stopped"} \/ finisher[s] # "none"
    PROVE  J(s) \in Jobs /\ N(s) \in Attempts
  BY DEF WorkerTypeOK, NoAttempt, J, N

\* An attempt that has a state has been issued.
LEMMA KnownIsIssued ==
    ASSUME Inductive, NEW j \in Jobs, NEW n \in Attempts, state[j][n] # "ABSENT"
    PROVE  n \in Issued(j)
  <1>1. HistoryOf(j) BY DEF Inductive, AttemptHistory
  <1>2. n \in Nat \ {0} /\ attempt_no[j] \in Nat
    BY ConstantsAssumption DEF Inductive, TypeOK, Attempts
  <1> QED BY <1>1, <1>2 DEF HistoryOf, Issued

\* A token the store accepts has been issued.
LEMMA AuthorizedIsIssued ==
    ASSUME Inductive, NEW j \in Jobs, NEW n \in Attempts, Authorized(j, n)
    PROVE  n \in Issued(j)
  BY KnownIsIssued DEF Authorized

-----------------------------------------------------------------------------
(* Every step of the workers is a step of the store, or leaves it alone.    *)

\* Every step of a slot is a step of the store, or leaves it alone.
LEMMA SlotUsesStore ==
    ASSUME Inductive, WorkerTypeOK, NEW s \in Slots,
           SlotStep(s) \/ ExecutionBreaks(s) \/ HeartbeatSent(s) \/ HeartbeatCancels(s)
    PROVE  [Next]_vars
  <1>1. CASE \E source \in Sources : pc[s] = "source" /\ AttachInput(J(s), N(s), source)
    <2>1. J(s) \in Jobs /\ N(s) \in Issued(J(s))
      BY <1>1, HeldAttempt, AuthorizedIsIssued DEF AttachInput, AuthorizedFact
    <2> QED BY <1>1, <2>1 DEF Next
  <1>2. CASE pc[s] = "target" /\ ClaimTarget(J(s), N(s))
    <2>1. J(s) \in Jobs /\ N(s) \in Issued(J(s))
      BY <1>2, HeldAttempt, AuthorizedIsIssued DEF ClaimTarget, AuthorizedFact
    <2> QED BY <1>2, <2>1 DEF Next
  <1>3. CASE pc[s] = "lock" /\ StartExternal(J(s), N(s))
    <2>1. J(s) \in Jobs /\ N(s) \in Issued(J(s))
      BY <1>3, HeldAttempt, AuthorizedIsIssued DEF StartExternal, AuthorizedFact
    <2> QED BY <1>3, <2>1 DEF Next
  <1>4. CASE finisher[s] = "pending" /\ FinishBegin(J(s), N(s))
    <2>1. J(s) \in Jobs /\ N(s) \in Issued(J(s))
      BY <1>4, HeldAttempt, AuthorizedIsIssued DEF FinishBegin, AuthorizedFact
    <2> QED BY <1>4, <2>1 DEF Next
  <1>5. CASE finisher[s] = "open" /\ (FinishCommit(J(s)) \/ FactRollback)
    BY <1>5, HeldAttempt DEF Next
  <1>6. CASE /\ pc[s] \in Reporting
             /\ \E code \in {"EXECUTION_OUTCOME_UNKNOWN", "OTHER"}, hasStopped \in BOOLEAN :
                   Fail(J(s), N(s), code, hasStopped)
    <2>1. J(s) \in Jobs /\ N(s) \in Issued(J(s))
      BY <1>6, HeldAttempt, AuthorizedIsIssued DEF Fail, AuthorizedFact, Reporting
    <2> QED BY <1>6, <2>1 DEF Next
  <1>7. CASE pc[s] = "release" /\ ReleaseTarget(J(s), N(s))
    <2>1. J(s) \in Jobs /\ N(s) \in Attempts
      BY <1>7, HeldAttempt
    <2>2. state[J(s)][N(s)] # "ABSENT"
      BY <1>7, <2>1 DEF ReleaseTarget, Inductive, AttemptHistory, HistoryOf
    <2> QED BY <1>7, <2>1, <2>2, KnownIsIssued DEF Next
  <1>8. CASE pc[s] \notin {"idle", "stopped"} /\ HeartbeatBegin(J(s), N(s))
    <2>1. J(s) \in Jobs /\ N(s) \in Issued(J(s))
      BY <1>8, HeldAttempt, AuthorizedIsIssued DEF HeartbeatBegin
    <2> QED BY <1>8, <2>1 DEF Next
  <1>9. CASE UNCHANGED vars
    BY <1>9
  <1>10. Prepared(s) \in BOOLEAN
    BY DEF Prepared
  <1> QED
    BY <1>1, <1>2, <1>3, <1>4, <1>5, <1>6, <1>7, <1>8, <1>9, <1>10
    DEF SlotStep, SourceReady, SourceFails, TargetClaimed, TargetLeaseLost, AuthorizeEngine,
        AuthorizeRefused, StartEngine, EngineAnswers, EngineRaises, Publish, FinishOpens,
        FinishRefused, FinishCommits, FinishRollsBack, Cancelled, Report, ReportLost, Release,
        ExecutionBreaks, HeartbeatSent, HeartbeatCancels, Reporting

\* So is every step of the processes, the clock and the administrator.
LEMMA WorkerUsesStore ==
    ASSUME Inductive, WorkerTypeOK, [WorkerNext]_allVars
    PROVE  [Next]_vars
  <1>1. ASSUME NEW s \in Slots,
               SlotStep(s) \/ ExecutionBreaks(s) \/ HeartbeatSent(s) \/ HeartbeatCancels(s)
        PROVE  [Next]_vars
    BY <1>1, SlotUsesStore
  <1>2. ASSUME NEW j \in Jobs, Submit(j) \/ HeartbeatDone(j) PROVE [Next]_vars
    BY <1>2 DEF Submit, HeartbeatDone, Next
  <1>3. ASSUME NEW s \in Slots, NEW j \in Jobs, ClaimJob(s, j) \/ ClaimLost(s, j)
        PROVE  [Next]_vars
    BY <1>3 DEF ClaimJob, ClaimLost, Next
  <1>4. ASSUME Maintain \/ Clock PROVE [Next]_vars
    BY <1>4 DEF Maintain, Clock, Next
  <1>5. ASSUME NEW i \in Instances, Close(i) \/ Restart(i) PROVE [Next]_vars
    BY <1>5 DEF Close, Restart
  <1>6. ASSUME NEW i \in Instances, Crash(i) PROVE [Next]_vars
    <2>1. ASSUME NEW s \in SlotsOf(i), finisher[s] = "open", FinishCommit(J(s)) PROVE Next
      <3>1. J(s) \in Jobs
        BY <2>1, HeldAttempt DEF SlotsOf
      <3> QED BY <2>1, <3>1 DEF Next
    <2> QED BY <1>6, <2>1 DEF Crash, Next
  <1>7. ASSUME NEW j \in Jobs, NEW n \in Attempts, OrphanEnds(<<j, n>>) \/ Reconcile(j, n)
        PROVE  [Next]_vars
    <2>1. CASE OrphanEnds(<<j, n>>)
      BY <2>1 DEF OrphanEnds
    <2>2. CASE Reconcile(j, n)
      <3>1. n \in Issued(j) /\ ConfirmStopped(j, n)
        BY <2>2, KnownIsIssued DEF Reconcile, ConfirmStopped
      <3> QED BY <3>1 DEF Next
    <2> QED BY <1>7, <2>1, <2>2
  <1>8. CASE UNCHANGED allVars
    BY <1>8 DEF allVars
  <1> QED BY <1>1, <1>2, <1>3, <1>4, <1>5, <1>6, <1>7, <1>8 DEF WorkerNext

-----------------------------------------------------------------------------
(* Types of the workers.                                                    *)

\* Moving a slot that serves an attempt keeps the types.
LEMMA MovesType ==
    ASSUME WorkerTypeOK, NEW s \in Slots, NEW place \in Location \ {"idle", "stopped"},
           pc[s] \notin {"idle", "stopped"}, Moves(s, place)
    PROVE  WorkerTypeOK'
  BY DEF Moves, Go, hostVars, WorkerTypeOK

\* Every step of a slot keeps the types of the workers.
LEMMA SlotType ==
    ASSUME WorkerTypeOK, NEW s \in Slots, SlotStep(s)
    PROVE  WorkerTypeOK'
  <1> USE DEF Location, Executing, Reporting
  <1>1. CASE \/ SourceReady(s) \/ SourceFails(s) \/ TargetClaimed(s) \/ TargetLeaseLost(s)
             \/ AuthorizeEngine(s) \/ AuthorizeRefused(s) \/ StartEngine(s)
             \/ EngineAnswers(s) \/ Cancelled(s) \/ Report(s) \/ ReportLost(s)
    <2>1. \E place \in Location \ {"idle", "stopped"} :
             pc[s] \notin {"idle", "stopped"} /\ Moves(s, place)
      BY <1>1 DEF SourceReady, SourceFails, TargetClaimed, TargetLeaseLost, AuthorizeEngine,
                  AuthorizeRefused, StartEngine, EngineAnswers, Cancelled, Report, ReportLost
    <2> QED BY <2>1, MovesType
  <1>2. CASE Publish(s)
    BY <1>2 DEF Publish, Go, hostVars, WorkerTypeOK
  <1>3. CASE FinishOpens(s)
    BY <1>3 DEF FinishOpens, hostVars, WorkerTypeOK
  <1>4. CASE FinishRefused(s) \/ FinishCommits(s) \/ FinishRollsBack(s)
    <2>1. PICK place \in {"release", "broken"} : AfterFinish(s, place)
      BY <1>4 DEF FinishRefused, FinishCommits, FinishRollsBack
    <2> QED BY <2>1 DEF AfterFinish, Go, hostVars, WorkerTypeOK
  <1>5. CASE Release(s)
    BY <1>5 DEF Release, Go, hostVars, WorkerTypeOK
  <1>6. CASE EngineRaises(s)
    <2>1. held[s] \in Jobs \X Attempts
      BY <1>6 DEF EngineRaises, WorkerTypeOK, NoAttempt
    <2> QED BY <1>6, <2>1 DEF EngineRaises, Go, WorkerTypeOK
  <1> QED BY <1>1, <1>2, <1>3, <1>4, <1>5, <1>6 DEF SlotStep

\* Every step of the system keeps the types of the workers.
LEMMA WorkerTypeStep ==
    ASSUME Inductive, WorkerTypeOK, [WorkerNext]_allVars
    PROVE  WorkerTypeOK'
  <1>1. ASSUME NEW s \in Slots, SlotStep(s) PROVE WorkerTypeOK'
    BY <1>1, SlotType
  <1>2. ASSUME NEW s \in Slots, ExecutionBreaks(s) PROVE WorkerTypeOK'
    BY <1>2, MovesType DEF ExecutionBreaks, Location, Executing, Reporting
  <1>3. ASSUME NEW s \in Slots, HeartbeatCancels(s) PROVE WorkerTypeOK'
    BY <1>3 DEF HeartbeatCancels, hostVars, WorkerTypeOK
  <1>4. ASSUME NEW s \in Slots, NEW j \in Jobs, ClaimJob(s, j) PROVE WorkerTypeOK'
    <2>1. attempt_no[j] + 1 \in Attempts /\ <<j, attempt_no[j] + 1>> # NoAttempt
      BY <1>4, ConstantsAssumption
      DEF ClaimJob, Claim, Inductive, TypeOK, AttemptHistory, HistoryOf, Attempts, NoAttempt
    <2> QED BY <1>4, <2>1
            DEF ClaimJob, Go, hostVars, WorkerTypeOK, Location, Executing
  <1>5. ASSUME NEW i \in Instances, Close(i) PROVE WorkerTypeOK'
    BY <1>5, WorkerAssumption DEF Close, SlotsOf, WorkerTypeOK, Location
  <1>6. ASSUME NEW i \in Instances, Restart(i) PROVE WorkerTypeOK'
    BY <1>6 DEF Restart, SlotsOf, WorkerTypeOK, Location
  <1>7. ASSUME NEW i \in Instances, Crash(i) PROVE WorkerTypeOK'
    <2>1. orphans' \subseteq Jobs \X Attempts
      BY <1>7, HeldAttempt DEF Crash, SlotsOf, WorkerTypeOK, NoAttempt
    <2> QED BY <1>7, <2>1, WorkerAssumption DEF Crash, SlotsOf, WorkerTypeOK, Location
  <1>8. ASSUME NEW j \in Jobs, NEW n \in Attempts, OrphanEnds(<<j, n>>) PROVE WorkerTypeOK'
    BY <1>8 DEF OrphanEnds, slotVars, WorkerTypeOK
  <1>9. ASSUME UNCHANGED workerVars PROVE WorkerTypeOK'
    BY <1>9 DEF workerVars, slotVars, hostVars, WorkerTypeOK
  <1>10. CASE UNCHANGED allVars
    BY <1>9, <1>10 DEF allVars
  <1>11. CASE Maintain \/ Clock
    BY <1>9, <1>11 DEF Maintain, Clock
  <1>12. ASSUME NEW j \in Jobs, Submit(j) \/ HeartbeatDone(j) PROVE WorkerTypeOK'
    BY <1>9, <1>12 DEF Submit, HeartbeatDone
  <1>13. ASSUME NEW s \in Slots, HeartbeatSent(s) PROVE WorkerTypeOK'
    BY <1>9, <1>13 DEF HeartbeatSent
  <1>14. ASSUME NEW s \in Slots, NEW j \in Jobs, ClaimLost(s, j) PROVE WorkerTypeOK'
    BY <1>9, <1>14 DEF ClaimLost
  <1>15. ASSUME NEW j \in Jobs, NEW n \in Attempts, Reconcile(j, n) PROVE WorkerTypeOK'
    BY <1>9, <1>15 DEF Reconcile
  <1> QED
    BY <1>1, <1>2, <1>3, <1>4, <1>5, <1>6, <1>7, <1>8, <1>10, <1>11, <1>12, <1>13, <1>14,
       <1>15 DEF WorkerNext

-----------------------------------------------------------------------------
(* The workers implement the store.                                         *)

\* The store's inductive invariant and the types of the workers hold together,
\* whatever the workers do.
THEOREM WorkerInductive == WorkerSpec => [](Inductive /\ WorkerTypeOK)
  <1>1. WorkerInit => Inductive /\ WorkerTypeOK
    <2>1. WorkerInit => Inductive
      BY TypeInit, HistoryInit, OneExecutionInit DEF WorkerInit, Inductive
    <2>2. WorkerInit => WorkerTypeOK
      BY WorkerAssumption DEF WorkerInit, WorkerTypeOK, Location, Executing, Reporting
    <2> QED BY <2>1, <2>2
  <1>2. Inductive /\ WorkerTypeOK /\ [WorkerNext]_allVars => (Inductive /\ WorkerTypeOK)'
    BY WorkerUsesStore, WorkerTypeStep, InductiveStep
  <1> QED BY <1>1, <1>2, PTL DEF WorkerSpec

\* Whatever the workers, the clock, crashes and the administrator do is a
\* behaviour of the store: every theorem about Spec holds of WorkerSpec.
THEOREM WorkersImplementStore == WorkerSpec => Spec
  <1>1. WorkerInit => Init
    BY DEF WorkerInit
  <1>2. Inductive /\ WorkerTypeOK /\ [WorkerNext]_allVars => [Next]_vars
    BY WorkerUsesStore
  <1> QED BY <1>1, <1>2, WorkerInductive, PTL DEF WorkerSpec, Spec

-----------------------------------------------------------------------------
(* Who may write.  The store cannot see the engine: what keeps its records  *)
(* true is that each attempt has one holder, and that the holder, or the    *)
(* lack of one, decides which step may record a stop.                       *)

\* The slot has its authorisation, and the engine has not exited.
Acts(s) == pc[s] \in {"authorized", "engine"}

\* SQL of the attempt runs in the warehouse, or may be started without asking
\* the store again.
MayWrite(j, n) ==
    \/ <<j, n>> \in orphans
    \/ \E s \in Slots : held[s] = <<j, n>> /\ Acts(s)

HasTarget(j) == claimed[j] \/ TargetOf[j] = None

\* An attempt is served by one slot.
HeldOnce ==
    \A s \in Slots : held[s] # NoAttempt =>
        /\ N(s) <= attempt_no[J(s)]
        /\ \A t \in Slots : held[t] = held[s] => t = s

\* A slot whose attempt has SQL running without its engine is on its way out, by
\* one of the exceptions that do not say that the execution has stopped.
LeftBehind ==
    \A s \in Slots : held[s] \in orphans =>
        /\ pc[s] \in {"undetermined", "broken", "cancelled", "release"}
        /\ finisher[s] = "none"

OrphansIssued == \A a \in orphans : a[2] <= attempt_no[a[1]]

\* A finish call outlives its slot only while the process closes, it never runs
\* beside the engine, and an open one owns the fact lock for the current attempt.
FinishersHold ==
    \A s \in Slots :
        /\ pc[s] = "finish" /\ cancel[s] => stopping[InstanceOf[s]]
        /\ finisher[s] # "none" =>
             \/ pc[s] = "finish"
             \/ pc[s] \in {"cancelled", "release", "stopped"} /\ stopping[InstanceOf[s]]
        /\ finisher[s] = "open" =>
             fact = [op |-> "FINISH", jobs |-> {J(s)}] /\ current[J(s)] = N(s)

\* What may write is marked EXTERNAL, counts as active and owns its target.
WritersHold ==
    \A j \in Jobs, n \in Attempts :
        MayWrite(j, n) =>
            stage[j][n] = "EXTERNAL" /\ state[j][n] \in ActiveStates /\ HasTarget(j)

\* A slot that waits for the engine owns the target, unless its attempt is lost.
LockersHold ==
    \A s \in Slots :
        pc[s] = "lock" /\ state[J(s)][N(s)] \in ActiveStates => HasTarget(J(s))

Guarded ==
    /\ HeldOnce /\ LeftBehind /\ OrphansIssued
    /\ FinishersHold /\ WritersHold /\ LockersHold

\* No transaction takes back the number of an attempt.
LEMMA AttemptsGrow ==
    ASSUME Inductive, [Next]_vars, NEW j \in Jobs
    PROVE  attempt_no[j] \in Nat /\ attempt_no'[j] \in Nat /\ attempt_no[j] <= attempt_no'[j]
  <1> USE DEF Inductive, TypeOK
  <1>1. attempt_no[j] \in Nat /\ attempt_no'[j] \in Nat
    BY InductiveStep, ConstantsAssumption
  <1>2. ASSUME NEW i \in Jobs, Claim(i) PROVE attempt_no[j] <= attempt_no'[j]
    BY <1>1, <1>2 DEF Claim
  <1>3. CASE UNCHANGED attempt_no
    BY <1>1, <1>3
  <1>4. ASSUME NEW i \in Jobs,
               \/ Reserve(i) \/ BackoffEnds(i)
               \/ HeartbeatCommit(i) \/ HeartbeatAbort(i) \/ FinishCommit(i)
        PROVE  UNCHANGED attempt_no
    BY <1>4 DEF Reserve, BackoffEnds, HeartbeatCommit, HeartbeatAbort, FinishCommit, jobVars
  <1>5. ASSUME NEW i \in Jobs, NEW n \in Issued(i),
               \/ LeaseExpires(i, n) \/ HeartbeatBegin(i, n)
               \/ StartExternal(i, n) \/ FinishBegin(i, n)
               \/ \E source \in Sources : AttachInput(i, n, source)
               \/ \E code \in {"EXECUTION_OUTCOME_UNKNOWN", "OTHER"},
                     hasStopped \in BOOLEAN : Fail(i, n, code, hasStopped)
               \/ ConfirmStopped(i, n)
               \/ ClaimTarget(i, n) \/ ReleaseTarget(i, n)
        PROVE  UNCHANGED attempt_no
    BY <1>5 DEF LeaseExpires, HeartbeatBegin, StartExternal, FinishBegin, AttachInput, Fail,
                ConfirmStopped, ClaimTarget, ReleaseTarget, jobVars
  <1>6. ASSUME RecoverSelect \/ RecoverApply \/ FactRollback PROVE UNCHANGED attempt_no
    BY <1>6 DEF RecoverSelect, RecoverApply, FactRollback, jobVars
  <1>7. CASE UNCHANGED vars
    BY <1>3, <1>7 DEF vars, jobVars
  <1> QED BY <1>1, <1>2, <1>3, <1>4, <1>5, <1>6, <1>7 DEF Next

\* An attempt that was issued and is active has been active ever since.
LEMMA ActiveWasActive ==
    ASSUME Inductive, [Next]_vars, NEW j \in Jobs, NEW n \in Attempts,
           n <= attempt_no[j], state'[j][n] \in ActiveStates
    PROVE  state[j][n] \in ActiveStates
  <1>1. state[j][n] # "ABSENT"
    <2>1. HistoryOf(j) /\ n \in Nat /\ attempt_no[j] \in Nat
      BY ConstantsAssumption DEF Inductive, AttemptHistory, TypeOK, Attempts
    <2> QED BY <2>1 DEF HistoryOf
  <1>2. CASE UNCHANGED vars
    BY <1>2 DEF vars, attemptVars
  <1>3. CASE Next
    BY <1>1, <1>3, LostAttemptsStep DEF KeepsLostAttempts, ActiveStates, vars, attemptVars
  <1> QED BY <1>2, <1>3

\* The durable mark of an external write is never taken back.
LEMMA StageStays ==
    ASSUME Inductive, Next, NEW j \in Jobs, NEW n \in Attempts, stage[j][n] = "EXTERNAL"
    PROVE  stage'[j][n] = "EXTERNAL"
  <1> USE DEF Inductive, TypeOK
  <1>1. ASSUME NEW i \in Jobs,
               \/ Reserve(i) \/ Claim(i) \/ BackoffEnds(i)
               \/ HeartbeatCommit(i) \/ HeartbeatAbort(i) \/ FinishCommit(i)
        PROVE  UNCHANGED stage
    BY <1>1 DEF Reserve, Claim, BackoffEnds, HeartbeatCommit, HeartbeatAbort, FinishCommit,
        attemptVars
  <1>2. ASSUME NEW i \in Jobs, NEW m \in Issued(i),
               \/ LeaseExpires(i, m) \/ HeartbeatBegin(i, m) \/ FinishBegin(i, m)
               \/ \E source \in Sources : AttachInput(i, m, source)
               \/ \E code \in {"EXECUTION_OUTCOME_UNKNOWN", "OTHER"},
                     hasStopped \in BOOLEAN : Fail(i, m, code, hasStopped)
               \/ ConfirmStopped(i, m)
               \/ ClaimTarget(i, m) \/ ReleaseTarget(i, m)
        PROVE  UNCHANGED stage
    BY <1>2 DEF LeaseExpires, HeartbeatBegin, FinishBegin, AttachInput, Fail, ConfirmStopped,
        ClaimTarget, ReleaseTarget, attemptVars
  <1>3. ASSUME NEW i \in Jobs, NEW m \in Issued(i), StartExternal(i, m)
        PROVE  stage'[j][n] = "EXTERNAL"
    BY <1>3 DEF StartExternal
  <1>4. ASSUME RecoverSelect \/ RecoverApply \/ FactRollback PROVE UNCHANGED stage
    BY <1>4 DEF RecoverSelect, RecoverApply, FactRollback, attemptVars
  <1> QED BY <1>1, <1>2, <1>3, <1>4 DEF Next

\* A job with an active attempt keeps its target.
LEMMA TargetStays ==
    ASSUME Inductive, [Next]_vars, NEW j \in Jobs, NEW n \in Attempts,
           state[j][n] \in ActiveStates, HasTarget(j)
    PROVE  HasTarget(j)'
  <1>1. HasActive(j)
    BY DEF HasActive
  <1>2. CASE UNCHANGED vars
    BY <1>2 DEF vars, jobVars, HasTarget
  <1>3. CASE KeepsTargets
    BY <1>1, <1>3 DEF KeepsTargets, HasTarget
  <1> QED BY <1>2, <1>3, KeepsTargetsStep

-----------------------------------------------------------------------------
(* One holder.                                                              *)

\* held and orphans move when an attempt is claimed, released, or lost with its
\* process, when an engine raises, and when SQL that was left behind ends.
LEMMA HoldersMove ==
    ASSUME WorkerTypeOK, [WorkerNext]_allVars
    PROVE  \/ \E s \in Slots, j \in Jobs : ClaimJob(s, j)
           \/ \E i \in Instances : Crash(i)
           \/ \E s \in Slots : EngineRaises(s)
           \/ /\ orphans' \subseteq orphans
              /\ \A s \in Slots : held'[s] \in {held[s], NoAttempt}
  <1> DEFINE Rests == /\ orphans' \subseteq orphans
                      /\ \A s \in Slots : held'[s] \in {held[s], NoAttempt}
  <1>1. ASSUME UNCHANGED <<held, orphans>> PROVE Rests
    BY <1>1
  <1>2. ASSUME NEW s \in Slots, Release(s) PROVE Rests
    BY <1>2 DEF Release, hostVars, WorkerTypeOK
  <1>3. ASSUME NEW i \in Instances, Restart(i) PROVE Rests
    BY <1>3 DEF Restart
  <1>4. ASSUME NEW j \in Jobs, NEW n \in Attempts, OrphanEnds(<<j, n>>) PROVE Rests
    BY <1>4 DEF OrphanEnds, slotVars
  <1>5. ASSUME NEW s \in Slots, SlotStep(s), ~Release(s), ~EngineRaises(s)
        PROVE  UNCHANGED <<held, orphans>>
    BY <1>5 DEF SlotStep, SourceReady, SourceFails, TargetClaimed, TargetLeaseLost,
        AuthorizeEngine, AuthorizeRefused, StartEngine, EngineAnswers, Publish, FinishOpens,
        FinishRefused, FinishCommits, FinishRollsBack, AfterFinish, Cancelled, Report,
        ReportLost, Moves, hostVars
  <1>6. ASSUME NEW s \in Slots, ExecutionBreaks(s) \/ HeartbeatSent(s) \/ HeartbeatCancels(s)
        PROVE  UNCHANGED <<held, orphans>>
    BY <1>6 DEF ExecutionBreaks, HeartbeatSent, HeartbeatCancels, Moves, workerVars, slotVars,
        hostVars
  <1>7. ASSUME NEW i \in Instances, Close(i) PROVE UNCHANGED <<held, orphans>>
    BY <1>7 DEF Close
  <1>8. ASSUME \/ Maintain \/ Clock \/ UNCHANGED allVars
               \/ \E j \in Jobs : Submit(j) \/ HeartbeatDone(j)
               \/ \E s \in Slots, j \in Jobs : ClaimLost(s, j)
               \/ \E j \in Jobs, n \in Attempts : Reconcile(j, n)
        PROVE  UNCHANGED <<held, orphans>>
    BY <1>8 DEF Maintain, Clock, Submit, HeartbeatDone, ClaimLost, Reconcile, allVars,
        workerVars, slotVars, hostVars
  <1> HIDE DEF Rests
  <1>9. \/ \E s \in Slots, j \in Jobs : ClaimJob(s, j)
        \/ \E i \in Instances : Crash(i)
        \/ \E s \in Slots : EngineRaises(s)
        \/ Rests
    BY <1>1, <1>2, <1>3, <1>4, <1>5, <1>6, <1>7, <1>8 DEF WorkerNext
  <1> QED BY <1>9 DEF Rests

\* A claim makes a new attempt, so nobody holds it yet; what is left behind was
\* held before.
LEMMA HeldOnceStep ==
    ASSUME Inductive, WorkerTypeOK, HeldOnce, OrphansIssued, [WorkerNext]_allVars
    PROVE  HeldOnce' /\ OrphansIssued'
  <1>1. [Next]_vars
    BY WorkerUsesStore
  <1>2. \A j \in Jobs : /\ attempt_no[j] \in Nat /\ attempt_no'[j] \in Nat
                        /\ attempt_no[j] <= attempt_no'[j]
    BY <1>1, AttemptsGrow
  <1>3. \A n \in Attempts : n \in Nat /\ n # 0
    BY DEF Attempts
  <1>4. \A s \in Slots : held[s] # NoAttempt =>
           /\ held[s] \in Jobs \X Attempts
           /\ held[s] = <<J(s), N(s)>> /\ J(s) \in Jobs /\ N(s) \in Attempts
    BY DEF WorkerTypeOK, J, N
  <1>5. \A a \in orphans : a \in Jobs \X Attempts
    BY DEF WorkerTypeOK
  <1>6. CASE /\ orphans' \subseteq orphans
             /\ \A s \in Slots : held'[s] \in {held[s], NoAttempt}
    <2>1. HeldOnce'
      BY <1>2, <1>3, <1>4, <1>6 DEF HeldOnce, J, N
    <2>2. OrphansIssued'
      BY <1>2, <1>3, <1>5, <1>6 DEF OrphansIssued
    <2> QED BY <2>1, <2>2
  <1>7. ASSUME NEW i \in Instances, Crash(i) PROVE HeldOnce' /\ OrphansIssued'
    <2>1. \A s \in Slots : held'[s] \in {held[s], NoAttempt}
      BY <1>7 DEF Crash
    <2>2. ASSUME NEW a \in orphans', a \notin orphans
          PROVE  \E s \in SlotsOf(i) : a = held[s] /\ held[s] # NoAttempt
      <3>1. PICK s \in SlotsOf(i) : pc[s] = "engine" /\ a = held[s]
        BY <1>7, <2>2 DEF Crash
      <3> QED BY <3>1 DEF WorkerTypeOK, SlotsOf
    <2>3. HeldOnce'
      <3> SUFFICES ASSUME NEW s \in Slots, held'[s] # NoAttempt
                   PROVE  /\ N(s)' <= attempt_no'[J(s)']
                          /\ \A t \in Slots : held'[t] = held'[s] => t = s
        BY DEF HeldOnce
      <3>1. held'[s] = held[s] /\ held[s] # NoAttempt
        BY <2>1
      <3>2. N(s)' <= attempt_no'[J(s)']
        BY <1>2, <1>3, <1>4, <3>1 DEF HeldOnce, J, N
      <3>3. \A t \in Slots : held[t] = held[s] => t = s
        BY <3>1 DEF HeldOnce
      <3>4. \A t \in Slots : held'[t] = held'[s] => t = s
        BY <2>1, <3>1, <3>3
      <3> QED BY <3>2, <3>4
    <2>4. OrphansIssued'
      <3> SUFFICES ASSUME NEW a \in orphans' PROVE a[2] <= attempt_no'[a[1]]
        BY DEF OrphansIssued
      <3>1. CASE a \in orphans
        BY <1>2, <1>3, <1>5, <3>1 DEF OrphansIssued
      <3>2. CASE a \notin orphans
        BY <1>2, <1>3, <1>4, <2>2, <3>2 DEF HeldOnce, SlotsOf, J, N
      <3> QED BY <3>1, <3>2
    <2> QED BY <2>3, <2>4
  <1>8. ASSUME NEW s \in Slots, NEW j \in Jobs, ClaimJob(s, j)
        PROVE  HeldOnce' /\ OrphansIssued'
    <2>1. /\ orphans' = orphans
          /\ attempt_no'[j] = attempt_no[j] + 1
      BY <1>8 DEF ClaimJob, Claim, hostVars, Inductive, TypeOK
    <2>2. /\ held'[s] = <<j, attempt_no[j] + 1>>
          /\ \A t \in Slots \ {s} : held'[t] = held[t]
      BY <1>8 DEF ClaimJob, WorkerTypeOK
    <2>3. \A t \in Slots \ {s} : held'[t] # held'[s]
      BY <1>2, <1>3, <1>4, <2>2 DEF HeldOnce, NoAttempt
    <2>4. OrphansIssued'
      BY <1>2, <1>3, <1>5, <2>1 DEF OrphansIssued
    <2>5. ASSUME NEW t \in Slots, held'[t] # NoAttempt
          PROVE  /\ N(t)' <= attempt_no'[J(t)']
                 /\ \A u \in Slots : held'[u] = held'[t] => u = t
      <3>1. CASE t = s
        BY <1>2, <2>1, <2>2, <2>3, <3>1 DEF J, N
      <3>2. CASE t # s
        BY <1>2, <1>3, <1>4, <2>1, <2>2, <2>3, <2>5, <3>2 DEF HeldOnce, J, N
      <3> QED BY <3>1, <3>2
    <2> QED BY <2>4, <2>5 DEF HeldOnce
  <1>9. ASSUME NEW s \in Slots, EngineRaises(s)
        PROVE  HeldOnce' /\ OrphansIssued'
    <2>1. held' = held /\ orphans' \subseteq orphans \cup {held[s]} /\ held[s] # NoAttempt
      BY <1>9 DEF EngineRaises, WorkerTypeOK
    <2>2. attempt_no' = attempt_no
      BY <1>9 DEF EngineRaises, vars, jobVars
    <2>3. HeldOnce'
      BY <2>1, <2>2 DEF HeldOnce, J, N
    <2>4. OrphansIssued'
      BY <2>1, <2>2 DEF HeldOnce, OrphansIssued, J, N
    <2> QED BY <2>3, <2>4
  <1> QED BY <1>6, <1>7, <1>8, <1>9, HoldersMove

-----------------------------------------------------------------------------
(* The fact lock of an open finish.                                         *)

\* While finish seals, nobody else ends its transaction or moves the pointer to
\* the current attempt.
LEMMA FactStays ==
    ASSUME fact.op = "FINISH", [WorkerNext]_allVars,
           ~ \E s \in Slots : FinishCommits(s) \/ FinishRollsBack(s),
           ~ \E i \in Instances : Crash(i)
    PROVE  UNCHANGED <<fact, current>>
  <1> USE DEF FactOn, FactFree, NoFact, vars, jobVars, attemptVars
  <1>1. ASSUME NEW s \in Slots, SlotStep(s) PROVE UNCHANGED <<fact, current>>
    <2>1. CASE SourceReady(s)
      BY <2>1 DEF SourceReady, AttachInput, AuthorizedFact
    <2>2. CASE TargetClaimed(s)
      BY <2>2 DEF TargetClaimed, ClaimTarget, AuthorizedFact
    <2>3. CASE AuthorizeEngine(s) \/ FinishOpens(s)
      BY <2>3 DEF AuthorizeEngine, StartExternal, FinishOpens, FinishBegin, AuthorizedFact
    <2>4. CASE Report(s)
      BY <2>4 DEF Report, Fail, AuthorizedFact
    <2>5. CASE Release(s)
      BY <2>5 DEF Release, ReleaseTarget
    <2>6. CASE \/ SourceFails(s) \/ TargetLeaseLost(s) \/ AuthorizeRefused(s)
               \/ StartEngine(s) \/ EngineAnswers(s) \/ EngineRaises(s) \/ Publish(s)
               \/ FinishRefused(s) \/ Cancelled(s) \/ ReportLost(s)
      BY <2>6 DEF SourceFails, TargetLeaseLost, AuthorizeRefused, StartEngine, EngineAnswers,
                  EngineRaises, Publish, FinishRefused, Cancelled, ReportLost
    <2> QED BY <1>1, <2>1, <2>2, <2>3, <2>4, <2>5, <2>6 DEF SlotStep
  <1>2. ASSUME NEW s \in Slots, ExecutionBreaks(s) \/ HeartbeatSent(s) \/ HeartbeatCancels(s)
        PROVE  UNCHANGED <<fact, current>>
    BY <1>2 DEF ExecutionBreaks, StartExternal, AuthorizedFact, HeartbeatSent, HeartbeatBegin,
        HeartbeatCancels
  <1>3. ASSUME NEW j \in Jobs, Submit(j) \/ HeartbeatDone(j) PROVE UNCHANGED <<fact, current>>
    BY <1>3 DEF Submit, Reserve, HeartbeatDone, HeartbeatCommit, HeartbeatAbort
  <1>4. ASSUME NEW s \in Slots, NEW j \in Jobs, ClaimJob(s, j) \/ ClaimLost(s, j)
        PROVE  UNCHANGED <<fact, current>>
    BY <1>4 DEF ClaimJob, ClaimLost, Claim
  <1>5. ASSUME Maintain \/ Clock PROVE UNCHANGED <<fact, current>>
    BY <1>5 DEF Maintain, RecoverSelect, RecoverApply, Clock, BackoffEnds, LeaseExpires
  <1>6. ASSUME \/ UNCHANGED allVars
               \/ \E i \in Instances : Close(i) \/ Restart(i)
               \/ \E j \in Jobs, n \in Attempts : OrphanEnds(<<j, n>>) \/ Reconcile(j, n)
        PROVE  UNCHANGED <<fact, current>>
    BY <1>6 DEF Close, Restart, OrphanEnds, Reconcile, ConfirmStopped, allVars
  <1> QED BY <1>1, <1>2, <1>3, <1>4, <1>5, <1>6 DEF WorkerNext

\* The part of FinishersHold that speaks of the store.
OpenHolds(s) ==
    finisher[s] = "open" => fact = [op |-> "FINISH", jobs |-> {J(s)}] /\ current[J(s)] = N(s)

\* The part of FinishersHold that speaks of the slot alone.
BesideEngine(s) ==
    /\ pc[s] = "finish" /\ cancel[s] => stopping[InstanceOf[s]]
    /\ finisher[s] # "none" =>
         \/ pc[s] = "finish"
         \/ pc[s] \in {"cancelled", "release", "stopped"} /\ stopping[InstanceOf[s]]

\* A finish call leaves its slot only when close cancels it.
LEMMA BesideEngineStep ==
    ASSUME WorkerTypeOK, [WorkerNext]_allVars, \A s \in Slots : BesideEngine(s),
           NEW t \in Slots
    PROVE  BesideEngine(t)'
  <1> USE WorkerAssumption DEF BesideEngine, WorkerTypeOK, slotVars, hostVars
  <1>1. ASSUME NEW s \in Slots, SlotStep(s) PROVE BesideEngine(t)'
    <2>1. CASE \/ SourceReady(s) \/ SourceFails(s) \/ TargetClaimed(s) \/ TargetLeaseLost(s)
               \/ AuthorizeEngine(s) \/ AuthorizeRefused(s) \/ StartEngine(s)
               \/ EngineAnswers(s) \/ Report(s) \/ ReportLost(s)
      <3>1. PICK place \in Location \ {"finish"} :
               /\ Moves(s, place)
               /\ pc[s] \notin {"finish", "release", "stopped"}
               /\ pc[s] = "cancelled" => place = "release"
        BY <2>1 DEF SourceReady, SourceFails, TargetClaimed, TargetLeaseLost, AuthorizeEngine,
            AuthorizeRefused, StartEngine, EngineAnswers, Report, ReportLost, Location,
            Executing, Reporting
      <3> QED BY <3>1 DEF Moves, Go
    <2>2. CASE Cancelled(s)
      BY <2>2 DEF Cancelled, Moves, Go, Executing
    <2>3. CASE Publish(s)
      BY <2>3 DEF Publish, Go
    <2>4. CASE FinishOpens(s)
      BY <2>4 DEF FinishOpens
    <2>5. CASE FinishRefused(s) \/ FinishCommits(s) \/ FinishRollsBack(s)
      <3>1. PICK place \in {"release", "broken"} : AfterFinish(s, place)
        BY <2>5 DEF FinishRefused, FinishCommits, FinishRollsBack
      <3> QED BY <3>1 DEF AfterFinish, Go
    <2>6. CASE Release(s)
      BY <2>6 DEF Release, Go
    <2>7. CASE EngineRaises(s)
      BY <2>7 DEF EngineRaises, Go
    <2> QED BY <1>1, <2>1, <2>2, <2>3, <2>4, <2>5, <2>6, <2>7 DEF SlotStep
  <1>2. ASSUME NEW s \in Slots, ExecutionBreaks(s) PROVE BesideEngine(t)'
    BY <1>2 DEF ExecutionBreaks, Moves, Go, Executing
  <1>3. ASSUME NEW s \in Slots, HeartbeatCancels(s) PROVE BesideEngine(t)'
    BY <1>3 DEF HeartbeatCancels, Executing
  <1>4. ASSUME NEW s \in Slots, NEW j \in Jobs, ClaimJob(s, j) PROVE BesideEngine(t)'
    BY <1>4 DEF ClaimJob, Go
  <1>5. ASSUME NEW i \in Instances, Close(i) PROVE BesideEngine(t)'
    BY <1>5 DEF Close, SlotsOf
  <1>6. ASSUME NEW i \in Instances, Restart(i) PROVE BesideEngine(t)'
    BY <1>6 DEF Restart, SlotsOf
  <1>7. ASSUME NEW i \in Instances, Crash(i) PROVE BesideEngine(t)'
    BY <1>7 DEF Crash, SlotsOf
  <1>8. ASSUME NEW a, OrphanEnds(a) PROVE BesideEngine(t)'
    BY <1>8 DEF OrphanEnds
  <1>9. ASSUME UNCHANGED workerVars PROVE BesideEngine(t)'
    BY <1>9 DEF workerVars
  <1>10. ASSUME \/ Maintain \/ Clock \/ UNCHANGED allVars
                \/ \E j \in Jobs : Submit(j) \/ HeartbeatDone(j)
                \/ \E s \in Slots, j \in Jobs : ClaimLost(s, j)
                \/ \E s \in Slots : HeartbeatSent(s)
                \/ \E j \in Jobs, n \in Attempts : Reconcile(j, n)
         PROVE  UNCHANGED workerVars
    BY <1>10 DEF Maintain, Clock, Submit, HeartbeatDone, HeartbeatSent, ClaimLost, Reconcile,
        allVars
  <1> QED BY <1>1, <1>2, <1>3, <1>4, <1>5, <1>6, <1>7, <1>8, <1>9, <1>10 DEF WorkerNext

\* finisher[t] becomes open only when its transaction does.
LEMMA FinishersOpen ==
    ASSUME WorkerTypeOK, [WorkerNext]_allVars, NEW t \in Slots, BesideEngine(t),
           finisher'[t] = "open"
    PROVE  \/ FinishOpens(t)
           \/ /\ finisher[t] = "open" /\ held'[t] = held[t]
              /\ ~FinishCommits(t) /\ ~FinishRollsBack(t)
              /\ ~Crash(InstanceOf[t])
  <1> USE WorkerAssumption DEF WorkerTypeOK, slotVars, hostVars
  <1>1. ~FinishCommits(t) /\ ~FinishRollsBack(t) /\ ~Crash(InstanceOf[t])
    BY DEF FinishCommits, FinishRollsBack, AfterFinish, Crash, SlotsOf
  <1>2. ASSUME NEW s \in Slots, SlotStep(s), ~(FinishOpens(s) /\ s = t)
        PROVE  finisher[t] = "open" /\ held'[t] = held[t]
    <2>1. CASE Release(s)
      BY <1>2, <2>1 DEF Release
    <2>2. CASE FinishOpens(s)
      BY <1>2, <2>2 DEF FinishOpens
    <2>3. CASE FinishRefused(s) \/ FinishCommits(s) \/ FinishRollsBack(s)
      BY <2>3 DEF FinishRefused, FinishCommits, FinishRollsBack, AfterFinish
    <2>4. CASE Publish(s)
      BY <2>4 DEF Publish
    <2>5. ASSUME \/ SourceReady(s) \/ SourceFails(s) \/ TargetClaimed(s) \/ TargetLeaseLost(s)
                 \/ AuthorizeEngine(s) \/ AuthorizeRefused(s) \/ StartEngine(s)
                 \/ EngineAnswers(s) \/ EngineRaises(s) \/ Cancelled(s) \/ Report(s)
                 \/ ReportLost(s)
          PROVE  UNCHANGED <<finisher, held>>
      BY <2>5 DEF SourceReady, SourceFails, TargetClaimed, TargetLeaseLost, AuthorizeEngine,
          AuthorizeRefused, StartEngine, EngineAnswers, EngineRaises, Cancelled, Report,
          ReportLost, Moves
    <2> QED BY <1>2, <2>1, <2>2, <2>3, <2>4, <2>5 DEF SlotStep
  <1>3. ASSUME NEW s \in Slots, NEW j \in Jobs, ClaimJob(s, j)
        PROVE  finisher[t] = "open" /\ held'[t] = held[t]
    BY <1>3 DEF ClaimJob, BesideEngine
  <1>4. ASSUME NEW i \in Instances, Close(i) \/ Restart(i) \/ Crash(i)
        PROVE  finisher[t] = "open" /\ held'[t] = held[t]
    BY <1>4 DEF Close, Restart, Crash, SlotsOf
  <1>5. ASSUME \/ Maintain \/ Clock \/ UNCHANGED allVars
               \/ \E j \in Jobs : Submit(j) \/ HeartbeatDone(j)
               \/ \E s \in Slots, j \in Jobs : ClaimLost(s, j)
               \/ \E s \in Slots : ExecutionBreaks(s) \/ HeartbeatSent(s) \/ HeartbeatCancels(s)
               \/ \E j \in Jobs, n \in Attempts : OrphanEnds(<<j, n>>) \/ Reconcile(j, n)
        PROVE  UNCHANGED <<finisher, held>>
    BY <1>5 DEF Maintain, Clock, Submit, HeartbeatDone, HeartbeatSent, ClaimLost, Reconcile,
        OrphanEnds, ExecutionBreaks, HeartbeatCancels, Moves, allVars, workerVars
  <1> QED BY <1>1, <1>2, <1>3, <1>4, <1>5 DEF WorkerNext

\* An open finish keeps its transaction until it ends it itself.
LEMMA OpenHoldsStep ==
    ASSUME Inductive, WorkerTypeOK, HeldOnce, \A s \in Slots : BesideEngine(s) /\ OpenHolds(s),
           [WorkerNext]_allVars, NEW t \in Slots
    PROVE  OpenHolds(t)'
  <1> SUFFICES ASSUME finisher'[t] = "open"
               PROVE  /\ fact' = [op |-> "FINISH", jobs |-> {J(t)'}]
                      /\ current'[J(t)'] = N(t)'
    BY DEF OpenHolds
  <1>1. CASE FinishOpens(t)
    BY <1>1 DEF FinishOpens, FinishBegin, AuthorizedFact, Authorized, jobVars, J, N
  <1>2. CASE /\ finisher[t] = "open" /\ held'[t] = held[t]
             /\ ~FinishCommits(t) /\ ~FinishRollsBack(t)
             /\ ~Crash(InstanceOf[t])
    <2>1. J(t)' = J(t) /\ N(t)' = N(t)
      BY <1>2 DEF J, N
    <2>2. fact = [op |-> "FINISH", jobs |-> {J(t)}] /\ current[J(t)] = N(t)
      BY <1>2 DEF OpenHolds
    <2>3. ASSUME NEW s \in Slots, finisher[s] = "open" PROVE s = t
      <3>1. fact = [op |-> "FINISH", jobs |-> {J(s)}] /\ current[J(s)] = N(s)
        BY <2>3 DEF OpenHolds
      <3>2. {J(s)} = {J(t)}
        BY <2>2, <3>1
      <3>3. J(s) = J(t) /\ N(s) = N(t)
        BY <2>2, <3>1, <3>2
      <3>4. held[s] # NoAttempt /\ held[t] # NoAttempt
        BY <1>2, <2>3 DEF WorkerTypeOK
      <3>5. held[s] = held[t]
        BY <3>3, <3>4 DEF WorkerTypeOK, J, N
      <3> QED BY <3>4, <3>5 DEF HeldOnce
    <2>4. ~ \E s \in Slots : FinishCommits(s) \/ FinishRollsBack(s)
      BY <1>2, <2>3 DEF FinishCommits, FinishRollsBack
    <2>5. CASE \E i \in Instances : Crash(i)
      <3>1. PICK i \in Instances : Crash(i)
        BY <2>5
      <3>2. ~ \E s \in SlotsOf(i) : finisher[s] = "open"
        BY <1>2, <2>3, <3>1 DEF SlotsOf
      <3>3. UNCHANGED vars
        BY <3>1, <3>2 DEF Crash
      <3> QED BY <2>1, <2>2, <3>3 DEF vars, jobVars
    <2>6. CASE ~ \E i \in Instances : Crash(i)
      BY <2>1, <2>2, <2>4, <2>6, FactStays
    <2> QED BY <2>5, <2>6
  <1> QED BY <1>1, <1>2, FinishersOpen

-----------------------------------------------------------------------------
(* SQL left behind.                                                         *)

\* Only an engine that raises leaves the SQL of an attempt to its own slot, and
\* from there the slot can only report and release.
LEMMA LeftBehindStep ==
    ASSUME Inductive, WorkerTypeOK, HeldOnce, LeftBehind, OrphansIssued,
           \A s \in Slots : BesideEngine(s), [WorkerNext]_allVars
    PROVE  LeftBehind'
  <1> SUFFICES ASSUME NEW t \in Slots, held'[t] \in orphans'
               PROVE  /\ pc'[t] \in {"undetermined", "broken", "cancelled", "release"}
                      /\ finisher'[t] = "none"
    BY DEF LeftBehind
  <1> DEFINE Leaving == /\ pc'[t] \in {"undetermined", "broken", "cancelled", "release"}
                        /\ finisher'[t] = "none"
             Left == /\ held[t] \in orphans
                     /\ pc[t] \in {"undetermined", "broken", "cancelled", "release"}
                     /\ finisher[t] = "none"
  <1>1. held'[t] # NoAttempt
    <2>1. held'[t] \in Jobs \X Attempts
      BY WorkerTypeStep DEF WorkerTypeOK
    <2> QED BY <2>1 DEF NoAttempt, Attempts
  <1>2. held[t] \in orphans => Left
    BY DEF LeftBehind
  <1>3. ASSUME NEW s \in Slots, EngineRaises(s) PROVE Leaving
    <2>1. CASE t = s
      BY <1>3, <2>1 DEF EngineRaises, Go, BesideEngine, WorkerTypeOK
    <2>2. CASE t # s
      <3>1. held'[t] = held[t] /\ orphans' \subseteq orphans \cup {held[s]}
        BY <1>3 DEF EngineRaises
      <3>2. held[t] \in orphans
        BY <1>1, <2>2, <3>1 DEF HeldOnce
      <3> QED BY <1>2, <1>3, <2>2, <3>2 DEF EngineRaises, Go
    <2> QED BY <2>1, <2>2
  <1>4. ASSUME NEW s \in Slots, SlotStep(s), ~EngineRaises(s) PROVE Leaving
    <2>1. orphans' = orphans /\ held'[t] \in {held[t], NoAttempt}
      BY <1>4 DEF SlotStep, SourceReady, SourceFails, TargetClaimed, TargetLeaseLost,
          AuthorizeEngine, AuthorizeRefused, StartEngine, EngineAnswers, Publish, FinishOpens,
          FinishRefused, FinishCommits, FinishRollsBack, AfterFinish, Cancelled, Report,
          ReportLost, Release, Moves, hostVars, WorkerTypeOK
    <2>2. Left
      BY <1>1, <1>2, <2>1
    <2>3. CASE \/ SourceReady(s) \/ SourceFails(s) \/ TargetClaimed(s) \/ TargetLeaseLost(s)
               \/ AuthorizeEngine(s) \/ AuthorizeRefused(s) \/ StartEngine(s)
               \/ EngineAnswers(s) \/ Cancelled(s) \/ Report(s) \/ ReportLost(s)
      <3>1. PICK place \in Location :
               /\ Moves(s, place)
               /\ \/ pc[s] \in Executing \cup {"finish"}
                  \/ place = "release"
        BY <2>3 DEF SourceReady, SourceFails, TargetClaimed, TargetLeaseLost, AuthorizeEngine,
            AuthorizeRefused, StartEngine, EngineAnswers, Cancelled, Report, ReportLost,
            Location, Executing, Reporting
      <3> QED BY <2>2, <3>1 DEF Moves, Go, Executing, WorkerTypeOK
    <2>4. CASE Publish(s)
      BY <2>2, <2>4 DEF Publish, Go
    <2>5. CASE FinishOpens(s)
      BY <2>2, <2>5 DEF FinishOpens
    <2>6. CASE FinishRefused(s) \/ FinishCommits(s) \/ FinishRollsBack(s)
      <3>1. PICK place \in {"release", "broken"} : AfterFinish(s, place)
        BY <2>6 DEF FinishRefused, FinishCommits, FinishRollsBack
      <3>2. s # t
        BY <2>2, <2>6 DEF FinishRefused, FinishCommits, FinishRollsBack
      <3> QED BY <2>2, <3>1, <3>2 DEF AfterFinish, Go, WorkerTypeOK
    <2>7. CASE Release(s)
      BY <1>1, <2>2, <2>7 DEF Release, Go, WorkerTypeOK
    <2> QED BY <1>4, <2>3, <2>4, <2>5, <2>6, <2>7 DEF SlotStep
  <1>5. ASSUME NEW s \in Slots, ExecutionBreaks(s) PROVE Leaving
    BY <1>2, <1>5 DEF ExecutionBreaks, Moves, Go, hostVars, Executing
  <1>6. ASSUME NEW s \in Slots, NEW j \in Jobs, ClaimJob(s, j) PROVE Leaving
    <2>1. attempt_no[j] \in Nat
      BY ConstantsAssumption DEF Inductive, TypeOK
    <2>2. orphans' = orphans /\ (t = s => held'[t] = <<j, attempt_no[j] + 1>>)
      BY <1>6 DEF ClaimJob, hostVars, WorkerTypeOK
    <2>3. t # s
      BY <2>1, <2>2 DEF OrphansIssued
    <2> QED BY <1>2, <1>6, <2>2, <2>3 DEF ClaimJob, Go
  <1>7. ASSUME NEW i \in Instances, Crash(i) PROVE Leaving
    <2>1. held'[t] = held[t] /\ t \notin SlotsOf(i)
      BY <1>1, <1>7 DEF Crash
    <2>2. held[t] \notin {held[s] : s \in {u \in SlotsOf(i) : pc[u] = "engine"}}
      BY <1>1, <2>1 DEF HeldOnce, SlotsOf
    <2> QED BY <1>2, <1>7, <2>1, <2>2 DEF Crash
  <1>8. ASSUME NEW i \in Instances, Close(i) \/ Restart(i) PROVE Leaving
    BY <1>1, <1>2, <1>8 DEF Close, Restart
  <1>9. ASSUME \/ Maintain \/ Clock \/ UNCHANGED allVars
               \/ \E j \in Jobs : Submit(j) \/ HeartbeatDone(j)
               \/ \E s \in Slots, j \in Jobs : ClaimLost(s, j)
               \/ \E s \in Slots : HeartbeatSent(s) \/ HeartbeatCancels(s)
               \/ \E j \in Jobs, n \in Attempts : OrphanEnds(<<j, n>>) \/ Reconcile(j, n)
        PROVE  Leaving
    <2>1. orphans' \subseteq orphans /\ UNCHANGED <<pc, held, finisher>>
      BY <1>9 DEF Maintain, Clock, Submit, HeartbeatDone, ClaimLost, HeartbeatSent,
          HeartbeatCancels, OrphanEnds, Reconcile, allVars, workerVars, slotVars, hostVars
    <2> QED BY <1>2, <2>1
  <1> QED BY <1>3, <1>4, <1>5, <1>6, <1>7, <1>8, <1>9 DEF WorkerNext

-----------------------------------------------------------------------------
(* What may write stays active.                                             *)

\* Only the slot that holds an attempt, once authorised, may start to write.
LEMMA WritersStart ==
    ASSUME WorkerTypeOK, [WorkerNext]_allVars, NEW j \in Jobs, NEW n \in Attempts,
           MayWrite(j, n)'
    PROVE  MayWrite(j, n) \/ \E s \in Slots : held[s] = <<j, n>> /\ AuthorizeEngine(s)
  <1> USE DEF MayWrite, Acts
  <1>1. CASE \E i \in Instances : Crash(i)
    BY <1>1 DEF Crash, SlotsOf
  <1>2. CASE ~ \E i \in Instances : Crash(i)
    <2>1. <<j, n>> \in orphans' => MayWrite(j, n)
      BY <1>2, HoldersMove DEF ClaimJob, hostVars, EngineRaises
    <2>2. ASSUME NEW t \in Slots, held'[t] = <<j, n>>, pc'[t] \in {"authorized", "engine"}
          PROVE  held[t] = <<j, n>> /\ (Acts(t) \/ AuthorizeEngine(t))
      <3> USE DEF WorkerTypeOK, slotVars, hostVars
      <3>1. ASSUME NEW s \in Slots, SlotStep(s)
            PROVE  held[t] = <<j, n>> /\ (Acts(t) \/ AuthorizeEngine(t))
        <4>1. CASE AuthorizeEngine(s)
          BY <2>2, <4>1 DEF AuthorizeEngine, Moves, Go
        <4>2. CASE StartEngine(s)
          BY <2>2, <4>2 DEF StartEngine, Moves, Go
        <4>3. CASE \/ SourceReady(s) \/ SourceFails(s) \/ TargetClaimed(s) \/ TargetLeaseLost(s)
                   \/ AuthorizeRefused(s) \/ EngineAnswers(s) \/ Cancelled(s) \/ Report(s)
                   \/ ReportLost(s)
          <5>1. PICK place \in Location \ {"authorized", "engine"} : Moves(s, place)
            BY <4>3 DEF SourceReady, SourceFails, TargetClaimed, TargetLeaseLost,
                AuthorizeRefused, EngineAnswers, Cancelled, Report, ReportLost, Location,
                Executing, Reporting
          <5> QED BY <2>2, <5>1 DEF Moves, Go
        <4>4. CASE Publish(s)
          BY <2>2, <4>4 DEF Publish, Go
        <4>5. CASE FinishOpens(s)
          BY <2>2, <4>5 DEF FinishOpens
        <4>6. CASE FinishRefused(s) \/ FinishCommits(s) \/ FinishRollsBack(s)
          <5>1. PICK place \in {"release", "broken"} : AfterFinish(s, place)
            BY <4>6 DEF FinishRefused, FinishCommits, FinishRollsBack
          <5> QED BY <2>2, <5>1 DEF AfterFinish, Go
        <4>7. CASE Release(s)
          BY <2>2, <4>7 DEF Release, Go
        <4>8. CASE EngineRaises(s)
          BY <2>2, <4>8 DEF EngineRaises, Go
        <4> QED BY <3>1, <4>1, <4>2, <4>3, <4>4, <4>5, <4>6, <4>7, <4>8 DEF SlotStep
      <3>2. ASSUME NEW s \in Slots, ExecutionBreaks(s) \/ HeartbeatCancels(s)
            PROVE  held[t] = <<j, n>> /\ Acts(t)
        BY <2>2, <3>2 DEF ExecutionBreaks, HeartbeatCancels, Moves, Go
      <3>3. ASSUME NEW s \in Slots, NEW k \in Jobs, ClaimJob(s, k)
            PROVE  held[t] = <<j, n>> /\ Acts(t)
        BY <2>2, <3>3 DEF ClaimJob, Go
      <3>4. ASSUME NEW i \in Instances, Close(i) \/ Restart(i)
            PROVE  held[t] = <<j, n>> /\ Acts(t)
        BY <2>2, <3>4 DEF Close, Restart
      <3>5. ASSUME \/ Maintain \/ Clock \/ UNCHANGED allVars
                   \/ \E k \in Jobs : Submit(k) \/ HeartbeatDone(k)
                   \/ \E s \in Slots, k \in Jobs : ClaimLost(s, k)
                   \/ \E s \in Slots : HeartbeatSent(s)
                   \/ \E k \in Jobs, m \in Attempts : OrphanEnds(<<k, m>>) \/ Reconcile(k, m)
            PROVE  UNCHANGED <<pc, held>>
        BY <3>5 DEF Maintain, Clock, Submit, HeartbeatDone, HeartbeatSent, ClaimLost, Reconcile,
            OrphanEnds, allVars, workerVars
      <3> QED BY <1>2, <2>2, <3>1, <3>2, <3>3, <3>4, <3>5 DEF WorkerNext
    <2> QED BY <2>1, <2>2
  <1> QED BY <1>1, <1>2

\* Of a slot past the engine, or not there yet, only SQL left behind can write.
LEMMA HolderRests ==
    ASSUME WorkerTypeOK, HeldOnce, NEW s \in Slots, held[s] # NoAttempt, ~Acts(s),
           MayWrite(J(s), N(s))
    PROVE  held[s] \in orphans
  <1>1. held[s] = <<J(s), N(s)>>
    BY DEF WorkerTypeOK, J, N
  <1> QED BY <1>1 DEF HeldOnce, MayWrite

\* finish records the success of the attempt its slot holds.
LEMMA FinishSparesWriters ==
    ASSUME Inductive, WorkerTypeOK, HeldOnce, LeftBehind, NEW s \in Slots, finisher[s] = "open",
           BesideEngine(s), OpenHolds(s), FinishCommit(J(s)),
           NEW j \in Jobs, NEW n \in Attempts, MayWrite(j, n)
    PROVE  state'[j][n] = state[j][n]
  <1>1. held[s] # NoAttempt /\ ~Acts(s) /\ current[J(s)] = N(s)
    BY DEF WorkerTypeOK, BesideEngine, OpenHolds, Acts
  <1>2. ~(j = J(s) /\ n = N(s))
    BY <1>1, HolderRests DEF LeftBehind
  <1> QED BY <1>1, <1>2 DEF FinishCommit, Inductive, TypeOK

\* A worker's report of an attempt that may write leaves it active: dbt has not
\* answered, and the mark EXTERNAL keeps the other exceptions from saying stopped.
LEMMA ReportSparesWriters ==
    ASSUME Inductive, WorkerTypeOK, HeldOnce, LeftBehind, NEW s \in Slots, Report(s),
           NEW j \in Jobs, NEW n \in Attempts, MayWrite(j, n),
           stage[j][n] = "EXTERNAL", state[j][n] \in ActiveStates
    PROVE  state'[j][n] \in ActiveStates
  <1> USE DEF Inductive, TypeOK, ActiveStates
  <1>1. CASE j = J(s) /\ n = N(s)
    <2>1. held[s] # NoAttempt /\ ~Acts(s)
      BY DEF Report, Acts, WorkerTypeOK
    <2>2. pc[s] \in {"undetermined", "broken", "cancelled", "release"}
      BY <1>1, <2>1, HolderRests DEF LeftBehind
    <2>3. Prepared(s) = FALSE
      BY <1>1 DEF Prepared
    <2>4. PICK code : Fail(J(s), N(s), code, FALSE)
      BY <2>2, <2>3 DEF Report
    <2> QED BY <1>1, <2>4 DEF Fail
  <1>2. CASE ~(j = J(s) /\ n = N(s))
    <2>1. PICK code, hasStopped : Fail(J(s), N(s), code, hasStopped)
      BY DEF Report
    <2> QED BY <1>2, <2>1 DEF Fail
  <1> QED BY <1>1, <1>2

\* No step records the end of an attempt that may write.
LEMMA WritersStayActive ==
    ASSUME Inductive, WorkerTypeOK, HeldOnce, LeftBehind,
           \A s \in Slots : BesideEngine(s) /\ OpenHolds(s),
           [WorkerNext]_allVars, NEW j \in Jobs, NEW n \in Attempts, MayWrite(j, n),
           stage[j][n] = "EXTERNAL", state[j][n] \in ActiveStates
    PROVE  stage'[j][n] = "EXTERNAL" /\ state'[j][n] \in ActiveStates
  <1> USE DEF Inductive, TypeOK, ActiveStates
  <1>1. stage'[j][n] = "EXTERNAL"
    <2>1. CASE UNCHANGED vars
      BY <2>1 DEF vars, attemptVars
    <2>2. CASE Next
      BY <2>2, StageStays
    <2> QED BY <2>1, <2>2, WorkerUsesStore
  <1>2. ASSUME NEW s \in Slots, SlotStep(s) PROVE state'[j][n] \in ActiveStates
    <2>1. CASE FinishCommits(s)
      BY <2>1, FinishSparesWriters DEF FinishCommits
    <2>2. CASE Report(s)
      BY <2>2, ReportSparesWriters
    <2>3. CASE \/ SourceReady(s) \/ SourceFails(s) \/ TargetClaimed(s) \/ TargetLeaseLost(s)
               \/ AuthorizeEngine(s) \/ AuthorizeRefused(s) \/ StartEngine(s)
               \/ EngineAnswers(s) \/ EngineRaises(s) \/ Publish(s) \/ FinishOpens(s)
               \/ FinishRefused(s) \/ FinishRollsBack(s) \/ Cancelled(s) \/ ReportLost(s) \/ Release(s)
      BY <2>3 DEF SourceReady, SourceFails, TargetClaimed, TargetLeaseLost, AuthorizeEngine,
          AuthorizeRefused, StartEngine, EngineAnswers, EngineRaises, Publish, FinishOpens,
          FinishRefused, FinishRollsBack, Cancelled, ReportLost, Release, AttachInput, ClaimTarget,
          StartExternal, FinishBegin, FactRollback, ReleaseTarget, vars, attemptVars
    <2> QED BY <1>2, <2>1, <2>2, <2>3 DEF SlotStep
  <1>3. ASSUME NEW i \in Instances, Crash(i) PROVE state'[j][n] \in ActiveStates
    <2>1. CASE UNCHANGED vars \/ FactRollback
      BY <2>1 DEF vars, attemptVars, FactRollback
    <2>2. ASSUME NEW s \in SlotsOf(i), finisher[s] = "open", FinishCommit(J(s))
          PROVE  state'[j][n] \in ActiveStates
      BY <2>2, FinishSparesWriters DEF SlotsOf
    <2> QED BY <1>3, <2>1, <2>2 DEF Crash
  <1>4. ASSUME NEW k \in Jobs, NEW m \in Attempts, Reconcile(k, m)
        PROVE  state'[j][n] \in ActiveStates
    <2>1. ~MayWrite(k, m)
      BY <1>4 DEF Reconcile, Writing, MayWrite, Acts
    <2> QED BY <1>4, <2>1 DEF Reconcile, ConfirmStopped
  <1>5. ASSUME Maintain PROVE state'[j][n] \in ActiveStates
    <2>1. CASE RecoverSelect \/ FactRollback
      BY <2>1 DEF RecoverSelect, FactRollback, attemptVars
    <2>2. CASE RecoverApply
      <3>1. state'[j][n] \in {state[j][n], RecoveredState(j)}
        BY <2>2 DEF RecoverApply
      <3>2. state'[j][n] # state[j][n] => n = current[j]
        BY <2>2 DEF RecoverApply
      <3> QED BY <3>1, <3>2 DEF RecoveredState, External
    <2> QED BY <1>5, <2>1, <2>2 DEF Maintain
  <1>6. ASSUME NEW k \in Jobs, Claim(k) PROVE state'[j][n] \in ActiveStates
    BY <1>6 DEF Claim
  <1>7. ASSUME \/ Clock \/ UNCHANGED allVars
               \/ \E k \in Jobs : Submit(k) \/ HeartbeatDone(k)
               \/ \E s \in Slots : ExecutionBreaks(s) \/ HeartbeatSent(s) \/ HeartbeatCancels(s)
               \/ \E i \in Instances : Close(i) \/ Restart(i)
               \/ \E k \in Jobs, m \in Attempts : OrphanEnds(<<k, m>>)
        PROVE  UNCHANGED state
    BY <1>7 DEF Clock, Submit, HeartbeatDone, ExecutionBreaks, HeartbeatSent, HeartbeatCancels,
        Close, Restart, OrphanEnds, BackoffEnds, LeaseExpires, Reserve, HeartbeatCommit,
        HeartbeatAbort, StartExternal, HeartbeatBegin, allVars, vars, attemptVars
  <1> QED BY <1>1, <1>2, <1>3, <1>4, <1>5, <1>6, <1>7 DEF WorkerNext, ClaimJob, ClaimLost

\* What may write after a step is marked, active and owns its target.
LEMMA WritersHoldStep ==
    ASSUME Inductive, WorkerTypeOK, Guarded, [WorkerNext]_allVars
    PROVE  WritersHold'
  <1> SUFFICES ASSUME NEW j \in Jobs, NEW n \in Attempts, MayWrite(j, n)'
               PROVE  stage'[j][n] = "EXTERNAL" /\ state'[j][n] \in ActiveStates /\ HasTarget(j)'
    BY DEF WritersHold
  <1>1. [Next]_vars
    BY WorkerUsesStore
  <1>2. CASE MayWrite(j, n)
    <2>1. stage[j][n] = "EXTERNAL" /\ state[j][n] \in ActiveStates /\ HasTarget(j)
      BY <1>2 DEF Guarded, WritersHold
    <2>2. \A s \in Slots : BesideEngine(s) /\ OpenHolds(s)
      BY DEF Guarded, FinishersHold, BesideEngine, OpenHolds
    <2>3. stage'[j][n] = "EXTERNAL" /\ state'[j][n] \in ActiveStates
      BY <1>2, <2>1, <2>2, WritersStayActive DEF Guarded
    <2> QED BY <1>1, <2>1, <2>3, TargetStays
  <1>3. ASSUME NEW s \in Slots, held[s] = <<j, n>>, AuthorizeEngine(s)
        PROVE  stage'[j][n] = "EXTERNAL" /\ state'[j][n] \in ActiveStates /\ HasTarget(j)'
    <2>1. J(s) = j /\ N(s) = n /\ pc[s] = "lock" /\ StartExternal(j, n)
      BY <1>3 DEF AuthorizeEngine, J, N
    <2>2. state[j][n] = "EXECUTING" /\ state' = state /\ stage'[j][n] = "EXTERNAL"
      BY <2>1 DEF StartExternal, AuthorizedFact, Authorized, Inductive, TypeOK
    <2>3. HasTarget(j)
      BY <2>1, <2>2 DEF Guarded, LockersHold, ActiveStates
    <2> QED BY <2>1, <2>2, <2>3 DEF StartExternal, jobVars, HasTarget, ActiveStates
  <1> QED BY <1>2, <1>3, WritersStart

\* A slot comes to the engine's lock by way of the target.
LEMMA LockersArrive ==
    ASSUME WorkerTypeOK, [WorkerNext]_allVars, NEW t \in Slots, pc'[t] = "lock"
    PROVE  held'[t] = held[t] /\ (pc[t] = "lock" \/ TargetClaimed(t))
  <1> USE DEF WorkerTypeOK, slotVars, hostVars
  <1>1. ASSUME NEW s \in Slots, SlotStep(s)
        PROVE  held'[t] = held[t] /\ (pc[t] = "lock" \/ TargetClaimed(t))
    <2>1. CASE TargetClaimed(s)
      BY <2>1 DEF TargetClaimed, Moves, Go
    <2>2. CASE \/ SourceReady(s) \/ SourceFails(s) \/ TargetLeaseLost(s) \/ AuthorizeEngine(s)
               \/ AuthorizeRefused(s) \/ StartEngine(s) \/ EngineAnswers(s) \/ Cancelled(s)
               \/ Report(s) \/ ReportLost(s)
      <3>1. PICK place \in Location \ {"lock"} : Moves(s, place)
        BY <2>2 DEF SourceReady, SourceFails, TargetLeaseLost, AuthorizeEngine,
            AuthorizeRefused, StartEngine, EngineAnswers, Cancelled, Report, ReportLost,
            Location, Executing, Reporting
      <3> QED BY <3>1 DEF Moves, Go
    <2>3. CASE Publish(s)
      BY <2>3 DEF Publish, Go
    <2>4. CASE FinishOpens(s)
      BY <2>4 DEF FinishOpens
    <2>5. CASE FinishRefused(s) \/ FinishCommits(s) \/ FinishRollsBack(s)
      <3>1. PICK place \in {"release", "broken"} : AfterFinish(s, place)
        BY <2>5 DEF FinishRefused, FinishCommits, FinishRollsBack
      <3> QED BY <3>1 DEF AfterFinish, Go
    <2>6. CASE Release(s)
      BY <2>6 DEF Release, Go
    <2>7. CASE EngineRaises(s)
      BY <2>7 DEF EngineRaises, Go
    <2> QED BY <1>1, <2>1, <2>2, <2>3, <2>4, <2>5, <2>6, <2>7 DEF SlotStep
  <1>2. ASSUME NEW s \in Slots, ExecutionBreaks(s) \/ HeartbeatCancels(s)
        PROVE  held'[t] = held[t] /\ pc[t] = "lock"
    BY <1>2 DEF ExecutionBreaks, HeartbeatCancels, Moves, Go
  <1>3. ASSUME NEW s \in Slots, NEW k \in Jobs, ClaimJob(s, k)
        PROVE  held'[t] = held[t] /\ pc[t] = "lock"
    BY <1>3 DEF ClaimJob, Go
  <1>4. ASSUME NEW i \in Instances, Close(i) \/ Restart(i) \/ Crash(i)
        PROVE  held'[t] = held[t] /\ pc[t] = "lock"
    BY <1>4 DEF Close, Restart, Crash
  <1>5. ASSUME \/ Maintain \/ Clock \/ UNCHANGED allVars
               \/ \E k \in Jobs : Submit(k) \/ HeartbeatDone(k)
               \/ \E s \in Slots, k \in Jobs : ClaimLost(s, k)
               \/ \E s \in Slots : HeartbeatSent(s)
               \/ \E k \in Jobs, m \in Attempts : OrphanEnds(<<k, m>>) \/ Reconcile(k, m)
        PROVE  UNCHANGED <<pc, held>>
    BY <1>5 DEF Maintain, Clock, Submit, HeartbeatDone, HeartbeatSent, ClaimLost, Reconcile,
        OrphanEnds, allVars, workerVars
  <1> QED BY <1>1, <1>2, <1>3, <1>4, <1>5 DEF WorkerNext

\* While a slot waits for the engine nobody takes the target from its attempt.
LEMMA LockersHoldStep ==
    ASSUME Inductive, WorkerTypeOK, Guarded, [WorkerNext]_allVars
    PROVE  LockersHold'
  <1> SUFFICES ASSUME NEW s \in Slots, pc'[s] = "lock",
                      state'[J(s)'][N(s)'] \in ActiveStates
               PROVE  claimed'[J(s)'] \/ TargetOf[J(s)'] = None
    BY DEF LockersHold, HasTarget
  <1>1. held'[s] = held[s] /\ (pc[s] = "lock" \/ TargetClaimed(s))
    BY LockersArrive
  <1>2. J(s)' = J(s) /\ N(s)' = N(s)
    BY <1>1 DEF J, N
  <1>3. J(s) \in Jobs /\ N(s) \in Attempts /\ held[s] # NoAttempt
    BY <1>1, HeldAttempt DEF TargetClaimed, WorkerTypeOK
  <1>4. CASE pc[s] = "lock"
    <2>1. state[J(s)][N(s)] \in ActiveStates
      BY <1>2, <1>3, ActiveWasActive, WorkerUsesStore DEF Guarded, HeldOnce
    <2>2. HasTarget(J(s))
      BY <1>4, <2>1 DEF Guarded, LockersHold
    <2> QED BY <1>2, <1>3, <2>1, <2>2, TargetStays, WorkerUsesStore DEF HasTarget
  <1>5. CASE TargetClaimed(s)
    <2>1. claimed'[J(s)] \/ TargetOf[J(s)] = None
      BY <1>5 DEF TargetClaimed, Moves, Go, WorkerTypeOK
    <2> QED BY <1>2, <2>1 DEF HasTarget
  <1> QED BY <1>1, <1>4, <1>5

\* The invariant of the workers is inductive.
LEMMA GuardedStep ==
    ASSUME Inductive, WorkerTypeOK, Guarded, [WorkerNext]_allVars
    PROVE  Guarded'
  <1>1. HeldOnce' /\ LeftBehind' /\ OrphansIssued'
    BY HeldOnceStep, LeftBehindStep DEF Guarded, FinishersHold, BesideEngine
  <1>2. FinishersHold'
    <2>1. \A s \in Slots : BesideEngine(s) /\ OpenHolds(s)
      BY DEF Guarded, FinishersHold, BesideEngine, OpenHolds
    <2>2. \A s \in Slots : BesideEngine(s)' /\ OpenHolds(s)'
      BY <2>1, BesideEngineStep, OpenHoldsStep DEF Guarded
    <2> QED BY <2>2 DEF FinishersHold, BesideEngine, OpenHolds
  <1> QED BY <1>1, <1>2, WritersHoldStep, LockersHoldStep DEF Guarded

\* Whatever stalls, crashes, raises or is closed: each attempt has one holder, who
\* cannot claim a stop while SQL of it runs on, and what may write is marked,
\* active and owns its target.
THEOREM WorkersGuarded == WorkerSpec => []Guarded
  <1>1. WorkerInit => Guarded
    BY DEF WorkerInit, Guarded, HeldOnce, LeftBehind, OrphansIssued, FinishersHold, WritersHold,
           LockersHold, MayWrite, Acts
  <1>2. Inductive /\ WorkerTypeOK /\ Guarded /\ [WorkerNext]_allVars => Guarded'
    BY GuardedStep
  <1> QED BY <1>1, <1>2, WorkerInductive, PTL DEF WorkerSpec

\* What writes may write.
LEMMA WritingIsAllowed ==
    ASSUME Guarded, NEW j \in Jobs, NEW n \in Attempts, Writing(j, n)
    PROVE  stage[j][n] = "EXTERNAL" /\ state[j][n] \in ActiveStates /\ HasTarget(j)
  <1>1. MayWrite(j, n)
    BY DEF Writing, MayWrite, Acts
  <1> QED BY <1>1 DEF Guarded, WritersHold

\* Two builds never write to one physical target at the same time: run_serialized
\* asks the store under the process lock, and only an owner of the target gets
\* that far (execution/build.py, storage/execution_targets.py).
THEOREM WritesDoNotOverlap == WorkerSpec => []NoOverlappingWrites
  <1>1. Inductive /\ Guarded /\ OneOwnerPerTarget => NoOverlappingWrites
    <2> SUFFICES ASSUME Inductive, Guarded, OneOwnerPerTarget,
                        NEW i \in Jobs, NEW j \in Jobs, NEW m \in Attempts, NEW n \in Attempts,
                        Writing(i, m), Writing(j, n),
                        TargetOf[i] = TargetOf[j], TargetOf[i] # None
                 PROVE  i = j /\ m = n
      BY DEF NoOverlappingWrites
    <2>1. claimed[i] /\ claimed[j]
      BY WritingIsAllowed DEF HasTarget
    <2>2. i = j
      BY <2>1 DEF OneOwnerPerTarget
    <2>3. m = current[i] /\ n = current[j]
      BY WritingIsAllowed, OtherAttemptsRest DEF Inductive, ActiveStates
    <2> QED BY <2>2, <2>3
  <1> QED BY <1>1, WorkerInductive, WorkersGuarded, WorkersImplementStore, TargetHasOneOwner, PTL

\* No attempt recorded as stopped writes: finish speaks after an engine that has
\* answered, fail only then or for an attempt never marked EXTERNAL, recover for
\* the latter, and the administrator for what has ended.
THEOREM EvidenceIsTrue == WorkerSpec => []StopEvidenceIsTrue
  <1>1. Inductive /\ Guarded => StopEvidenceIsTrue
    <2> SUFFICES ASSUME Inductive, Guarded, NEW j \in Jobs, NEW n \in Attempts,
                        stopped[j][n], Writing(j, n)
                 PROVE  FALSE
      BY DEF StopEvidenceIsTrue
    <2>1. HistoryOf(j)
      BY DEF Inductive, AttemptHistory
    <2> QED BY <2>1, WritingIsAllowed DEF HistoryOf, ActiveStates
  <1> QED BY <1>1, WorkerInductive, WorkersGuarded, PTL

\* The public status of a build that writes is RUNNING or OUTCOME_UNKNOWN.
THEOREM VisibleWrites == WorkerSpec => []WritesAreVisible
  <1>1. Inductive /\ Guarded /\ Shown /\ UnconfirmedIsReported => WritesAreVisible
    <2> SUFFICES ASSUME Inductive, Guarded, Shown, UnconfirmedIsReported,
                        NEW j \in Jobs, NEW n \in Attempts, Writing(j, n)
                 PROVE  build[j] \in {"RUNNING", "OUTCOME_UNKNOWN"}
      BY DEF WritesAreVisible
    <2>1. CASE state[j][n] = "EXECUTING"
      BY <2>1, RunningIsShown DEF Inductive, OneExecution
    <2>2. CASE state[j][n] = "EXPIRED_UNCONFIRMED"
      BY <2>2 DEF UnconfirmedIsReported
    <2> QED BY <2>1, <2>2, WritingIsAllowed DEF ActiveStates
  <1> QED BY <1>1, WorkerInductive, WorkersGuarded, WorkersImplementStore, ShownHolds,
             UnconfirmedReported, PTL
=============================================================================
