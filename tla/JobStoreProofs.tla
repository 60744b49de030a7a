--------------------------- MODULE JobStoreProofs ---------------------------
(* Theorems of JobStore.                                                   *)
EXTENDS JobStore, TLAPS

\* Tokens in circulation belong to attempts within the maximum.
LEMMA IssuedAreAttempts ==
    ASSUME TypeOK, NEW j \in Jobs, NEW n \in Issued(j)
    PROVE  n \in Attempts
  BY ConstantsAssumption DEF TypeOK, Issued, Attempts

\* The empty database has the declared types.
LEMMA TypeInit == Init => TypeOK
  BY ConstantsAssumption
  DEF Init, TypeOK, JobStatus, ErrorCodes, AttemptState, BuildStatus, Attempts

\* engine_sync_job writes a public status again.
LEMMA SyncedBuilds ==
    ASSUME TypeOK, NEW S \in SUBSET Jobs, SyncBuilds(S),
           \A j \in S : status'[j] \in BuildStatus
    PROVE  build' \in [Jobs -> BuildStatus]
  <1>1. ASSUME NEW j \in Jobs
        PROVE  (IF j \in S THEN PublicStatus(status'[j], error'[j], unknown'[j])
                ELSE build[j]) \in BuildStatus
    BY DEF TypeOK, PublicStatus, BuildStatus
  <1> QED BY <1>1 DEF SyncBuilds

\* Every transaction keeps the column types; claim does because a QUEUED job has
\* attempts left.
LEMMA TypeStep ==
    ASSUME TypeOK, AttemptHistory, OpenTransactions, Next
    PROVE  TypeOK'
  <1>1. ASSUME NEW j \in Jobs, Reserve(j) PROVE TypeOK'
    BY <1>1, ConstantsAssumption DEF TypeOK, Reserve, jobVars, attemptVars, JobStatus, BuildStatus
  <1>2. ASSUME NEW j \in Jobs, Claim(j) PROVE TypeOK'
    <2>1. attempt_no[j] + 1 \in Attempts
      BY <1>2, ConstantsAssumption DEF Claim, TypeOK, AttemptHistory, HistoryOf, Attempts
    <2>2. status' \in [Jobs -> JobStatus] /\ status'[j] = "RUNNING"
      BY <1>2 DEF Claim, TypeOK, JobStatus
    <2>3. build' \in [Jobs -> BuildStatus]
      <3>1. \A i \in {j} : status'[i] \in BuildStatus
        BY <2>2 DEF BuildStatus
      <3>2. SyncBuilds({j})
        BY <1>2 DEF Claim
      <3> QED BY <3>1, <3>2, SyncedBuilds
    <2>4. attempt_no' \in [Jobs -> 0..MaxAttempts] /\ current' \in [Jobs -> 0..MaxAttempts]
      BY <1>2, <2>1 DEF Claim, TypeOK, Attempts
    <2>5. state' \in [Jobs -> [Attempts -> AttemptState]]
      BY <1>2, <2>1 DEF Claim, TypeOK, AttemptState
    <2> QED BY <1>2, <2>2, <2>3, <2>4, <2>5 DEF TypeOK, Claim
  <1>3. ASSUME NEW j \in Jobs, BackoffEnds(j) PROVE TypeOK'
    BY <1>3 DEF TypeOK, BackoffEnds, attemptVars
  <1>4. ASSUME NEW j \in Jobs, HeartbeatCommit(j) PROVE TypeOK'
    <2>1. lease' \in [Jobs -> [Attempts -> {"LIVE", "EXPIRED"}]]
      BY <1>4 DEF TypeOK, HeartbeatCommit
    <2>2. beat' \in [Jobs -> 0..MaxAttempts]
      BY <1>4, ConstantsAssumption DEF TypeOK, HeartbeatCommit
    <2> QED BY <1>4, <2>1, <2>2 DEF TypeOK, HeartbeatCommit, jobVars
  <1>5. ASSUME NEW j \in Jobs, HeartbeatAbort(j) PROVE TypeOK'
    BY <1>5, ConstantsAssumption DEF TypeOK, HeartbeatAbort, jobVars, attemptVars
  <1>6. ASSUME NEW j \in Jobs, FinishCommit(j) PROVE TypeOK'
    <2>1. build' \in [Jobs -> BuildStatus]
      <3>1. \A i \in {j} : status'[i] \in BuildStatus
        BY <1>6 DEF FinishCommit, TypeOK, BuildStatus
      <3>2. SyncBuilds({j})
        BY <1>6 DEF FinishCommit
      <3> QED BY <3>1, <3>2, SyncedBuilds
    <2>2. busy' \in [Projects -> Jobs \cup {None}]
      BY <1>6 DEF FinishCommit, TypeOK, ReleaseProjects
    <2>3. state' \in [Jobs -> [Attempts -> AttemptState]]
      BY <1>6 DEF FinishCommit, TypeOK, AttemptState
    <2>4. stopped' \in [Jobs -> [Attempts -> BOOLEAN]]
      BY <1>6 DEF FinishCommit, TypeOK
    <2> QED BY <1>6, <2>1, <2>2, <2>3, <2>4 DEF TypeOK, FinishCommit, JobStatus, NoFact, ErrorCodes
  <1>7. ASSUME NEW j \in Jobs, NEW n \in Issued(j), LeaseExpires(j, n) PROVE TypeOK'
    BY <1>7, IssuedAreAttempts DEF TypeOK, LeaseExpires, jobVars
  <1>8. ASSUME NEW j \in Jobs, NEW n \in Issued(j), HeartbeatBegin(j, n) PROVE TypeOK'
    BY <1>8, IssuedAreAttempts, ConstantsAssumption DEF TypeOK, HeartbeatBegin, jobVars, attemptVars, Attempts
  <1>9. ASSUME NEW j \in Jobs, NEW n \in Issued(j), StartExternal(j, n) PROVE TypeOK'
    BY <1>9, IssuedAreAttempts DEF TypeOK, StartExternal, jobVars
  <1>10. ASSUME NEW j \in Jobs, NEW n \in Issued(j), FinishBegin(j, n) PROVE TypeOK'
    BY <1>10 DEF TypeOK, FinishBegin, jobVars, attemptVars
  <1>11. ASSUME NEW j \in Jobs, NEW n \in Issued(j), NEW source \in Sources,
                AttachInput(j, n, source)
         PROVE TypeOK'
    BY <1>11 DEF TypeOK, AttachInput, attemptVars
  <1>12. ASSUME NEW j \in Jobs, NEW n \in Issued(j),
                NEW code \in {"EXECUTION_OUTCOME_UNKNOWN", "OTHER"},
                NEW hasStopped \in BOOLEAN, Fail(j, n, code, hasStopped)
         PROVE TypeOK'
    <2>1. build' \in [Jobs -> BuildStatus]
      <3>1. \A i \in {j} : status'[i] \in BuildStatus
        BY <1>12 DEF Fail, TypeOK, BuildStatus
      <3>2. SyncBuilds({j})
        BY <1>12 DEF Fail
      <3> QED BY <3>1, <3>2, SyncedBuilds
    <2>2. busy' \in [Projects -> Jobs \cup {None}]
      BY <1>12 DEF Fail, TypeOK, ReleaseProjects
    <2> QED BY <1>12, <2>1, <2>2, IssuedAreAttempts
            DEF TypeOK, Fail, JobStatus, ErrorCodes, AttemptState
  <1>13. ASSUME NEW j \in Jobs, NEW n \in Issued(j), ConfirmStopped(j, n) PROVE TypeOK'
    <2>1. busy' \in [Projects -> Jobs \cup {None}]
      BY <1>13 DEF ConfirmStopped, TypeOK, ReleaseProjects
    <2> QED BY <1>13, <2>1, IssuedAreAttempts
            DEF TypeOK, ConfirmStopped, AttemptState, jobVars
  <1>14. ASSUME NEW j \in Jobs, NEW n \in Issued(j), ClaimTarget(j, n) PROVE TypeOK'
    BY <1>14 DEF TypeOK, ClaimTarget, attemptVars
  <1>15. ASSUME NEW j \in Jobs, NEW n \in Issued(j), ReleaseTarget(j, n) PROVE TypeOK'
    BY <1>15 DEF TypeOK, ReleaseTarget, attemptVars
  <1>16. ASSUME RecoverSelect PROVE TypeOK'
    BY <1>16 DEF TypeOK, RecoverSelect, jobVars, attemptVars
  <1>17. ASSUME RecoverApply PROVE TypeOK'
    <2>1. build' \in [Jobs -> BuildStatus]
      <3> DEFINE taken == {j \in fact.jobs : RowFree(j)}
      <3>1. taken \in SUBSET Jobs
        BY DEF TypeOK
      <3>2. \A j \in taken : status'[j] \in BuildStatus
        BY <1>17, <3>1 DEF RecoverApply, BuildStatus
      <3>3. SyncBuilds(taken)
        BY <1>17 DEF RecoverApply
      <3> QED BY <3>1, <3>2, <3>3, SyncedBuilds
    <2>2. busy' \in [Projects -> Jobs \cup {None}]
      BY <1>17 DEF RecoverApply, TypeOK, ReleaseProjects
    <2>3. state' \in [Jobs -> [Attempts -> AttemptState]]
      BY <1>17 DEF RecoverApply, TypeOK, AttemptState, RecoveredState
    <2>4. stopped' \in [Jobs -> [Attempts -> BOOLEAN]]
      BY <1>17 DEF RecoverApply, TypeOK, External
    <2>5. status' \in [Jobs -> JobStatus] /\ due' \in [Jobs -> BOOLEAN]
      BY <1>17 DEF RecoverApply, TypeOK, JobStatus
    <2>6. current' \in [Jobs -> 0..MaxAttempts]
      BY <1>17, ConstantsAssumption DEF RecoverApply, TypeOK
    <2>7. error' \in [Jobs -> ErrorCodes]
      BY <1>17 DEF RecoverApply, TypeOK, ErrorCodes
    <2>8. unknown' \in [Jobs -> BOOLEAN]
      BY <1>17 DEF RecoverApply, TypeOK, External
    <2>9. fact' \in [op: {"NONE", "FINISH", "RECOVER"}, jobs: SUBSET Jobs]
      BY <1>17 DEF RecoverApply, NoFact
    <2> QED BY <1>17, <2>1, <2>2, <2>3, <2>4, <2>5, <2>6, <2>7, <2>8, <2>9
            DEF TypeOK, RecoverApply
  <1>18. ASSUME FactRollback PROVE TypeOK'
    BY <1>18 DEF TypeOK, FactRollback, NoFact, jobVars, attemptVars
  <1> QED
    BY <1>1, <1>2, <1>3, <1>4, <1>5, <1>6, <1>7, <1>8, <1>9, <1>10, <1>11,
       <1>12, <1>13, <1>14, <1>15, <1>16, <1>17, <1>18 DEF Next

-----------------------------------------------------------------------------
\* Nothing has been attempted and no transaction is open at first.
LEMMA HistoryInit == Init => AttemptHistory /\ OpenTransactions
  BY DEF Init, AttemptHistory, HistoryOf, OpenTransactions, Attempts

\* The columns AttemptHistory speaks of.
historyVars == <<status, attempt_no, current, state, stage, stopped>>

\* Every transaction leaves the rows of a job in one story.
LEMMA HistoryStep ==
    ASSUME TypeOK, AttemptHistory, OpenTransactions, Next
    PROVE  AttemptHistory'
  <1>0. ASSUME UNCHANGED historyVars PROVE AttemptHistory'
    BY <1>0 DEF historyVars, AttemptHistory, HistoryOf
  <1>1. ASSUME NEW j \in Jobs, Reserve(j) PROVE AttemptHistory'
    <2>1. ASSUME NEW i \in Jobs PROVE HistoryOf(i)'
      <3>1. HistoryOf(i) BY DEF AttemptHistory
      <3> QED BY <1>1, <3>1, ConstantsAssumption
              DEF Reserve, HistoryOf, TypeOK, attemptVars, Attempts
    <2> QED BY <2>1 DEF AttemptHistory
  <1>2. ASSUME NEW j \in Jobs, Claim(j) PROVE AttemptHistory'
    <2>1. ASSUME NEW i \in Jobs PROVE HistoryOf(i)'
      <3>1. HistoryOf(i) BY DEF AttemptHistory
      <3>2. CASE i # j
        BY <1>2, <3>1, <3>2 DEF Claim, HistoryOf, TypeOK
      <3>3. CASE i = j
        <4>1. /\ status[j] = "QUEUED" /\ attempt_no[j] \in Nat
              /\ attempt_no[j] + 1 \in Attempts
          BY <1>2, <3>1, <3>3, ConstantsAssumption DEF Claim, HistoryOf, TypeOK, Attempts
        <4>2. /\ status'[j] = "RUNNING"
              /\ attempt_no'[j] = attempt_no[j] + 1
              /\ current'[j] = attempt_no[j] + 1
              /\ UNCHANGED <<stage, stopped>>
          BY <1>2 DEF Claim, TypeOK
        <4>3. \A n \in Attempts :
                 state'[j][n] = IF n = attempt_no[j] + 1 THEN "EXECUTING" ELSE state[j][n]
          BY <1>2, <4>1 DEF Claim, TypeOK
        <4>4. \A n \in Attempts : n \in Nat
          BY DEF Attempts
        <4>5. ASSUME NEW n \in Attempts
              PROVE  /\ state'[j][n] = "ABSENT" <=> n > attempt_no'[j]
                     /\ n # current'[j] => stage'[j][n] = "PREPARING"
                     /\ n < attempt_no'[j] => state'[j][n] = "STOPPED"
                     /\ stopped'[j][n] <=> state'[j][n] \in {"SUCCEEDED", "FAILED", "STOPPED"}
          <5>1. n \in Nat \ {0}
            BY DEF Attempts
          <5>2. /\ state[j][n] = "ABSENT" <=> n > attempt_no[j]
                /\ stage[j][n] = "PREPARING"
                /\ state[j][n] \in {"ABSENT", "STOPPED"}
                /\ stopped[j][n] <=> state[j][n] = "STOPPED"
            BY <3>1, <3>3, <4>1, <5>1 DEF HistoryOf
          <5>3. CASE n = attempt_no[j] + 1
            BY <4>1, <4>2, <4>3, <5>1, <5>2, <5>3
          <5>4. CASE n # attempt_no[j] + 1
            BY <4>1, <4>2, <4>3, <5>1, <5>2, <5>4
          <5> QED BY <5>3, <5>4
        <4> QED BY <3>3, <4>1, <4>2, <4>5 DEF HistoryOf
      <3> QED BY <3>2, <3>3
    <2> QED BY <2>1 DEF AttemptHistory
  <1>3. ASSUME NEW j \in Jobs, FinishCommit(j) PROVE AttemptHistory'
    BY <1>3 DEF FinishCommit, Authorized, AttemptHistory, HistoryOf, TypeOK, Attempts
  <1>4. ASSUME NEW j \in Jobs, NEW n \in Issued(j), StartExternal(j, n)
        PROVE  AttemptHistory'
    BY <1>4, IssuedAreAttempts
    DEF StartExternal, AuthorizedFact, Authorized, AttemptHistory, HistoryOf, TypeOK, jobVars
  <1>5. ASSUME NEW j \in Jobs, NEW n \in Issued(j),
               NEW code \in {"EXECUTION_OUTCOME_UNKNOWN", "OTHER"},
               NEW hasStopped \in BOOLEAN, Fail(j, n, code, hasStopped)
        PROVE  AttemptHistory'
    BY <1>5, IssuedAreAttempts
    DEF Fail, AuthorizedFact, Authorized, AttemptHistory, HistoryOf, TypeOK, Attempts
  <1>6. ASSUME NEW j \in Jobs, NEW n \in Issued(j), ConfirmStopped(j, n)
        PROVE  AttemptHistory'
    BY <1>6, IssuedAreAttempts
    DEF ConfirmStopped, AttemptHistory, HistoryOf, TypeOK, Attempts, jobVars
  <1>7. ASSUME RecoverApply PROVE AttemptHistory'
    <2> DEFINE taken == {i \in fact.jobs : RowFree(i)}
    <2>1. ASSUME NEW i \in Jobs PROVE HistoryOf(i)'
      <3>1. HistoryOf(i) BY DEF AttemptHistory
      <3>2. CASE i \notin taken
        BY <1>7, <3>1, <3>2 DEF RecoverApply, HistoryOf
      <3>3. CASE i \in taken
        <4>1. status[i] = "RUNNING"
          BY <3>3 DEF OpenTransactions
        <4>2. /\ current[i] = attempt_no[i] /\ current[i] # 0
              /\ attempt_no'[i] = attempt_no[i]
              /\ stage'[i] = stage[i]
          BY <1>7, <3>1, <4>1 DEF RecoverApply, HistoryOf
        <4>3. \A n \in Attempts :
                 /\ n \in Nat \ {0}
                 /\ state'[i][n] = IF n = current[i] THEN RecoveredState(i) ELSE state[i][n]
                 /\ stopped'[i][n] <=> IF n = current[i] THEN ~External(i) ELSE stopped[i][n]
                 /\ stage[i][n] \in {"PREPARING", "EXTERNAL"}
          <5> SUFFICES ASSUME NEW n \in Attempts
                       PROVE  /\ n \in Nat \ {0}
                              /\ state'[i][n] = IF n = current[i] THEN RecoveredState(i)
                                                ELSE state[i][n]
                              /\ stopped'[i][n] <=> IF n = current[i] THEN ~External(i)
                                                    ELSE stopped[i][n]
                              /\ stage[i][n] \in {"PREPARING", "EXTERNAL"}
            OBVIOUS
          <5>1. n \in Nat \ {0}
            BY ConstantsAssumption DEF Attempts
          <5>2. stage[i][n] \in {"PREPARING", "EXTERNAL"}
            BY DEF TypeOK
          <5>3. state'[i][n] = IF n = current[i] THEN RecoveredState(i) ELSE state[i][n]
            BY <1>7, <3>3 DEF RecoverApply
          <5>4. stopped'[i][n] = IF n = current[i] THEN ~External(i) ELSE stopped[i][n]
            BY <1>7, <3>3 DEF RecoverApply
          <5> QED BY <5>1, <5>2, <5>3, <5>4
        <4>4. attempt_no[i] \in 0..MaxAttempts /\ MaxAttempts \in Nat
          BY ConstantsAssumption DEF TypeOK
        <4>5. CASE Retryable(i)
          <5>1. status'[i] = "QUEUED" /\ current'[i] = 0
            BY <1>7, <3>3, <4>5 DEF RecoverApply
          <5> QED BY <3>1, <4>1, <4>2, <4>3, <4>4, <4>5, <5>1
                  DEF HistoryOf, Retryable, External, RecoveredState
        <4>6. CASE ~Retryable(i)
          <5>1. status'[i] = "FAILED" /\ current'[i] = current[i]
            BY <1>7, <3>3, <4>6 DEF RecoverApply
          <5> QED BY <3>1, <4>1, <4>2, <4>3, <4>4, <5>1
                  DEF HistoryOf, External, RecoveredState
        <4> QED BY <4>5, <4>6
      <3> QED BY <3>2, <3>3
    <2> QED BY <2>1 DEF AttemptHistory
  <1>8. ASSUME NEW j \in Jobs,
               \/ BackoffEnds(j) \/ HeartbeatCommit(j) \/ HeartbeatAbort(j)
               \/ \E n \in Issued(j) :
                    \/ LeaseExpires(j, n) \/ HeartbeatBegin(j, n)
                    \/ FinishBegin(j, n) \/ ClaimTarget(j, n) \/ ReleaseTarget(j, n)
                    \/ \E source \in Sources : AttachInput(j, n, source)
        PROVE  UNCHANGED historyVars
    BY <1>8 DEF BackoffEnds, HeartbeatCommit, HeartbeatAbort, LeaseExpires,
                HeartbeatBegin, FinishBegin, AttachInput, ClaimTarget, ReleaseTarget,
                jobVars, attemptVars, historyVars
  <1>9. ASSUME RecoverSelect \/ FactRollback PROVE UNCHANGED historyVars
    BY <1>9 DEF RecoverSelect, FactRollback, jobVars, attemptVars, historyVars
  <1> QED
    BY <1>0, <1>1, <1>2, <1>3, <1>4, <1>5, <1>6, <1>7, <1>8, <1>9 DEF Next

-----------------------------------------------------------------------------
\* The advisory lock and the row locks keep what an open transaction has read.
LEMMA OpenTransactionsStep ==
    ASSUME TypeOK, AttemptHistory, OpenTransactions, Next
    PROVE  OpenTransactions'
  <1>0. ASSUME UNCHANGED <<status, current, fact, beat>> PROVE OpenTransactions'
    BY <1>0 DEF OpenTransactions
  <1>1. ASSUME NEW j \in Jobs, Reserve(j) PROVE OpenTransactions'
    BY <1>1 DEF Reserve, FactFree, NoFact, OpenTransactions, TypeOK
  <1>2. ASSUME NEW j \in Jobs, Claim(j) PROVE OpenTransactions'
    BY <1>2 DEF Claim, FactOn, FactFree, NoFact, RowFree, OpenTransactions, TypeOK
  <1>3. ASSUME NEW j \in Jobs, HeartbeatCommit(j) \/ HeartbeatAbort(j)
        PROVE  OpenTransactions'
    BY <1>3 DEF HeartbeatCommit, HeartbeatAbort, OpenTransactions, TypeOK, jobVars
  <1>4. ASSUME NEW j \in Jobs, NEW n \in Issued(j), HeartbeatBegin(j, n)
        PROVE  OpenTransactions'
    BY <1>4 DEF HeartbeatBegin, Authorized, OpenTransactions, TypeOK, jobVars
  <1>5. ASSUME NEW j \in Jobs, NEW n \in Issued(j), FinishBegin(j, n)
        PROVE  OpenTransactions'
    BY <1>5 DEF FinishBegin, AuthorizedFact, Authorized, FactOn, RowFree,
                OpenTransactions, TypeOK, jobVars
  <1>6. ASSUME NEW j \in Jobs, FinishCommit(j) PROVE OpenTransactions'
    BY <1>6 DEF FinishCommit, NoFact, OpenTransactions, TypeOK
  <1>7. ASSUME NEW j \in Jobs, NEW n \in Issued(j),
               NEW code \in {"EXECUTION_OUTCOME_UNKNOWN", "OTHER"},
               NEW hasStopped \in BOOLEAN, Fail(j, n, code, hasStopped)
        PROVE  OpenTransactions'
    BY <1>7 DEF Fail, AuthorizedFact, FactOn, FactFree, NoFact, RowFree,
                OpenTransactions, TypeOK
  <1>8. ASSUME RecoverSelect PROVE OpenTransactions'
    <2>1. \A j \in Jobs : Expired(j) => status[j] = "RUNNING"
      BY DEF Expired, AttemptHistory, HistoryOf
    <2>2. fact' = [op |-> "RECOVER", jobs |-> {j \in Jobs : Expired(j)}]
      BY <1>8 DEF RecoverSelect
    <2>3. fact'.jobs # {} /\ fact'.op = "RECOVER"
      BY <1>8, <2>2 DEF RecoverSelect
    <2> QED BY <1>8, <2>1, <2>2, <2>3 DEF RecoverSelect, OpenTransactions, jobVars
  <1>9. ASSUME RecoverApply PROVE OpenTransactions'
    <2>1. \A j \in Jobs : ~RowFree(j) => status'[j] = status[j] /\ current'[j] = current[j]
      BY <1>9 DEF RecoverApply, TypeOK
    <2> QED BY <1>9, <2>1 DEF RecoverApply, RowFree, NoFact, OpenTransactions
  <1>10. ASSUME FactRollback PROVE OpenTransactions'
    BY <1>10 DEF FactRollback, NoFact, OpenTransactions, jobVars
  <1>11. ASSUME NEW j \in Jobs,
               \/ BackoffEnds(j)
               \/ \E n \in Issued(j) :
                    \/ LeaseExpires(j, n) \/ StartExternal(j, n)
                    \/ ConfirmStopped(j, n) \/ ClaimTarget(j, n) \/ ReleaseTarget(j, n)
                    \/ \E source \in Sources : AttachInput(j, n, source)
        PROVE  UNCHANGED <<status, current, fact, beat>>
    BY <1>11 DEF BackoffEnds, LeaseExpires, StartExternal, AttachInput, ConfirmStopped,
                 ClaimTarget, ReleaseTarget, jobVars, attemptVars
  <1> QED
    BY <1>0, <1>1, <1>2, <1>3, <1>4, <1>5, <1>6, <1>7, <1>8, <1>9, <1>10, <1>11 DEF Next

-----------------------------------------------------------------------------
\* Nothing executes at first.
LEMMA OneExecutionInit == Init => OneExecution
  BY DEF Init, OneExecution

\* claim, finish, fail and recover move a job and its current attempt together.
LEMMA OneExecutionStep ==
    ASSUME TypeOK, AttemptHistory, OpenTransactions, OneExecution, Next
    PROVE  OneExecution'
  <1>0. ASSUME UNCHANGED <<status, current, state>> PROVE OneExecution'
    BY <1>0 DEF OneExecution
  <1>1. ASSUME NEW j \in Jobs, Reserve(j) PROVE OneExecution'
    BY <1>1 DEF Reserve, OneExecution, TypeOK, attemptVars
  <1>2. ASSUME NEW j \in Jobs, Claim(j) PROVE OneExecution'
    <2>1. attempt_no[j] + 1 \in Attempts
      BY <1>2, ConstantsAssumption DEF Claim, TypeOK, AttemptHistory, HistoryOf, Attempts
    <2> QED BY <1>2, <2>1 DEF Claim, OneExecution, TypeOK
  <1>3. ASSUME NEW j \in Jobs, FinishCommit(j) PROVE OneExecution'
    BY <1>3 DEF FinishCommit, OneExecution, TypeOK
  <1>4. ASSUME NEW j \in Jobs, NEW n \in Issued(j),
               NEW code \in {"EXECUTION_OUTCOME_UNKNOWN", "OTHER"},
               NEW hasStopped \in BOOLEAN, Fail(j, n, code, hasStopped)
        PROVE  OneExecution'
    BY <1>4, IssuedAreAttempts
    DEF Fail, AuthorizedFact, Authorized, OneExecution, TypeOK
  <1>5. ASSUME NEW j \in Jobs, NEW n \in Issued(j), ConfirmStopped(j, n)
        PROVE  OneExecution'
    BY <1>5, IssuedAreAttempts DEF ConfirmStopped, OneExecution, TypeOK, jobVars
  <1>6. ASSUME RecoverApply PROVE OneExecution'
    <2> SUFFICES ASSUME NEW j \in Jobs, NEW n \in Attempts
                 PROVE  state'[j][n] = "EXECUTING" <=> status'[j] = "RUNNING" /\ current'[j] = n
      BY DEF OneExecution
    <2>1. CASE j \in fact.jobs /\ RowFree(j)
      <3>1. status'[j] \in {"QUEUED", "FAILED"}
        BY <1>6, <2>1 DEF RecoverApply
      <3>2. state'[j][n] # "EXECUTING"
        BY <1>6, <2>1 DEF RecoverApply, RecoveredState, OneExecution, OpenTransactions
      <3> QED BY <3>1, <3>2
    <2>2. CASE ~(j \in fact.jobs /\ RowFree(j))
      BY <1>6, <2>2 DEF RecoverApply, OneExecution
    <2> QED BY <2>1, <2>2
  <1>7. ASSUME NEW j \in Jobs,
               \/ BackoffEnds(j) \/ HeartbeatCommit(j) \/ HeartbeatAbort(j)
               \/ \E n \in Issued(j) :
                    \/ LeaseExpires(j, n) \/ HeartbeatBegin(j, n) \/ StartExternal(j, n)
                    \/ FinishBegin(j, n) \/ ClaimTarget(j, n) \/ ReleaseTarget(j, n)
                    \/ \E source \in Sources : AttachInput(j, n, source)
        PROVE  UNCHANGED <<status, current, state>>
    BY <1>7 DEF BackoffEnds, HeartbeatCommit, HeartbeatAbort, LeaseExpires,
                HeartbeatBegin, StartExternal, FinishBegin, AttachInput, ClaimTarget,
                ReleaseTarget, jobVars, attemptVars
  <1>8. ASSUME RecoverSelect \/ FactRollback PROVE UNCHANGED <<status, current, state>>
    BY <1>8 DEF RecoverSelect, FactRollback, jobVars, attemptVars
  <1> QED
    BY <1>0, <1>1, <1>2, <1>3, <1>4, <1>5, <1>6, <1>7, <1>8 DEF Next

-----------------------------------------------------------------------------
(* The inductive invariant.                                                *)

Inductive == TypeOK /\ AttemptHistory /\ OpenTransactions /\ OneExecution

\* The four parts together are inductive.
LEMMA InductiveStep == Inductive /\ [Next]_vars => Inductive'
  <1> SUFFICES ASSUME Inductive, [Next]_vars PROVE Inductive'
    OBVIOUS
  <1>1. CASE Next
    BY <1>1, TypeStep, HistoryStep, OpenTransactionsStep, OneExecutionStep DEF Inductive
  <1>2. CASE UNCHANGED vars
    <2>1. TypeOK'
      BY <1>2 DEF Inductive, TypeOK, vars, jobVars, attemptVars
    <2>2. AttemptHistory'
      BY <1>2 DEF Inductive, AttemptHistory, HistoryOf, vars, jobVars, attemptVars
    <2>3. OpenTransactions' /\ OneExecution'
      BY <1>2 DEF Inductive, OpenTransactions, OneExecution, vars, jobVars, attemptVars
    <2> QED BY <2>1, <2>2, <2>3 DEF Inductive
  <1> QED BY <1>1, <1>2

\* The inductive invariant holds in every state: types, the story the rows of a
\* job tell, the readings of open transactions, and single execution.
THEOREM InductiveHolds == Spec => []Inductive
  <1>1. Init => Inductive
    BY TypeInit, HistoryInit, OneExecutionInit DEF Inductive
  <1> QED BY <1>1, InductiveStep, PTL DEF Spec

\* TypeOK holds in every state, for every number of jobs, attempts and targets.
THEOREM TypeCorrect == Spec => []TypeOK
  <1>1. Inductive => TypeOK
    BY DEF Inductive
  <1> QED BY <1>1, InductiveHolds, PTL

\* No two workers ever hold authority over one job (_authorized, claim, recover).
THEOREM ExecutionIsSingle == Spec => []OneExecution
  <1>1. Inductive => OneExecution
    BY DEF Inductive
  <1> QED BY <1>1, InductiveHolds, PTL

\* recover, fail and claim never run a job again once the durable mark of an
\* external write is set.
THEOREM ExternalIsLast == Spec => []NoRerunAfterExternal
  <1>1. Inductive => NoRerunAfterExternal
    <2> SUFFICES ASSUME Inductive, NEW j \in Jobs, NEW n \in Attempts,
                        stage[j][n] = "EXTERNAL"
                 PROVE  attempt_no[j] = n /\ status[j] # "QUEUED"
      BY DEF NoRerunAfterExternal
    <2>1. HistoryOf(j)
      BY DEF Inductive, AttemptHistory
    <2>2. n = current[j] /\ n # 0
      BY <2>1, ConstantsAssumption DEF HistoryOf, Attempts
    <2> QED BY <2>1, <2>2 DEF HistoryOf
  <1> QED BY <1>1, InductiveHolds, PTL

-----------------------------------------------------------------------------
(* Unconfirmed executions are reported.                                    *)

\* Only the current attempt of a job that ran can be executing or unconfirmed.
LEMMA OtherAttemptsRest ==
    ASSUME TypeOK, AttemptHistory, NEW j \in Jobs, NEW n \in Attempts, n # current[j]
    PROVE  state[j][n] \in {"ABSENT", "STOPPED"} /\ stage[j][n] = "PREPARING"
  <1>1. HistoryOf(j)
    BY DEF AttemptHistory
  <1>2. n \in Nat \ {0}
    BY ConstantsAssumption DEF Attempts
  <1>3. attempt_no[j] \in Nat /\ status[j] \in JobStatus
    BY ConstantsAssumption DEF TypeOK
  <1>4. CASE status[j] = "ABSENT"
    BY <1>1, <1>2, <1>4 DEF HistoryOf
  <1>5. CASE status[j] = "QUEUED"
    BY <1>1, <1>2, <1>5 DEF HistoryOf
  <1>6. CASE status[j] \notin {"ABSENT", "QUEUED"}
    BY <1>1, <1>2, <1>3, <1>6 DEF HistoryOf
  <1> QED BY <1>4, <1>5, <1>6

\* fail and recover set the public status and the unconfirmed attempt together.
LEMMA UnconfirmedStep ==
    ASSUME Inductive, UnconfirmedIsReported, Next
    PROVE  UnconfirmedIsReported'
  <1> USE DEF Inductive
  <1>0. ASSUME UNCHANGED <<state, build>> PROVE UnconfirmedIsReported'
    BY <1>0 DEF UnconfirmedIsReported
  <1>1. ASSUME NEW j \in Jobs, Reserve(j) PROVE UnconfirmedIsReported'
    <2>1. \A n \in Attempts : state[j][n] = "ABSENT"
      BY <1>1, ConstantsAssumption DEF Reserve, AttemptHistory, HistoryOf, Attempts
    <2> QED BY <1>1, <2>1 DEF Reserve, UnconfirmedIsReported, TypeOK, attemptVars
  <1>2. ASSUME NEW j \in Jobs, Claim(j) PROVE UnconfirmedIsReported'
    <2>1. \A n \in Attempts : state'[j][n] # "EXPIRED_UNCONFIRMED"
      <3> SUFFICES ASSUME NEW n \in Attempts PROVE state'[j][n] # "EXPIRED_UNCONFIRMED"
        OBVIOUS
      <3>1. state[j][n] \in {"ABSENT", "STOPPED"}
        BY <1>2 DEF Claim, AttemptHistory, HistoryOf
      <3> QED BY <1>2, <3>1 DEF Claim, TypeOK
    <2>2. \A i \in Jobs \ {j} : state'[i] = state[i] /\ build'[i] = build[i]
      BY <1>2 DEF Claim, SyncBuilds, TypeOK
    <2> QED BY <2>1, <2>2 DEF UnconfirmedIsReported
  <1>3. ASSUME NEW j \in Jobs, FinishCommit(j) PROVE UnconfirmedIsReported'
    <2>1. \A n \in Attempts : state'[j][n] # "EXPIRED_UNCONFIRMED"
      BY <1>3, OtherAttemptsRest DEF FinishCommit, TypeOK
    <2>2. \A i \in Jobs \ {j} : state'[i] = state[i] /\ build'[i] = build[i]
      BY <1>3 DEF FinishCommit, SyncBuilds, TypeOK
    <2> QED BY <2>1, <2>2 DEF UnconfirmedIsReported
  <1>4. ASSUME NEW j \in Jobs, NEW n \in Issued(j),
               NEW code \in {"EXECUTION_OUTCOME_UNKNOWN", "OTHER"},
               NEW hasStopped \in BOOLEAN, Fail(j, n, code, hasStopped)
        PROVE  UnconfirmedIsReported'
    <2>1. n \in Attempts /\ n = current[j]
      BY <1>4, IssuedAreAttempts DEF Fail, AuthorizedFact, Authorized
    <2>2. \A i \in Jobs \ {j} : state'[i] = state[i] /\ build'[i] = build[i]
      BY <1>4 DEF Fail, SyncBuilds, TypeOK
    <2>3. CASE hasStopped
      <3>1. \A m \in Attempts : state'[j][m] # "EXPIRED_UNCONFIRMED"
        BY <1>4, <2>1, <2>3, OtherAttemptsRest DEF Fail, TypeOK
      <3> QED BY <2>2, <3>1 DEF UnconfirmedIsReported
    <2>4. CASE ~hasStopped
      <3>1. unknown'[j] \/ error'[j] = "EXECUTION_OUTCOME_UNKNOWN"
        BY <1>4, <2>4 DEF Fail, TypeOK
      <3>2. build'[j] = "OUTCOME_UNKNOWN"
        BY <1>4, <3>1 DEF Fail, SyncBuilds, PublicStatus
      <3> QED BY <2>2, <3>2 DEF UnconfirmedIsReported
    <2> QED BY <2>3, <2>4
  <1>5. ASSUME NEW j \in Jobs, NEW n \in Issued(j), ConfirmStopped(j, n)
        PROVE  UnconfirmedIsReported'
    BY <1>5, IssuedAreAttempts DEF ConfirmStopped, UnconfirmedIsReported, TypeOK
  <1>6. ASSUME RecoverApply PROVE UnconfirmedIsReported'
    <2> SUFFICES ASSUME NEW j \in Jobs, NEW n \in Attempts,
                        state'[j][n] = "EXPIRED_UNCONFIRMED"
                 PROVE  build'[j] = "OUTCOME_UNKNOWN"
      BY DEF UnconfirmedIsReported
    <2>1. CASE ~(j \in fact.jobs /\ RowFree(j))
      BY <1>6, <2>1 DEF RecoverApply, SyncBuilds, UnconfirmedIsReported
    <2>2. CASE j \in fact.jobs /\ RowFree(j)
      <3>1. n = current[j] /\ External(j)
        BY <1>6, <2>2, OtherAttemptsRest DEF RecoverApply, RecoveredState
      <3>2. unknown'[j]
        BY <1>6, <2>2, <3>1 DEF RecoverApply, Retryable
      <3> QED BY <1>6, <2>2, <3>2 DEF RecoverApply, SyncBuilds, PublicStatus
    <2> QED BY <2>1, <2>2
  <1>7. ASSUME NEW j \in Jobs,
               \/ BackoffEnds(j) \/ HeartbeatCommit(j) \/ HeartbeatAbort(j)
               \/ \E n \in Issued(j) :
                    \/ LeaseExpires(j, n) \/ HeartbeatBegin(j, n) \/ StartExternal(j, n)
                    \/ FinishBegin(j, n) \/ ClaimTarget(j, n) \/ ReleaseTarget(j, n)
                    \/ \E source \in Sources : AttachInput(j, n, source)
        PROVE  UNCHANGED <<state, build>>
    BY <1>7 DEF BackoffEnds, HeartbeatCommit, HeartbeatAbort, LeaseExpires,
                HeartbeatBegin, StartExternal, FinishBegin, AttachInput, ClaimTarget,
                ReleaseTarget, jobVars, attemptVars
  <1>8. ASSUME RecoverSelect \/ FactRollback PROVE UNCHANGED <<state, build>>
    BY <1>8 DEF RecoverSelect, FactRollback, jobVars, attemptVars
  <1> QED
    BY <1>0, <1>1, <1>2, <1>3, <1>4, <1>5, <1>6, <1>7, <1>8 DEF Next

\* A build whose execution may still be running is OUTCOME_UNKNOWN for its
\* callers: fail, recover and the trigger engine_sync_job agree on it.
THEOREM UnconfirmedReported == Spec => []UnconfirmedIsReported
  <1>1. Init => UnconfirmedIsReported
    BY DEF Init, UnconfirmedIsReported
  <1>2. Inductive /\ UnconfirmedIsReported /\ [Next]_vars => UnconfirmedIsReported'
    <2>1. ASSUME UnconfirmedIsReported, UNCHANGED vars PROVE UnconfirmedIsReported'
      BY <2>1 DEF UnconfirmedIsReported, vars, attemptVars
    <2> QED BY <2>1, UnconfirmedStep
  <1> QED BY <1>1, <1>2, InductiveHolds, PTL DEF Spec

-----------------------------------------------------------------------------
(* Physical targets.                                                       *)

\* Only claim and release of storage/execution_targets.py move ownership.
LEMMA OnlyTargetsMoveClaims ==
    ASSUME Next,
           ~ \E j \in Jobs : \E n \in Issued(j) : ClaimTarget(j, n) \/ ReleaseTarget(j, n)
    PROVE  UNCHANGED claimed
  <1>1. ASSUME NEW j \in Jobs,
               \/ Reserve(j) \/ Claim(j) \/ BackoffEnds(j)
               \/ HeartbeatCommit(j) \/ HeartbeatAbort(j) \/ FinishCommit(j)
        PROVE  UNCHANGED claimed
    BY <1>1 DEF Reserve, Claim, BackoffEnds, HeartbeatCommit, HeartbeatAbort, FinishCommit,
                jobVars
  <1>2. ASSUME NEW j \in Jobs, NEW n \in Issued(j),
               \/ LeaseExpires(j, n) \/ HeartbeatBegin(j, n) \/ StartExternal(j, n)
               \/ FinishBegin(j, n) \/ ConfirmStopped(j, n)
               \/ \E source \in Sources : AttachInput(j, n, source)
               \/ \E code \in {"EXECUTION_OUTCOME_UNKNOWN", "OTHER"},
                     hasStopped \in BOOLEAN : Fail(j, n, code, hasStopped)
        PROVE  UNCHANGED claimed
    BY <1>2 DEF LeaseExpires, HeartbeatBegin, StartExternal, FinishBegin, ConfirmStopped,
                AttachInput, Fail, jobVars
  <1>3. ASSUME RecoverSelect \/ RecoverApply \/ FactRollback PROVE UNCHANGED claimed
    BY <1>3 DEF RecoverSelect, RecoverApply, FactRollback, jobVars
  <1> QED BY <1>1, <1>2, <1>3 DEF Next

\* A claim that takes a target has freed every other owner of it.
LEMMA OneOwnerStep ==
    ASSUME Inductive, OneOwnerPerTarget, Next
    PROVE  OneOwnerPerTarget'
  <1>1. ASSUME NEW j \in Jobs, NEW n \in Issued(j), ClaimTarget(j, n)
        PROVE  OneOwnerPerTarget'
    <2>1. PICK freed \in SUBSET {i \in Owners(j) : ~HasActive(i)} :
             claimed' = [i \in Jobs |-> IF i \in freed THEN FALSE
                                       ELSE IF i = j /\ freed = Owners(j) THEN TRUE
                                       ELSE claimed[i]]
      BY <1>1 DEF ClaimTarget
    <2>2. CASE freed = Owners(j)
      <3>1. \A i \in Jobs \ {j} : claimed'[i] => TargetOf[i] # TargetOf[j]
        BY <2>1, <2>2 DEF Owners
      <3>2. \A i \in Jobs \ {j} : claimed'[i] => claimed[i]
        BY <2>1
      <3> QED BY <3>1, <3>2 DEF OneOwnerPerTarget
    <2>3. CASE freed # Owners(j)
      <3>1. \A i \in Jobs : claimed'[i] => claimed[i]
        BY <2>1, <2>3
      <3> QED BY <3>1 DEF OneOwnerPerTarget
    <2> QED BY <2>2, <2>3
  <1>2. ASSUME NEW j \in Jobs, NEW n \in Issued(j), ReleaseTarget(j, n)
        PROVE  OneOwnerPerTarget'
    <2>1. \A i \in Jobs : claimed'[i] => claimed[i]
      BY <1>2 DEF ReleaseTarget, Inductive, TypeOK
    <2> QED BY <2>1 DEF OneOwnerPerTarget
  <1>3. ASSUME UNCHANGED claimed PROVE OneOwnerPerTarget'
    BY <1>3 DEF OneOwnerPerTarget
  <1> QED BY <1>1, <1>2, <1>3, OnlyTargetsMoveClaims

\* At most one job owns a physical target (execution_targets.py claim).
THEOREM TargetHasOneOwner == Spec => []OneOwnerPerTarget
  <1>1. Init => OneOwnerPerTarget
    BY DEF Init, OneOwnerPerTarget
  <1>2. Inductive /\ OneOwnerPerTarget /\ [Next]_vars => OneOwnerPerTarget'
    <2>1. ASSUME OneOwnerPerTarget, UNCHANGED vars PROVE OneOwnerPerTarget'
      BY <2>1 DEF OneOwnerPerTarget, vars, jobVars
    <2> QED BY <2>1, OneOwnerStep
  <1> QED BY <1>1, <1>2, InductiveHolds, PTL DEF Spec

\* claim frees only owners without an active attempt, and release asks for the
\* proof that the current attempt, the only one that can be active, has stopped.
LEMMA KeepsTargetsStep == Inductive /\ [Next]_vars => [KeepsTargets]_vars
  <1> SUFFICES ASSUME Inductive, Next, NEW i \in Jobs, claimed[i], HasActive(i)
               PROVE  claimed'[i]
    BY DEF KeepsTargets
  <1>1. ASSUME NEW j \in Jobs, NEW n \in Issued(j), ClaimTarget(j, n)
        PROVE  claimed'[i]
    BY <1>1 DEF ClaimTarget
  <1>2. ASSUME NEW j \in Jobs, NEW n \in Issued(j), ReleaseTarget(j, n)
        PROVE  claimed'[i]
    <2>1. ~HasActive(j)
      <3>1. \A m \in Attempts : m # n => state[j][m] \in {"ABSENT", "STOPPED"}
        BY <1>2, OtherAttemptsRest DEF ReleaseTarget, Inductive
      <3> QED BY <1>2, <3>1 DEF ReleaseTarget, HasActive, ActiveStates
    <2> QED BY <1>2, <2>1 DEF ReleaseTarget, Inductive, TypeOK
  <1> QED BY <1>1, <1>2, OnlyTargetsMoveClaims

\* claim and release never take a target from a job with an executing or
\* unconfirmed attempt.
THEOREM TargetIsKept == Spec => TargetNotStolen
  BY KeepsTargetsStep, InductiveHolds, PTL DEF Spec, TargetNotStolen

-----------------------------------------------------------------------------
(* Results and lost attempts.                                              *)

\* The jobs of an open transaction are not over.
LEMMA FactSelectsRunning ==
    ASSUME Inductive, NEW j \in Jobs, status[j] # "RUNNING" PROVE j \notin fact.jobs
  BY DEF Inductive, OpenTransactions

\* finish, fail, recover and confirm_stopped leave a terminal job's public
\* result alone.
THEOREM ResultsStay == Spec => ResultsAreFinal
  <1>1. Inductive /\ [Next]_vars => [KeepsResults]_vars
    <2> SUFFICES ASSUME Inductive, Next, NEW i \in Jobs, status[i] \in Terminal
                 PROVE  UNCHANGED <<status[i], error[i], build[i], input[i]>>
      BY DEF KeepsResults
    <2> USE DEF Inductive, TypeOK, Terminal
    <2>1. ASSUME NEW j \in Jobs, Reserve(j)
          PROVE  UNCHANGED <<status[i], error[i], build[i], input[i]>>
      BY <2>1 DEF Reserve
    <2>2. ASSUME NEW j \in Jobs, Claim(j)
          PROVE  UNCHANGED <<status[i], error[i], build[i], input[i]>>
      BY <2>2 DEF Claim, SyncBuilds
    <2>3. ASSUME NEW j \in Jobs, FinishCommit(j)
          PROVE  UNCHANGED <<status[i], error[i], build[i], input[i]>>
      BY <2>3 DEF FinishCommit, Authorized, SyncBuilds
    <2>4. ASSUME NEW j \in Jobs, NEW n \in Issued(j),
                 NEW code \in {"EXECUTION_OUTCOME_UNKNOWN", "OTHER"},
                 NEW hasStopped \in BOOLEAN, Fail(j, n, code, hasStopped)
          PROVE  UNCHANGED <<status[i], error[i], build[i], input[i]>>
      BY <2>4 DEF Fail, AuthorizedFact, Authorized, SyncBuilds
    <2>5. ASSUME NEW j \in Jobs, NEW n \in Issued(j), NEW source \in Sources,
                 AttachInput(j, n, source)
          PROVE  UNCHANGED <<status[i], error[i], build[i], input[i]>>
      BY <2>5 DEF AttachInput, AuthorizedFact, Authorized
    <2>6. ASSUME RecoverApply
          PROVE  UNCHANGED <<status[i], error[i], build[i], input[i]>>
      BY <2>6, FactSelectsRunning DEF RecoverApply, SyncBuilds
    <2>7. ASSUME NEW j \in Jobs,
                 \/ BackoffEnds(j) \/ HeartbeatCommit(j) \/ HeartbeatAbort(j)
                 \/ \E n \in Issued(j) :
                      \/ LeaseExpires(j, n) \/ HeartbeatBegin(j, n) \/ StartExternal(j, n)
                      \/ FinishBegin(j, n) \/ ConfirmStopped(j, n)
                      \/ ClaimTarget(j, n) \/ ReleaseTarget(j, n)
          PROVE  UNCHANGED <<status, error, build, input>>
      BY <2>7 DEF BackoffEnds, HeartbeatCommit, HeartbeatAbort, LeaseExpires,
                  HeartbeatBegin, StartExternal, FinishBegin, ConfirmStopped, ClaimTarget,
                  ReleaseTarget, jobVars, attemptVars
    <2>8. ASSUME RecoverSelect \/ FactRollback PROVE UNCHANGED <<status, error, build, input>>
      BY <2>8 DEF RecoverSelect, FactRollback, jobVars, attemptVars
    <2> QED BY <2>1, <2>2, <2>3, <2>4, <2>5, <2>6, <2>7, <2>8 DEF Next
  <1> QED BY <1>1, InductiveHolds, PTL DEF Spec, ResultsAreFinal

\* Every operation leaves an attempt that lost its authority as it is.
LEMMA LostAttemptsStep == Inductive /\ [Next]_vars => [KeepsLostAttempts]_vars
  <1> DEFINE Kept(i, m) ==
        /\ UNCHANGED stage[i][m]
        /\ stopped[i][m] => stopped'[i][m]
        /\ \/ UNCHANGED state[i][m]
           \/ state[i][m] = "EXPIRED_UNCONFIRMED" /\ state'[i][m] = "STOPPED"
  <1> SUFFICES ASSUME Inductive, Next, NEW i \in Jobs, NEW m \in Attempts,
                      state[i][m] \notin {"ABSENT", "EXECUTING"}
               PROVE  Kept(i, m)
    BY DEF KeepsLostAttempts
  <1> USE DEF Inductive, TypeOK
  <1>1. ASSUME NEW j \in Jobs, Claim(j) PROVE Kept(i, m)
    <2>1. attempt_no[j] \in Nat /\ state[j][attempt_no[j] + 1] = "ABSENT"
      BY <1>1, ConstantsAssumption DEF Claim, AttemptHistory, HistoryOf, Attempts
    <2> QED BY <1>1, <2>1 DEF Claim
  <1>2. ASSUME NEW j \in Jobs, FinishCommit(j) PROVE Kept(i, m)
    BY <1>2 DEF FinishCommit, Authorized
  <1>3. ASSUME NEW j \in Jobs, NEW n \in Issued(j),
               NEW code \in {"EXECUTION_OUTCOME_UNKNOWN", "OTHER"},
               NEW hasStopped \in BOOLEAN, Fail(j, n, code, hasStopped)
        PROVE  Kept(i, m)
    BY <1>3 DEF Fail, AuthorizedFact, Authorized
  <1>4. ASSUME NEW j \in Jobs, NEW n \in Issued(j), StartExternal(j, n)
        PROVE  Kept(i, m)
    BY <1>4 DEF StartExternal, AuthorizedFact, Authorized
  <1>5. ASSUME NEW j \in Jobs, NEW n \in Issued(j), ConfirmStopped(j, n)
        PROVE  Kept(i, m)
    BY <1>5, IssuedAreAttempts DEF ConfirmStopped
  <1>6. ASSUME RecoverApply PROVE Kept(i, m)
    <2>1. ~(i \in fact.jobs /\ m = current[i])
      BY DEF OpenTransactions, OneExecution
    <2> QED BY <1>6, <2>1 DEF RecoverApply
  <1>7. ASSUME NEW j \in Jobs,
               \/ Reserve(j) \/ BackoffEnds(j) \/ HeartbeatCommit(j) \/ HeartbeatAbort(j)
               \/ \E n \in Issued(j) :
                    \/ LeaseExpires(j, n) \/ HeartbeatBegin(j, n) \/ FinishBegin(j, n)
                    \/ ClaimTarget(j, n) \/ ReleaseTarget(j, n)
                    \/ \E source \in Sources : AttachInput(j, n, source)
        PROVE  UNCHANGED <<state, stage, stopped>>
    BY <1>7 DEF Reserve, BackoffEnds, HeartbeatCommit, HeartbeatAbort, LeaseExpires,
                HeartbeatBegin, FinishBegin, AttachInput, ClaimTarget,
                ReleaseTarget, jobVars, attemptVars
  <1>8. ASSUME RecoverSelect \/ FactRollback PROVE UNCHANGED <<state, stage, stopped>>
    BY <1>8 DEF RecoverSelect, FactRollback, jobVars, attemptVars
  <1> QED BY <1>1, <1>2, <1>3, <1>4, <1>5, <1>6, <1>7, <1>8 DEF Next

\* An attempt that lost its authority only ever gains the proof of its stop.
THEOREM LostAttemptsStay == Spec => LostAttemptsAreFrozen
  BY LostAttemptsStep, InductiveHolds, PTL DEF Spec, LostAttemptsAreFrozen

-----------------------------------------------------------------------------
(* The busy pointer of a project.                                          *)

Occupies(j) ==
    \/ status[j] \in {"QUEUED", "RUNNING"}
    \/ \E n \in Attempts : stage[j][n] = "EXTERNAL" /\ ~stopped[j][n]

\* _release_project leaves the pointer to a job whose stop is not proven.
LEMMA ReleaseSpares ==
    ASSUME TypeOK, NEW S, ReleaseProjects(S), NEW j \in Jobs,
           busy[ProjectOf[j]] = j, j \notin S \/ ~StopProven(j)
    PROVE  busy'[ProjectOf[j]] = j
  BY ConstantsAssumption DEF ReleaseProjects

\* Every transaction keeps the pointer on a write job that may still write.
LEMMA BusyStep ==
    ASSUME Inductive, BusyUntilStopProven, Next
    PROVE  BusyUntilStopProven'
  <1> SUFFICES ASSUME NEW i \in WriteJobs, Occupies(i)' PROVE busy'[ProjectOf[i]] = i
    BY DEF BusyUntilStopProven, Occupies
  <1> USE DEF Inductive, TypeOK
  <1>0. i \in Jobs /\ (Occupies(i) => busy[ProjectOf[i]] = i)
    BY ConstantsAssumption DEF BusyUntilStopProven, Occupies
  <1>1. ASSUME NEW j \in Jobs, Reserve(j) PROVE busy'[ProjectOf[i]] = i
    <2>1. CASE i = j
      BY <1>0, <1>1, <2>1, ConstantsAssumption DEF Reserve
    <2>2. CASE i # j
      <3>1. Occupies(i)
        BY <1>0, <1>1, <2>2 DEF Reserve, Occupies, attemptVars
      <3> QED BY <1>0, <1>1, <3>1, <2>2, ConstantsAssumption DEF Reserve
    <2> QED BY <2>1, <2>2
  <1>2. ASSUME NEW j \in Jobs, Claim(j) PROVE busy'[ProjectOf[i]] = i
    <2>1. Occupies(i)
      BY <1>0, <1>2 DEF Claim, Occupies
    <2> QED BY <1>0, <1>2, <2>1 DEF Claim
  <1>3. ASSUME NEW j \in Jobs, FinishCommit(j) PROVE busy'[ProjectOf[i]] = i
    <2>1. Occupies(i)
      BY <1>0, <1>3 DEF FinishCommit, Authorized, Occupies
    <2>2. i # j \/ ~StopProven(i)
      BY <1>0, <1>3 DEF FinishCommit, StopProven, Occupies
    <2> QED BY <1>0, <1>3, <2>1, <2>2, ReleaseSpares DEF FinishCommit
  <1>4. ASSUME NEW j \in Jobs, NEW n \in Issued(j),
               NEW code \in {"EXECUTION_OUTCOME_UNKNOWN", "OTHER"},
               NEW hasStopped \in BOOLEAN, Fail(j, n, code, hasStopped)
        PROVE  busy'[ProjectOf[i]] = i
    <2>1. Occupies(i)
      BY <1>0, <1>4 DEF Fail, AuthorizedFact, Authorized, Occupies
    <2>2. i # j \/ ~StopProven(i)
      BY <1>0, <1>4 DEF Fail, StopProven, Occupies
    <2> QED BY <1>0, <1>4, <2>1, <2>2, ReleaseSpares DEF Fail
  <1>5. ASSUME NEW j \in Jobs, NEW n \in Issued(j), ConfirmStopped(j, n)
        PROVE  busy'[ProjectOf[i]] = i
    <2>1. Occupies(i)
      BY <1>0, <1>5, IssuedAreAttempts DEF ConfirmStopped, jobVars, Occupies
    <2>2. CASE status[j] \in Terminal
      <3>1. i # j \/ ~StopProven(i)
        BY <1>0, <1>5, <2>2 DEF ConfirmStopped, StopProven, Occupies, jobVars, Terminal
      <3> QED BY <1>0, <1>5, <2>1, <2>2, <3>1, ReleaseSpares DEF ConfirmStopped
    <2>3. CASE status[j] \notin Terminal
      BY <1>0, <1>5, <2>1, <2>3 DEF ConfirmStopped
    <2> QED BY <2>2, <2>3
  <1>6. ASSUME RecoverApply PROVE busy'[ProjectOf[i]] = i
    <2> DEFINE over == {j \in fact.jobs : RowFree(j) /\ ~Retryable(j)}
    <2>1. Occupies(i)
      BY <1>0, <1>6 DEF RecoverApply, OpenTransactions, Occupies
    <2>2. i \notin over \/ ~StopProven(i)
      BY <1>0, <1>6 DEF RecoverApply, StopProven, Occupies
    <2>3. ReleaseProjects(over)
      BY <1>6 DEF RecoverApply, ReleaseProjects
    <2> QED BY <1>0, <2>1, <2>2, <2>3, ReleaseSpares
  <1>7. ASSUME NEW j \in Jobs, NEW n \in Issued(j), StartExternal(j, n)
        PROVE  busy'[ProjectOf[i]] = i
    <2>1. Occupies(i)
      BY <1>0, <1>7 DEF StartExternal, AuthorizedFact, Authorized, Occupies, jobVars
    <2> QED BY <1>0, <1>7, <2>1 DEF StartExternal
  <1>8. ASSUME UNCHANGED <<status, stage, stopped, busy>> PROVE busy'[ProjectOf[i]] = i
    BY <1>0, <1>8 DEF Occupies
  <1>9. ASSUME NEW j \in Jobs,
               \/ BackoffEnds(j) \/ HeartbeatCommit(j) \/ HeartbeatAbort(j)
               \/ \E n \in Issued(j) :
                    \/ LeaseExpires(j, n) \/ HeartbeatBegin(j, n) \/ FinishBegin(j, n)
                    \/ ClaimTarget(j, n) \/ ReleaseTarget(j, n)
                    \/ \E source \in Sources : AttachInput(j, n, source)
        PROVE  UNCHANGED <<status, stage, stopped, busy>>
    BY <1>9 DEF BackoffEnds, HeartbeatCommit, HeartbeatAbort, LeaseExpires,
                HeartbeatBegin, FinishBegin, AttachInput, ClaimTarget,
                ReleaseTarget, jobVars, attemptVars
  <1>10. ASSUME RecoverSelect \/ FactRollback
         PROVE  UNCHANGED <<status, stage, stopped, busy>>
    BY <1>10 DEF RecoverSelect, FactRollback, jobVars, attemptVars
  <1> QED
    BY <1>1, <1>2, <1>3, <1>4, <1>5, <1>6, <1>7, <1>8, <1>9, <1>10 DEF Next

\* A project stays busy with its write job until the job is over and every
\* external execution of it is known to have stopped (_release_project).
THEOREM BusyIsKept == Spec => []BusyUntilStopProven
  <1>1. Init => BusyUntilStopProven
    BY ConstantsAssumption DEF Init, BusyUntilStopProven
  <1>2. Inductive /\ BusyUntilStopProven /\ [Next]_vars => BusyUntilStopProven'
    <2>1. ASSUME BusyUntilStopProven, UNCHANGED vars PROVE BusyUntilStopProven'
      BY <2>1 DEF BusyUntilStopProven, vars, jobVars, attemptVars
    <2> QED BY <2>1, BusyStep
  <1> QED BY <1>1, <1>2, InductiveHolds, PTL DEF Spec

-----------------------------------------------------------------------------
(* JobStore implements BuildLifecycle.                                      *)

(* What the store shows of a build.                                        *)

\* engine_build shows what the columns of the job say; until it ends, they say
\* that nothing went wrong; and it has no input before it runs.
ShowsColumns(j) ==
    /\ build[j] = PublicStatus(status[j], error[j], unknown[j])
    /\ status[j] \notin Terminal => error[j] = "NONE" /\ ~unknown[j]
    /\ status[j] = "ABSENT" => input[j] = None

\* finish only seals the output of a job that has its input.
FinishHasInput == fact.op = "FINISH" => \A j \in fact.jobs : input[j] # None

Shown == FinishHasInput /\ \A j \in Jobs : ShowsColumns(j)

\* Every transaction that changes the columns of a job brings its public status
\* up to date; none takes an input away.
LEMMA ShownStep ==
    ASSUME Inductive, Shown, Next
    PROVE  Shown'
  <1> USE DEF Inductive
  <1> DEFINE columns == <<status, error, unknown, input, build>>
  <1>0. ASSUME UNCHANGED <<columns, fact>> PROVE Shown'
    BY <1>0 DEF Shown, FinishHasInput, ShowsColumns
  <1>1. ASSUME NEW j \in Jobs, Reserve(j) PROVE Shown'
    BY <1>1 DEF Reserve, Shown, FinishHasInput, ShowsColumns, PublicStatus, TypeOK, Terminal
  <1>2. ASSUME NEW j \in Jobs, Claim(j) PROVE Shown'
    BY <1>2 DEF Claim, SyncBuilds, Shown, FinishHasInput, ShowsColumns, TypeOK, Terminal
  <1>3. ASSUME NEW j \in Jobs, FinishCommit(j) PROVE Shown'
    BY <1>3 DEF FinishCommit, NoFact, SyncBuilds, Shown, FinishHasInput, ShowsColumns,
                TypeOK, Terminal
  <1>4. ASSUME NEW j \in Jobs, NEW n \in Issued(j), NEW source \in Sources,
               AttachInput(j, n, source)
        PROVE  Shown'
    BY <1>4 DEF AttachInput, AuthorizedFact, Authorized, FactOn, FactFree, NoFact,
                Shown, FinishHasInput, ShowsColumns, TypeOK
  <1>5. ASSUME NEW j \in Jobs, NEW n \in Issued(j),
               NEW code \in {"EXECUTION_OUTCOME_UNKNOWN", "OTHER"},
               NEW hasStopped \in BOOLEAN, Fail(j, n, code, hasStopped)
        PROVE  Shown'
    BY <1>5 DEF Fail, SyncBuilds, Shown, FinishHasInput, ShowsColumns, TypeOK, Terminal
  <1>6. ASSUME RecoverApply PROVE Shown'
    <2>1. FinishHasInput'
      BY <1>6 DEF RecoverApply, NoFact, FinishHasInput
    <2>2. ASSUME NEW i \in Jobs PROVE ShowsColumns(i)'
      <3>1. ShowsColumns(i)
        BY DEF Shown
      <3>2. CASE ~(i \in fact.jobs /\ RowFree(i))
        BY <1>6, <3>1, <3>2 DEF RecoverApply, SyncBuilds, ShowsColumns
      <3>3. CASE i \in fact.jobs /\ RowFree(i)
        <4>1. status[i] = "RUNNING"
          BY <3>3 DEF OpenTransactions
        <4>2. build'[i] = PublicStatus(status'[i], error'[i], unknown'[i])
          BY <1>6, <3>3 DEF RecoverApply, SyncBuilds
        <4>3. CASE Retryable(i)
          <5>1. status'[i] = "QUEUED" /\ error'[i] = error[i] /\ unknown'[i] = unknown[i]
            BY <1>6, <3>3, <4>3 DEF RecoverApply
          <5> QED BY <3>1, <4>1, <4>2, <5>1 DEF ShowsColumns, Terminal
        <4>4. CASE ~Retryable(i)
          <5>1. status'[i] = "FAILED"
            BY <1>6, <3>3, <4>4 DEF RecoverApply
          <5> QED BY <4>2, <5>1 DEF ShowsColumns, Terminal
        <4> QED BY <4>3, <4>4
      <3> QED BY <3>2, <3>3
    <2> QED BY <2>1, <2>2 DEF Shown
  <1>7. ASSUME NEW j \in Jobs, NEW n \in Issued(j), FinishBegin(j, n) PROVE Shown'
    BY <1>7 DEF FinishBegin, Shown, FinishHasInput, ShowsColumns, jobVars
  <1>8. ASSUME RecoverSelect \/ FactRollback PROVE Shown'
    BY <1>8 DEF RecoverSelect, FactRollback, NoFact, Shown, FinishHasInput, ShowsColumns,
                jobVars
  <1>9. ASSUME NEW j \in Jobs,
               \/ BackoffEnds(j) \/ HeartbeatCommit(j) \/ HeartbeatAbort(j)
               \/ \E n \in Issued(j) :
                    \/ LeaseExpires(j, n) \/ HeartbeatBegin(j, n) \/ StartExternal(j, n)
                    \/ ConfirmStopped(j, n) \/ ClaimTarget(j, n) \/ ReleaseTarget(j, n)
        PROVE  UNCHANGED <<columns, fact>>
    BY <1>9 DEF BackoffEnds, HeartbeatCommit, HeartbeatAbort, LeaseExpires,
                HeartbeatBegin, StartExternal, ConfirmStopped, ClaimTarget, ReleaseTarget,
                jobVars, attemptVars
  <1> QED
    BY <1>0, <1>1, <1>2, <1>3, <1>4, <1>5, <1>6, <1>7, <1>8, <1>9 DEF Next

\* The columns and the public status of a build never part (engine_sync_job).
LEMMA ShownHolds == Spec => []Shown
  <1>1. Init => Shown
    BY DEF Init, Shown, FinishHasInput, ShowsColumns, PublicStatus, Terminal
  <1>2. Inductive /\ Shown /\ [Next]_vars => Shown'
    <2>1. ASSUME Shown, UNCHANGED vars PROVE Shown'
      BY <2>1 DEF Shown, FinishHasInput, ShowsColumns, vars, jobVars
    <2> QED BY <2>1, ShownStep
  <1> QED BY <1>1, <1>2, InductiveHolds, PTL DEF Spec

-----------------------------------------------------------------------------
(* Refinement.                                                             *)

Written(j) == \E n \in Attempts : stage[j][n] = "EXTERNAL"

Entries == Lifecycle!Entry

\* The ledger holds an entry for each build, before a step and after it.
LEMMA LedgerEntries ==
    ASSUME TypeOK, TypeOK', NEW i \in Jobs
    PROVE  Ledger[i] \in Entries /\ Ledger'[i] \in Entries
  <1>1. Ledger[i] \in Entries
    BY DEF TypeOK, BuildStatus, Ledger, HasActive, Entries, Lifecycle!Entry, Lifecycle!Public
  <1>2. Ledger'[i] \in Entries
    BY DEF TypeOK, BuildStatus, Ledger, HasActive, Entries, Lifecycle!Entry, Lifecycle!Public
  <1> QED BY <1>1, <1>2

\* An entry of the ledger, field by field.
LEMMA EntryFields ==
    ASSUME NEW i \in Jobs
    PROVE  /\ Ledger[i].status = build[i] /\ Ledger'[i].status = build'[i]
           /\ Ledger[i].tries = attempt_no[i] /\ Ledger'[i].tries = attempt_no'[i]
           /\ Ledger[i].open <=> HasActive(i)
           /\ Ledger'[i].open <=> HasActive(i)'
           /\ Ledger[i].written <=> Written(i)
           /\ Ledger'[i].written <=> Written(i)'
           /\ Ledger[i].source = input[i] /\ Ledger'[i].source = input'[i]
  BY DEF Ledger, Written

\* What a step that leaves the columns of a build alone does to its entry.
LEMMA EntryRests ==
    ASSUME NEW i \in Jobs,
           UNCHANGED <<build[i], attempt_no[i], state[i], stage[i], input[i]>>
    PROVE  Ledger'[i] = Ledger[i]
  BY DEF Ledger, HasActive

\* Only the current attempt of a job can be active, or have written.
LEMMA CurrentActs ==
    ASSUME TypeOK, AttemptHistory, NEW j \in Jobs
    PROVE  /\ HasActive(j) <=> \E n \in Attempts : n = current[j] /\ state[j][n] \in ActiveStates
           /\ Written(j) <=> \E n \in Attempts : n = current[j] /\ stage[j][n] = "EXTERNAL"
  BY OtherAttemptsRest DEF HasActive, Written, ActiveStates

-----------------------------------------------------------------------------
(* The moves of an entry, field by field.                                  *)

\* A build comes into being.
LEMMA AcceptedMove ==
    ASSUME NEW e \in Entries, NEW f \in Entries, e.status = "ABSENT", e.tries = 0, ~e.open,
           ~e.written, e.source = None, f.status = "QUEUED", f.tries = 0, ~f.open,
           ~f.written, f.source = None
    PROVE  Lifecycle!Move(e, f)
  <1>1. e = Lifecycle!NotAccepted /\ f = [Lifecycle!NotAccepted EXCEPT !.status = "QUEUED"]
    BY DEF Entries, Lifecycle!Entry, Lifecycle!NotAccepted
  <1> QED BY <1>1 DEF Lifecycle!Move, Lifecycle!Accepted

\* An execution begins.
LEMMA BegunMove ==
    ASSUME NEW e \in Entries, NEW f \in Entries, e.status = "QUEUED", e.tries < MaxAttempts,
           f.status = "RUNNING", f.tries = e.tries + 1, f.open, f.written <=> e.written,
           f.source = e.source
    PROVE  Lifecycle!Move(e, f)
  <1>1. f = [e EXCEPT !.status = "RUNNING", !.tries = @ + 1, !.open = TRUE]
    BY DEF Entries, Lifecycle!Entry
  <1> QED BY <1>1 DEF Lifecycle!Move, Lifecycle!Begun

\* The source is fixed.
LEMMA SourceMove ==
    ASSUME NEW e \in Entries, NEW f \in Entries, e.status = "RUNNING", e.source = None,
           f.status = "RUNNING", f.tries = e.tries, f.open <=> e.open,
           f.written <=> e.written, f.source \in Sources
    PROVE  Lifecycle!Move(e, f)
  <1>1. f = [e EXCEPT !.source = f.source]
    BY DEF Entries, Lifecycle!Entry
  <1> QED BY <1>1 DEF Lifecycle!Move, Lifecycle!SourceFixed

\* A write is announced.
LEMMA WriteMove ==
    ASSUME NEW e \in Entries, NEW f \in Entries, e.status = "RUNNING", f.status = "RUNNING",
           f.tries = e.tries, f.open <=> e.open, f.written, f.source = e.source
    PROVE  Lifecycle!Move(e, f)
  <1>1. f = [e EXCEPT !.written = TRUE]
    BY DEF Entries, Lifecycle!Entry
  <1> QED BY <1>1 DEF Lifecycle!Move, Lifecycle!WriteAnnounced

\* An execution that has not written is given up for another.
LEMMA RetriedMove ==
    ASSUME NEW e \in Entries, NEW f \in Entries, e.status = "RUNNING", ~e.written,
           e.tries < MaxAttempts, f.status = "QUEUED", f.tries = e.tries, ~f.open,
           ~f.written, f.source = e.source
    PROVE  Lifecycle!Move(e, f)
  <1>1. f = [e EXCEPT !.status = "QUEUED", !.open = FALSE]
    BY DEF Entries, Lifecycle!Entry
  <1> QED BY <1>1 DEF Lifecycle!Move, Lifecycle!Retried

\* A verdict is reached.
LEMMA EndedMove ==
    ASSUME NEW e \in Entries, NEW f \in Entries, e.status = "RUNNING",
           f.status \in {"SUCCEEDED", "FAILED", "OUTCOME_UNKNOWN"}, f.tries = e.tries,
           f.open => f.status = "OUTCOME_UNKNOWN", f.written <=> e.written,
           f.source = e.source, f.status = "SUCCEEDED" => e.source # None
    PROVE  Lifecycle!Move(e, f)
  <1>1. f = [e EXCEPT !.status = f.status, !.open = f.open] /\ f.open \in BOOLEAN
    BY DEF Entries, Lifecycle!Entry
  <1> QED BY <1>1 DEF Lifecycle!Move, Lifecycle!Ended

\* An unknown execution is found to be over.
LEMMA ProvenMove ==
    ASSUME NEW e \in Entries, NEW f \in Entries, e.status = "OUTCOME_UNKNOWN", e.open,
           f.status = "OUTCOME_UNKNOWN", f.tries = e.tries, ~f.open, f.written <=> e.written,
           f.source = e.source
    PROVE  Lifecycle!Move(e, f)
  <1>1. f = [e EXCEPT !.open = FALSE]
    BY DEF Entries, Lifecycle!Entry
  <1> QED BY <1>1 DEF Lifecycle!Move, Lifecycle!Proven

-----------------------------------------------------------------------------
(* The operations of the store as moves.                                   *)

EntryMoves(i) == Ledger'[i] # Ledger[i] => Lifecycle!Move(Ledger[i], Ledger'[i])

\* reserve accepts a build.
LEMMA ReserveAccepts ==
    ASSUME Inductive, Shown, TypeOK', NEW j \in Jobs, Reserve(j), NEW i \in Jobs
    PROVE  EntryMoves(i)
  <1>1. CASE i # j
    BY <1>1, EntryRests DEF Reserve, attemptVars, EntryMoves, Inductive, TypeOK
  <1>2. CASE i = j
    <2>1. /\ build[i] = "ABSENT" /\ attempt_no[i] = 0 /\ input[i] = None
          /\ ~HasActive(i) /\ ~Written(i)
      BY <1>2, CurrentActs, ConstantsAssumption
      DEF Reserve, Shown, ShowsColumns, PublicStatus, Terminal, Inductive, AttemptHistory,
          HistoryOf, Attempts
    <2>2. /\ build'[i] = "QUEUED" /\ attempt_no'[i] = 0 /\ input'[i] = None
          /\ ~HasActive(i)' /\ ~Written(i)'
      BY <1>2, <2>1 DEF Reserve, attemptVars, HasActive, Written, Inductive, TypeOK
    <2> QED BY <2>1, <2>2, EntryFields, LedgerEntries, AcceptedMove DEF EntryMoves, Inductive
  <1> QED BY <1>1, <1>2

\* claim begins an execution.
LEMMA ClaimBegins ==
    ASSUME Inductive, Shown, TypeOK', NEW j \in Jobs, Claim(j), NEW i \in Jobs
    PROVE  EntryMoves(i)
  <1>1. CASE i # j
    BY <1>1, EntryRests DEF Claim, SyncBuilds, EntryMoves, Inductive, TypeOK
  <1>2. CASE i = j
    <2>1. /\ status[i] = "QUEUED" /\ attempt_no[i] < MaxAttempts
          /\ attempt_no[i] \in Nat /\ attempt_no[i] + 1 \in Attempts
      BY <1>2, ConstantsAssumption
      DEF Claim, Inductive, TypeOK, AttemptHistory, HistoryOf, Attempts
    <2>2. build[i] = "QUEUED" /\ build'[i] = "RUNNING"
      BY <1>2, <2>1
      DEF Claim, SyncBuilds, Shown, ShowsColumns, PublicStatus, Terminal, Inductive, TypeOK
    <2>3. /\ attempt_no'[i] = attempt_no[i] + 1 /\ input'[i] = input[i]
          /\ Written(i)' <=> Written(i)
      BY <1>2 DEF Claim, Written, Inductive, TypeOK
    <2>4. HasActive(i)'
      BY <1>2, <2>1 DEF Claim, HasActive, ActiveStates, Inductive, TypeOK
    <2> QED BY <2>1, <2>2, <2>3, <2>4, EntryFields, LedgerEntries, BegunMove
            DEF EntryMoves, Inductive
  <1> QED BY <1>1, <1>2

\* The public status of a build that runs.
LEMMA RunningIsShown ==
    ASSUME Shown, NEW i \in Jobs, status[i] = "RUNNING" PROVE build[i] = "RUNNING"
  BY DEF Shown, ShowsColumns, PublicStatus, Terminal

\* phase(external=True) announces a write.
LEMMA StartAnnounces ==
    ASSUME Inductive, Shown, TypeOK', NEW j \in Jobs, NEW n \in Attempts,
           StartExternal(j, n), NEW i \in Jobs
    PROVE  EntryMoves(i)
  <1>1. CASE i # j
    BY <1>1, EntryRests DEF StartExternal, jobVars, EntryMoves, Inductive, TypeOK
  <1>2. CASE i = j
    <2>1. build[i] = "RUNNING" /\ build'[i] = build[i] /\ attempt_no'[i] = attempt_no[i]
      BY <1>2, RunningIsShown DEF StartExternal, AuthorizedFact, Authorized, jobVars
    <2>2. Written(i)' /\ (HasActive(i)' <=> HasActive(i)) /\ input'[i] = input[i]
      BY <1>2 DEF StartExternal, jobVars, Written, HasActive, Inductive, TypeOK
    <2> QED BY <2>1, <2>2, EntryFields, LedgerEntries, WriteMove DEF EntryMoves, Inductive
  <1> QED BY <1>1, <1>2

\* attach_input fixes the source, once.
LEMMA AttachFixes ==
    ASSUME Inductive, Shown, TypeOK', NEW j \in Jobs, NEW n \in Attempts,
           NEW source \in Sources, AttachInput(j, n, source), NEW i \in Jobs
    PROVE  EntryMoves(i)
  <1>1. CASE i # j \/ input[j] = source
    BY <1>1, EntryRests DEF AttachInput, attemptVars, EntryMoves, Inductive, TypeOK
  <1>2. CASE i = j /\ input[j] = None
    <2>1. build[i] = "RUNNING" /\ build'[i] = build[i] /\ attempt_no'[i] = attempt_no[i]
      BY <1>2, RunningIsShown DEF AttachInput, AuthorizedFact, Authorized
    <2>2. /\ Written(i)' <=> Written(i)
          /\ HasActive(i)' <=> HasActive(i)
          /\ input'[i] = source
      BY <1>2 DEF AttachInput, attemptVars, Written, HasActive, Inductive, TypeOK
    <2> QED BY <1>2, <2>1, <2>2, EntryFields, LedgerEntries, SourceMove
            DEF EntryMoves, Inductive
  <1> QED BY <1>1, <1>2 DEF AttachInput

\* finish ends a build in success, from the source it was given.
LEMMA FinishEnds ==
    ASSUME Inductive, Shown, TypeOK', NEW j \in Jobs, FinishCommit(j), NEW i \in Jobs
    PROVE  EntryMoves(i)
  <1>1. CASE i # j
    BY <1>1, EntryRests DEF FinishCommit, SyncBuilds, EntryMoves, Inductive, TypeOK
  <1>2. CASE i = j
    <2>1. build[i] = "RUNNING" /\ input[i] # None
      BY <1>2, RunningIsShown DEF FinishCommit, Authorized, Shown, FinishHasInput
    <2>2. build'[i] = "SUCCEEDED"
      BY <1>2 DEF FinishCommit, SyncBuilds, PublicStatus, Inductive, TypeOK
    <2>3. /\ attempt_no'[i] = attempt_no[i] /\ input'[i] = input[i]
          /\ Written(i)' <=> Written(i)
      BY <1>2 DEF FinishCommit, Written
    <2>4. ~HasActive(i)'
      <3>1. \A m \in Attempts : m # current[i] => state'[i][m] \in {"ABSENT", "STOPPED"}
        BY <1>2, OtherAttemptsRest DEF FinishCommit, Inductive, TypeOK
      <3>2. \A m \in Attempts : m = current[i] => state'[i][m] = "SUCCEEDED"
        BY <1>2 DEF FinishCommit, Inductive, TypeOK
      <3> QED BY <3>1, <3>2 DEF HasActive, ActiveStates
    <2> QED BY <2>1, <2>2, <2>3, <2>4, EntryFields, LedgerEntries, EndedMove
            DEF EntryMoves, Inductive
  <1> QED BY <1>1, <1>2

\* fail ends a build, in OUTCOME_UNKNOWN if its execution may go on.
LEMMA FailEnds ==
    ASSUME Inductive, Shown, TypeOK', NEW j \in Jobs, NEW n \in Attempts,
           NEW code \in {"EXECUTION_OUTCOME_UNKNOWN", "OTHER"},
           NEW hasStopped \in BOOLEAN, Fail(j, n, code, hasStopped), NEW i \in Jobs
    PROVE  EntryMoves(i)
  <1>1. CASE i # j
    BY <1>1, EntryRests DEF Fail, SyncBuilds, EntryMoves, Inductive, TypeOK
  <1>2. CASE i = j
    <2>1. build[i] = "RUNNING" /\ n = current[i]
      BY <1>2, RunningIsShown DEF Fail, AuthorizedFact, Authorized
    <2>2. build'[i] = PublicStatus("FAILED", code, unknown'[i])
      BY <1>2 DEF Fail, SyncBuilds, Inductive, TypeOK
    <2>3. build'[i] \in {"FAILED", "OUTCOME_UNKNOWN"}
      BY <2>2 DEF PublicStatus
    <2>4. /\ attempt_no'[i] = attempt_no[i] /\ input'[i] = input[i]
          /\ Written(i)' <=> Written(i)
      BY <1>2 DEF Fail, Written
    <2>5. HasActive(i)' => build'[i] = "OUTCOME_UNKNOWN"
      <3>1. CASE hasStopped
        <4>1. \A m \in Attempts : state'[i][m] \in {"ABSENT", "STOPPED", "FAILED"}
          BY <1>2, <2>1, <3>1, OtherAttemptsRest DEF Fail, Inductive, TypeOK
        <4> QED BY <4>1 DEF HasActive, ActiveStates
      <3>2. CASE ~hasStopped
        <4>1. unknown'[i] \/ code = "EXECUTION_OUTCOME_UNKNOWN"
          BY <1>2, <3>2 DEF Fail, Inductive, TypeOK
        <4> QED BY <2>2, <4>1 DEF PublicStatus
      <3> QED BY <3>1, <3>2
    <2> QED BY <2>1, <2>3, <2>4, <2>5, EntryFields, LedgerEntries, EndedMove
            DEF EntryMoves, Inductive
  <1> QED BY <1>1, <1>2

\* confirm_stopped proves that an unknown execution is over.
LEMMA ConfirmProves ==
    ASSUME Inductive, Shown, UnconfirmedIsReported, TypeOK', NEW j \in Jobs,
           NEW n \in Attempts, ConfirmStopped(j, n), NEW i \in Jobs
    PROVE  EntryMoves(i)
  <1>1. CASE i # j
    BY <1>1, EntryRests DEF ConfirmStopped, jobVars, EntryMoves, Inductive, TypeOK
  <1>2. CASE i = j
    <2>1. /\ build[i] = "OUTCOME_UNKNOWN" /\ build'[i] = build[i]
          /\ attempt_no'[i] = attempt_no[i] /\ input'[i] = input[i]
          /\ Written(i)' <=> Written(i)
      BY <1>2 DEF ConfirmStopped, UnconfirmedIsReported, jobVars, Written
    <2>2. HasActive(i) /\ n = current[i]
      BY <1>2, OtherAttemptsRest DEF ConfirmStopped, HasActive, ActiveStates, Inductive
    <2>3. ~HasActive(i)'
      <3>1. \A m \in Attempts : state'[i][m] \in {"ABSENT", "STOPPED"}
        BY <1>2, <2>2, OtherAttemptsRest DEF ConfirmStopped, Inductive, TypeOK
      <3> QED BY <3>1 DEF HasActive, ActiveStates
    <2> QED BY <2>1, <2>2, <2>3, EntryFields, LedgerEntries, ProvenMove
            DEF EntryMoves, Inductive
  <1> QED BY <1>1, <1>2

\* recover gives an execution up for another one, or ends the build.
LEMMA RecoverRetriesOrEnds ==
    ASSUME Inductive, Shown, TypeOK', RecoverApply, NEW i \in Jobs
    PROVE  EntryMoves(i)
  <1>1. CASE ~(i \in fact.jobs /\ RowFree(i))
    <2>1. /\ state'[i] = state[i] /\ build'[i] = build[i]
      BY <1>1 DEF RecoverApply, SyncBuilds, Inductive, TypeOK
    <2> QED BY <2>1, EntryRests DEF RecoverApply, EntryMoves
  <1>2. CASE i \in fact.jobs /\ RowFree(i)
    <2>1. status[i] = "RUNNING" /\ build[i] = "RUNNING"
      BY <1>2, RunningIsShown DEF Inductive, OpenTransactions
    <2>2. /\ attempt_no'[i] = attempt_no[i] /\ input'[i] = input[i]
          /\ Written(i)' <=> Written(i)
      BY DEF RecoverApply, Written
    <2>3. build'[i] = PublicStatus(status'[i], error'[i], unknown'[i])
      BY <1>2 DEF RecoverApply, SyncBuilds
    <2>4. \A m \in Attempts :
             state'[i][m] = IF m = current[i] THEN RecoveredState(i) ELSE state[i][m]
      BY <1>2 DEF RecoverApply
    <2>5. \A m \in Attempts : m # current[i] => state[i][m] \in {"ABSENT", "STOPPED"}
      BY OtherAttemptsRest DEF Inductive
    <2>6. ~External(i) => ~HasActive(i)' /\ ~Written(i)
      <3> SUFFICES ASSUME ~External(i) PROVE ~HasActive(i)' /\ ~Written(i)
        OBVIOUS
      <3>1. \A m \in Attempts : state'[i][m] \in {"ABSENT", "STOPPED"}
        BY <2>4, <2>5 DEF RecoveredState
      <3>2. ~Written(i)
        BY CurrentActs DEF External, Inductive
      <3> QED BY <3>1, <3>2 DEF HasActive, ActiveStates
    <2>7. CASE Retryable(i)
      <3>1. status'[i] = "QUEUED" /\ error'[i] = "NONE" /\ ~unknown'[i]
        BY <1>2, <2>1, <2>7 DEF RecoverApply, Shown, ShowsColumns, Terminal
      <3>2. build'[i] = "QUEUED" /\ attempt_no[i] < MaxAttempts /\ ~External(i)
        BY <2>3, <2>7, <3>1 DEF PublicStatus, Retryable
      <3> QED BY <2>1, <2>2, <2>6, <3>2, EntryFields, LedgerEntries, RetriedMove
              DEF EntryMoves, Inductive
    <2>8. CASE ~Retryable(i)
      <3>1. status'[i] = "FAILED" /\ unknown'[i] = External(i)
        BY <1>2, <2>8 DEF RecoverApply
      <3>2. /\ build'[i] \in {"FAILED", "OUTCOME_UNKNOWN"}
            /\ External(i) => build'[i] = "OUTCOME_UNKNOWN"
        BY <2>3, <3>1 DEF PublicStatus
      <3> QED BY <2>1, <2>2, <2>6, <3>2, EntryFields, LedgerEntries, EndedMove
              DEF EntryMoves, Inductive
    <2> QED BY <2>7, <2>8
  <1> QED BY <1>1, <1>2

\* Every transaction moves each build at most once, as the lifecycle allows.
LEMMA LifecycleStep ==
    ASSUME Inductive, Shown, UnconfirmedIsReported, TypeOK', Next, NEW i \in Jobs
    PROVE  EntryMoves(i)
  <1>1. ASSUME NEW j \in Jobs, Reserve(j) \/ Claim(j) \/ FinishCommit(j) PROVE EntryMoves(i)
    BY <1>1, ReserveAccepts, ClaimBegins, FinishEnds
  <1>2. ASSUME NEW j \in Jobs, NEW n \in Issued(j),
               \/ StartExternal(j, n) \/ ConfirmStopped(j, n)
               \/ \E source \in Sources : AttachInput(j, n, source)
               \/ \E code \in {"EXECUTION_OUTCOME_UNKNOWN", "OTHER"},
                     hasStopped \in BOOLEAN : Fail(j, n, code, hasStopped)
        PROVE  EntryMoves(i)
    <2>1. n \in Attempts
      BY IssuedAreAttempts DEF Inductive
    <2> QED BY <1>2, <2>1, StartAnnounces, ConfirmProves, AttachFixes, FailEnds
  <1>3. ASSUME RecoverApply PROVE EntryMoves(i)
    BY <1>3, RecoverRetriesOrEnds
  <1>4. ASSUME NEW j \in Jobs,
               \/ BackoffEnds(j) \/ HeartbeatCommit(j) \/ HeartbeatAbort(j)
               \/ \E n \in Issued(j) :
                    \/ LeaseExpires(j, n) \/ HeartbeatBegin(j, n) \/ FinishBegin(j, n)
                    \/ ClaimTarget(j, n) \/ ReleaseTarget(j, n)
        PROVE  UNCHANGED <<build, attempt_no, state, stage, input>>
    BY <1>4 DEF BackoffEnds, HeartbeatCommit, HeartbeatAbort, LeaseExpires, HeartbeatBegin,
                FinishBegin, ClaimTarget, ReleaseTarget, jobVars, attemptVars
  <1>5. ASSUME RecoverSelect \/ FactRollback
        PROVE  UNCHANGED <<build, attempt_no, state, stage, input>>
    BY <1>5 DEF RecoverSelect, FactRollback, jobVars, attemptVars
  <1>6. ASSUME UNCHANGED <<build, attempt_no, state, stage, input>> PROVE EntryMoves(i)
    BY <1>6, EntryRests DEF EntryMoves
  <1> QED BY <1>1, <1>2, <1>3, <1>4, <1>5, <1>6 DEF Next

\* The control store implements the lifecycle of a build, whoever calls its
\* operations: for any number of jobs, attempts, targets and projects.
THEOREM StoreImplementsLifecycle == Spec => ImplementsLifecycle
  <1>1. Init => Lifecycle!LifecycleInit
    <2> SUFFICES ASSUME Init PROVE Ledger = [b \in Jobs |-> Lifecycle!NotAccepted]
      BY DEF Lifecycle!LifecycleInit
    <2>1. ASSUME NEW j \in Jobs
          PROVE  [status |-> build[j], tries |-> attempt_no[j], open |-> HasActive(j),
                  written |-> \E n \in Attempts : stage[j][n] = "EXTERNAL",
                  source |-> input[j]] = Lifecycle!NotAccepted
      <3>1. /\ build[j] = "ABSENT" /\ attempt_no[j] = 0 /\ input[j] = None
            /\ HasActive(j) = FALSE
            /\ (\E n \in Attempts : stage[j][n] = "EXTERNAL") = FALSE
        BY DEF Init, HasActive, ActiveStates
      <3> QED BY <3>1 DEF Lifecycle!NotAccepted
    <2> QED BY <2>1 DEF Ledger
  <1>2. /\ Inductive /\ Inductive' /\ Shown /\ UnconfirmedIsReported
        /\ [Next]_vars
        => [Lifecycle!LifecycleNext]_Ledger
    <2> SUFFICES ASSUME Inductive, Inductive', Shown, UnconfirmedIsReported, Next
                 PROVE  Lifecycle!LifecycleNext
      <3>1. UNCHANGED vars => UNCHANGED Ledger
        BY DEF vars, jobVars, attemptVars, Ledger, HasActive
      <3> QED BY <3>1
    <2>1. \A i \in Jobs : EntryMoves(i)
      BY LifecycleStep DEF Inductive
    <2>2. Ledger' = [b \in Jobs |-> Ledger'[b]]
      BY DEF Ledger
    <2> QED BY <2>1, <2>2 DEF Lifecycle!LifecycleNext, EntryMoves
  <1> QED
    BY <1>1, <1>2, InductiveHolds, ShownHolds, UnconfirmedReported, PTL
    DEF Spec, ImplementsLifecycle, Lifecycle!LifecycleSpec
=============================================================================
