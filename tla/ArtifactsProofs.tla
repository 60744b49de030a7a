-------------------------- MODULE ArtifactsProofs --------------------------
(* Theorems of Artifacts.                                                  *)
EXTENDS Artifacts, JobStoreProofs

\* Every set with a producer was made by an attempt of its job that exists.
ProducersExist ==
    \A s \in Sources : artifact[s].producer # 0 =>
        state[artifact[s].owner][artifact[s].producer] # "ABSENT"

\* An open finish holds an output it may publish, and nobody else's lock.
SealingHolds ==
    /\ sealing # None <=> fact.op = "FINISH"
    /\ sealing # None =>
         /\ gc.set # sealing
         /\ Exists(sealing)
         /\ \A j \in fact.jobs :
              Evidence(j, current[j], sealing) /\ current[j] # 0 /\ input[j] # None

\* The sets still to be looked at are there, and one that was found unreferenced
\* stays so while its row is locked.
GcHolds ==
    /\ \A s \in gc.batch : Exists(s)
    /\ gc.set # None <=> gc.step \in {"LOCKED", "DELETE"}
    /\ gc.set # None => gc.set \in gc.batch
    /\ gc.step = "DELETE" => ~Referenced(gc.set)

ArtifactInductive ==
    /\ Inductive
    /\ ArtifactTypeOK
    /\ ProducersExist
    /\ SealingHolds
    /\ GcHolds
    /\ InputsAreWhole
    /\ ResultsHaveProvenance
    /\ SealedWithResult

-----------------------------------------------------------------------------
(* The store below.                                                        *)

\* Whatever happens to the sets, the rows of jobs and attempts change by the
\* store's operations only.
LEMMA ArtifactsUseStore == [ArtifactNext]_everyVar => [Next]_vars
  <1> SUFFICES ASSUME [ArtifactNext]_everyVar PROVE [Next]_vars
    OBVIOUS
  <1>1. CASE StoreStep
    BY <1>1 DEF StoreStep, Next
  <1>2. ASSUME NEW j \in Jobs, NEW s \in Sources, CaptureSource(j, s) PROVE UNCHANGED vars
    BY <1>2 DEF CaptureSource
  <1>3. ASSUME NEW j \in Jobs, NEW n \in Issued(j), NEW s \in Sources,
               CaptureOutput(j, n, s) \/ Attach(j, n, s) \/ SealBegin(j, n, s)
        PROVE  [Next]_vars
    BY <1>3 DEF CaptureOutput, Attach, SealBegin, Next
  <1>4. ASSUME NEW j \in Jobs, SealCommit(j) PROVE Next
    BY <1>4 DEF SealCommit, Next
  <1>5. CASE SealRollback
    BY <1>5 DEF SealRollback, Next
  <1>6. CASE GcStep \/ GcAbort
    BY <1>6 DEF GcStep, GcAbort, GcSelect, GcLock, GcCheck, GcDelete
  <1>7. CASE UNCHANGED everyVar
    BY <1>7 DEF everyVar
  <1> QED BY <1>1, <1>2, <1>3, <1>4, <1>5, <1>6, <1>7 DEF ArtifactNext

\* What the operations without artifacts leave alone: pinned inputs, jobs that
\* have succeeded, and everything an open finish has read.
StoreKeeps(j) ==
    /\ status'[j] = "SUCCEEDED" <=> status[j] = "SUCCEEDED"
    /\ status[j] = "SUCCEEDED" => current'[j] = current[j]

LEMMA StoreFrame ==
    ASSUME Inductive, StoreStep
    PROVE  /\ UNCHANGED input
           /\ fact'.op = "FINISH" <=> fact.op = "FINISH"
           /\ fact.op = "FINISH" => UNCHANGED <<fact, current>>
           /\ \A j \in Jobs : StoreKeeps(j)
  <1> DEFINE Kept == /\ UNCHANGED input
                     /\ fact'.op = "FINISH" <=> fact.op = "FINISH"
                     /\ fact.op = "FINISH" => UNCHANGED <<fact, current>>
                     /\ \A j \in Jobs : StoreKeeps(j)
  <1> USE DEF Inductive, TypeOK, StoreKeeps
  <1>1. ASSUME NEW j \in Jobs, Reserve(j) PROVE Kept
    BY <1>1 DEF Reserve
  <1>2. ASSUME NEW j \in Jobs, Claim(j) PROVE Kept
    BY <1>2 DEF Claim, FactOn, FactFree, NoFact
  <1>3. ASSUME NEW j \in Jobs, NEW n \in Issued(j),
               NEW code \in {"EXECUTION_OUTCOME_UNKNOWN", "OTHER"},
               NEW hasStopped \in BOOLEAN, Fail(j, n, code, hasStopped)
        PROVE  Kept
    BY <1>3 DEF Fail, AuthorizedFact, Authorized
  <1>4. ASSUME RecoverApply PROVE Kept
    <2>1. \A j \in fact.jobs : status[j] = "RUNNING"
      BY DEF OpenTransactions
    <2> QED BY <1>4, <2>1 DEF RecoverApply, NoFact
  <1>5. ASSUME RecoverSelect PROVE Kept
    BY <1>5 DEF RecoverSelect, FactFree, NoFact, jobVars
  <1>6. ASSUME NEW j \in Jobs,
               \/ BackoffEnds(j) \/ HeartbeatCommit(j) \/ HeartbeatAbort(j)
               \/ \E n \in Issued(j) :
                    \/ LeaseExpires(j, n) \/ HeartbeatBegin(j, n) \/ StartExternal(j, n)
                    \/ ConfirmStopped(j, n) \/ ClaimTarget(j, n) \/ ReleaseTarget(j, n)
        PROVE  UNCHANGED <<input, fact, current, status>>
    BY <1>6 DEF BackoffEnds, HeartbeatCommit, HeartbeatAbort, LeaseExpires, HeartbeatBegin,
                StartExternal, ConfirmStopped, ClaimTarget, ReleaseTarget, jobVars, attemptVars
  <1> QED BY <1>1, <1>2, <1>3, <1>4, <1>5, <1>6 DEF StoreStep

\* claim numbers attempts upwards; nothing else touches the number.
LEMMA AttemptNumbers ==
    ASSUME Inductive, [Next]_vars, NEW j \in Jobs
    PROVE  attempt_no'[j] = attempt_no[j] \/ attempt_no'[j] = attempt_no[j] + 1
  <1> USE DEF Inductive, TypeOK
  <1>1. ASSUME NEW i \in Jobs, Claim(i)
        PROVE  attempt_no'[j] = attempt_no[j] \/ attempt_no'[j] = attempt_no[j] + 1
    BY <1>1 DEF Claim
  <1>2. ASSUME NEW i \in Jobs,
               \/ Reserve(i) \/ BackoffEnds(i) \/ HeartbeatCommit(i) \/ HeartbeatAbort(i)
               \/ FinishCommit(i)
        PROVE  UNCHANGED attempt_no
    BY <1>2 DEF Reserve, BackoffEnds, HeartbeatCommit, HeartbeatAbort, FinishCommit, jobVars
  <1>3. ASSUME NEW i \in Jobs, NEW n \in Issued(i),
               \/ LeaseExpires(i, n) \/ HeartbeatBegin(i, n) \/ StartExternal(i, n)
               \/ FinishBegin(i, n) \/ ConfirmStopped(i, n)
               \/ ClaimTarget(i, n) \/ ReleaseTarget(i, n)
               \/ \E source \in Sources : AttachInput(i, n, source)
               \/ \E code \in {"EXECUTION_OUTCOME_UNKNOWN", "OTHER"},
                     hasStopped \in BOOLEAN : Fail(i, n, code, hasStopped)
        PROVE  UNCHANGED attempt_no
    BY <1>3 DEF LeaseExpires, HeartbeatBegin, StartExternal, FinishBegin, ConfirmStopped,
                ClaimTarget, ReleaseTarget, AttachInput, Fail, jobVars
  <1>4. CASE RecoverSelect \/ RecoverApply \/ FactRollback \/ UNCHANGED vars
    BY <1>4 DEF RecoverSelect, RecoverApply, FactRollback, vars, jobVars
  <1> QED BY <1>1, <1>2, <1>3, <1>4 DEF Next

\* An attempt that exists goes on existing, and one that may no longer publish
\* never may again.
LEMMA AttemptsEndForGood ==
    ASSUME Inductive, Inductive', [Next]_vars, NEW j \in Jobs, NEW n \in Attempts,
           state[j][n] # "ABSENT"
    PROVE  /\ state'[j][n] # "ABSENT"
           /\ state'[j][n] \in ActiveStates => state[j][n] \in ActiveStates
  <1>1. CASE state[j][n] = "EXECUTING"
    <2>1. status[j] = "RUNNING" /\ current[j] = n
      BY <1>1 DEF Inductive, OneExecution
    <2>2. attempt_no'[j] = attempt_no[j] \/ attempt_no'[j] = attempt_no[j] + 1
      BY <2>1, AttemptNumbers
    <2>3. n <= attempt_no[j] /\ n \in Nat /\ attempt_no[j] \in Nat
      BY ConstantsAssumption DEF Inductive, TypeOK, AttemptHistory, HistoryOf, Attempts
    <2>4. ~(n > attempt_no'[j])
      BY <2>2, <2>3
    <2> QED BY <1>1, <2>4 DEF Inductive, AttemptHistory, HistoryOf, ActiveStates
  <1>2. CASE state[j][n] # "EXECUTING"
    <2>1. \/ state'[j][n] = state[j][n]
          \/ state[j][n] = "EXPIRED_UNCONFIRMED" /\ state'[j][n] = "STOPPED"
      BY <1>2, LostAttemptsStep DEF KeepsLostAttempts, vars, attemptVars
    <2> QED BY <2>1 DEF ActiveStates
  <1> QED BY <1>1, <1>2

-----------------------------------------------------------------------------
(* Each step keeps the invariant.                                          *)

\* The operations of the store keep what is true of the sets: no input or
\* output moves, and no producer comes back to life.
LEMMA StoreStepKeeps ==
    ASSUME ArtifactInductive, StoreStep, Inductive'
    PROVE  ArtifactInductive'
  <1> USE DEF ArtifactInductive
  <1>1. UNCHANGED <<artifact, output, sealing, gc, input>>
    BY StoreFrame DEF StoreStep, artifactVars
  <1>2. ArtifactTypeOK'
    BY <1>1 DEF ArtifactTypeOK, Inductive
  <1>3. \A s \in Sources : artifact[s].producer # 0 =>
            artifact[s].owner \in Jobs /\ artifact[s].producer \in Attempts
    BY DEF ArtifactTypeOK, Row
  <1>4. [Next]_vars
    BY DEF StoreStep, Next
  <1>5. ProducersExist'
    BY <1>1, <1>3, <1>4, AttemptsEndForGood DEF ProducersExist
  <1>6. SealingHolds'
    BY <1>1, StoreFrame DEF SealingHolds, Exists, Evidence
  <1>7. GcHolds'
    <2> SUFFICES ASSUME gc.step = "DELETE", Referenced(gc.set)' PROVE FALSE
      BY <1>1 DEF GcHolds, Exists
    <2>1. gc.set \in Sources
      BY DEF GcHolds, ArtifactTypeOK
    <2>2. PICK j \in Jobs, n \in Attempts :
             /\ artifact[gc.set].producer = n /\ artifact[gc.set].owner = j
             /\ n # 0 /\ state'[j][n] \in ActiveStates
      BY <1>1, <1>3, <2>1 DEF GcHolds, Referenced, Exists
    <2>3. state[j][n] \in ActiveStates
      BY <1>4, <2>1, <2>2, AttemptsEndForGood DEF ProducersExist
    <2> QED BY <2>2, <2>3 DEF GcHolds, Referenced
  <1>8. InputsAreWhole' /\ SealedWithResult'
    BY <1>1 DEF InputsAreWhole, SealedWithResult
  <1>9. ResultsHaveProvenance'
    BY <1>1, StoreFrame DEF ResultsHaveProvenance, StoreKeeps
  <1> QED BY <1>2, <1>5, <1>6, <1>7, <1>8, <1>9

\* When only the store's part of the invariant is not in question.
LEMMA StoreUnchanged ==
    ASSUME Inductive, UNCHANGED vars
    PROVE  /\ Inductive'
           /\ TypeOK'
           /\ UNCHANGED <<status, current, input, state, fact>>
  BY InductiveStep DEF Inductive, vars, jobVars, attemptVars

\* A new set refers to nothing but the pinned input of its job, and nothing
\* refers to it.
LEMMA CaptureKeeps ==
    ASSUME ArtifactInductive, UNCHANGED <<vars, output, sealing, gc>>,
           NEW s \in Sources, Fresh(s), NEW a \in Row,
           artifact' = [artifact EXCEPT ![s] = a],
           a.status \in {"STAGING", "SEALED"},
           a.producer # 0 =>
             /\ a.status = "STAGING"
             /\ state[a.owner][a.producer] # "ABSENT"
             /\ a.origin = input[a.owner]
             /\ SetFree(a.origin)
    PROVE  ArtifactInductive'
  <1> USE DEF ArtifactInductive
  <1>1. Inductive' /\ TypeOK' /\ UNCHANGED <<status, current, input, state, fact>>
    BY StoreUnchanged
  <1>2. ArtifactTypeOK'
    BY <1>1 DEF ArtifactTypeOK
  <1>3. artifact \in [Sources -> Row] /\ artifact[s].status = "ABSENT"
    BY DEF ArtifactTypeOK, Fresh
  <1>4. ProducersExist'
    BY <1>1, <1>3 DEF ProducersExist
  <1>5. SealingHolds'
    BY <1>1, <1>3 DEF SealingHolds, Exists, Evidence, ArtifactTypeOK
  <1>6. InputsAreWhole'
    BY <1>1, <1>3 DEF InputsAreWhole, Inductive, TypeOK
  <1>7. ResultsHaveProvenance'
    BY <1>1, <1>3 DEF ResultsHaveProvenance, ArtifactTypeOK
  <1>8. SealedWithResult'
    BY <1>1, <1>3 DEF SealedWithResult
  <1>9. GcHolds'
    <2>0. \A r \in gc.batch : r \in Sources /\ r # s /\ artifact'[r] = artifact[r]
      BY <1>3 DEF GcHolds, Exists, ArtifactTypeOK
    <2> SUFFICES ASSUME gc.step = "DELETE", Referenced(gc.set)' PROVE FALSE
      BY <2>0 DEF GcHolds, Exists
    <2>1. gc.set \in Sources /\ ~Referenced(gc.set) /\ gc.set # s
      BY <2>0 DEF GcHolds
    <2>2. ~ \E r \in Sources : Exists(r)' /\ artifact'[r].origin = gc.set
      <3> SUFFICES ASSUME Exists(s)', artifact'[s].origin = gc.set PROVE FALSE
        BY <1>3, <2>1 DEF Referenced, Exists
      <3>1. a.origin = gc.set /\ a.origin \in Sources
        BY <1>3, <2>1
      <3>2. a.producer # 0
        BY <3>1, ConstantsAssumption DEF Row, Attempts
      <3> QED BY <3>1, <3>2 DEF SetFree
    <2> QED BY <1>1, <1>3, <2>1, <2>2 DEF Referenced
  <1> QED BY <1>1, <1>2, <1>4, <1>5, <1>6, <1>7, <1>8, <1>9

\* A set made with a producer belongs to an attempt that was claimed.
LEMMA CapturesKeep ==
    ASSUME ArtifactInductive, NEW j \in Jobs, NEW s \in Sources,
           CaptureSource(j, s) \/ \E n \in Issued(j) : CaptureOutput(j, n, s)
    PROVE  ArtifactInductive'
  <1>1. CASE CaptureSource(j, s)
    <2> DEFINE a == [status |-> "SEALED", owner |-> j, producer |-> 0, origin |-> None]
    <2>1. a \in Row /\ a.producer = 0 /\ a.status = "SEALED"
      BY DEF Row
    <2> HIDE DEF a
    <2> QED BY <1>1, <2>1, CaptureKeeps DEF CaptureSource, a
  <1>2. ASSUME NEW n \in Issued(j), CaptureOutput(j, n, s) PROVE ArtifactInductive'
    <2> DEFINE a == [status |-> "STAGING", owner |-> j, producer |-> n, origin |-> input[j]]
    <2>1. n \in Attempts /\ n # 0 /\ n <= attempt_no[j]
      BY ConstantsAssumption
      DEF Issued, ArtifactInductive, Inductive, TypeOK, Attempts
    <2>2. state[j][n] # "ABSENT"
      <3>1. ~(n > attempt_no[j])
        BY <2>1, ConstantsAssumption DEF ArtifactInductive, Inductive, TypeOK, Attempts
      <3> QED BY <2>1, <3>1 DEF ArtifactInductive, Inductive, AttemptHistory, HistoryOf
    <2>3. input[j] \in Sources
      BY <1>2 DEF CaptureOutput, ArtifactInductive, Inductive, TypeOK
    <2>4. /\ a \in Row /\ a.status = "STAGING" /\ a.owner = j /\ a.producer = n
          /\ a.origin = input[j]
      BY <2>1, <2>3 DEF Row
    <2>5. /\ artifact' = [artifact EXCEPT ![s] = a]
          /\ Fresh(s) /\ SetFree(input[j])
          /\ UNCHANGED <<vars, output, sealing, gc>>
      BY <1>2 DEF CaptureOutput
    <2> HIDE DEF a
    <2> QED BY <2>2, <2>4, <2>5, CaptureKeeps
  <1> QED BY <1>1, <1>2

\* A job is pinned to a sealed source no collector has locked.
LEMMA AttachKeeps ==
    ASSUME ArtifactInductive, Inductive', NEW j \in Jobs, NEW n \in Issued(j),
           NEW s \in Sources, Attach(j, n, s)
    PROVE  ArtifactInductive'
  <1> USE DEF ArtifactInductive
  <1>1. /\ input' = [input EXCEPT ![j] = s]
        /\ UNCHANGED <<status, current, state, fact, artifact, output, sealing, gc>>
        /\ status[j] = "RUNNING" /\ fact = NoFact
        /\ SetFree(s) /\ artifact[s].status = "SEALED" /\ artifact[s].owner = j
        /\ input[j] \in {None, s}
    BY DEF Attach, AttachInput, AuthorizedFact, Authorized, FactOn, FactFree, artifactVars,
           attemptVars
  <1>2. input \in [Jobs -> Sources \cup {None}]
    BY DEF Inductive, TypeOK
  <1>3. ArtifactTypeOK'
    BY <1>1 DEF ArtifactTypeOK, Inductive
  <1>4. ProducersExist' /\ SealedWithResult'
    BY <1>1 DEF ProducersExist, SealedWithResult
  <1>5. SealingHolds'
    BY <1>1 DEF SealingHolds, NoFact
  <1>6. output[j] = None
    BY <1>1 DEF ResultsHaveProvenance
  <1>7. InputsAreWhole'
    <2>1. artifact[s].producer = 0
      BY <1>1, <1>6, ConstantsAssumption DEF SealedWithResult
    <2> QED BY <1>1, <1>2, <2>1 DEF InputsAreWhole
  <1>8. ResultsHaveProvenance'
    BY <1>1, <1>2, <1>6 DEF ResultsHaveProvenance
  <1>9. GcHolds'
    BY <1>1, <1>2 DEF GcHolds, Referenced, Exists, SetFree
  <1> QED BY <1>3, <1>4, <1>5, <1>7, <1>8, <1>9

\* finish takes a lock that no collector holds, on an output of its attempt.
LEMMA SealBeginKeeps ==
    ASSUME ArtifactInductive, Inductive', NEW j \in Jobs, NEW n \in Issued(j),
           NEW s \in Sources, SealBegin(j, n, s)
    PROVE  ArtifactInductive'
  <1> USE DEF ArtifactInductive
  <1>1. /\ UNCHANGED <<status, current, input, state, artifact, output, gc>>
        /\ fact' = [op |-> "FINISH", jobs |-> {j}]
        /\ current[j] = n /\ input[j] # None
        /\ Exists(s) /\ SetFree(s) /\ Evidence(j, n, s) /\ sealing' = s
    BY DEF SealBegin, FinishBegin, AuthorizedFact, Authorized, jobVars, attemptVars
  <1>2. ArtifactTypeOK'
    BY <1>1 DEF ArtifactTypeOK, Inductive
  <1>3. ProducersExist' /\ InputsAreWhole' /\ ResultsHaveProvenance' /\ SealedWithResult'
    BY <1>1 DEF ProducersExist, InputsAreWhole, ResultsHaveProvenance, SealedWithResult
  <1>4. GcHolds'
    BY <1>1 DEF GcHolds, Referenced, Exists
  <1>5. n # 0
    BY DEF Issued
  <1>6. SealingHolds'
    BY <1>1, <1>5, ConstantsAssumption DEF SealingHolds, Exists, Evidence, SetFree
  <1> QED BY <1>2, <1>3, <1>4, <1>6

\* The seal, the output and the final status are one step.
LEMMA SealCommitKeeps ==
    ASSUME ArtifactInductive, Inductive', [Next]_vars, NEW j \in Jobs, SealCommit(j)
    PROVE  ArtifactInductive'
  <1> USE DEF ArtifactInductive
  <1>1. /\ status' = [status EXCEPT ![j] = "SUCCEEDED"]
        /\ UNCHANGED <<current, input, gc>>
        /\ fact' = NoFact /\ fact = [op |-> "FINISH", jobs |-> {j}]
        /\ artifact' = [artifact EXCEPT ![sealing].status = "SEALED"]
        /\ output' = [output EXCEPT ![j] = sealing]
        /\ sealing' = None
        /\ status[j] = "RUNNING"
    BY DEF SealCommit, FinishCommit, Authorized
  <1>2. /\ status \in [Jobs -> JobStatus] /\ output \in [Jobs -> Sources \cup {None}]
        /\ artifact \in [Sources -> Row] /\ current \in [Jobs -> 0..MaxAttempts]
        /\ input \in [Jobs -> Sources \cup {None}]
    BY DEF Inductive, TypeOK, ArtifactTypeOK
  <1>3. /\ sealing \in Sources /\ sealing # None /\ gc.set # sealing /\ Exists(sealing)
        /\ Evidence(j, current[j], sealing) /\ current[j] # 0 /\ input[j] # None
    BY <1>1 DEF SealingHolds, ArtifactTypeOK
  <1>4. /\ artifact'[sealing].status = "SEALED"
        /\ artifact'[sealing].producer = artifact[sealing].producer
        /\ artifact'[sealing].owner = artifact[sealing].owner
        /\ artifact'[sealing].origin = artifact[sealing].origin
        /\ \A s \in Sources : s # sealing => artifact'[s] = artifact[s]
    BY <1>1, <1>2, <1>3 DEF Row
  <1>5. \A s \in Sources :
           /\ Exists(s)' <=> Exists(s)
           /\ artifact'[s].producer = artifact[s].producer
           /\ artifact'[s].owner = artifact[s].owner
           /\ artifact'[s].origin = artifact[s].origin
    BY <1>3, <1>4 DEF Exists
  <1>6. artifact' \in [Sources -> Row]
    <2>1. artifact'[sealing] \in Row
      BY <1>1, <1>2, <1>3 DEF Row
    <2> QED BY <1>1, <1>2, <1>4, <2>1
  <1>7. ArtifactTypeOK'
    BY <1>1, <1>2, <1>3, <1>6 DEF ArtifactTypeOK, Inductive
  <1>8. \A s \in Sources : artifact[s].producer # 0 =>
            artifact[s].owner \in Jobs /\ artifact[s].producer \in Attempts
    BY <1>2 DEF Row
  <1>9. ProducersExist'
    BY <1>5, <1>8, AttemptsEndForGood DEF ProducersExist
  <1>10. SealingHolds'
    BY <1>1 DEF SealingHolds, NoFact
  <1>11. GcHolds'
    <2>0. gc.batch \subseteq Sources
      BY DEF ArtifactTypeOK
    <2> SUFFICES ASSUME gc.step = "DELETE", Referenced(gc.set)' PROVE FALSE
      BY <1>1, <1>5, <2>0 DEF GcHolds
    <2>1. gc.set \in Sources /\ ~Referenced(gc.set) /\ gc.set # sealing
      BY <1>3, <2>0 DEF GcHolds
    <2>2. ~(\E i \in Jobs : input'[i] = gc.set \/ output'[i] = gc.set)
      BY <1>1, <1>2, <2>1 DEF Referenced
    <2>3. ~(\E r \in Sources : Exists(r)' /\ artifact'[r].origin = gc.set)
      BY <1>5, <2>1 DEF Referenced
    <2>4. artifact[gc.set].producer # 0 =>
             state'[artifact[gc.set].owner][artifact[gc.set].producer] \notin ActiveStates
      BY <1>8, <2>1, AttemptsEndForGood DEF ProducersExist, Referenced
    <2> QED BY <1>1, <1>5, <2>1, <2>2, <2>3, <2>4 DEF Referenced
  <1>12. InputsAreWhole'
    BY <1>1, <1>2, <1>4, <1>5 DEF InputsAreWhole
  <1>13. ResultsHaveProvenance'
    <2> SUFFICES ASSUME NEW i \in Jobs
                 PROVE  /\ status'[i] = "SUCCEEDED" <=> output'[i] # None
                        /\ output'[i] # None =>
                             /\ artifact'[output'[i]].status = "SEALED"
                             /\ artifact'[output'[i]].owner = i
                             /\ artifact'[output'[i]].producer = current'[i]
                             /\ artifact'[output'[i]].origin = input'[i]
      BY DEF ResultsHaveProvenance
    <2>1. CASE i = j
      BY <1>1, <1>2, <1>3, <1>4, <2>1 DEF Evidence
    <2>2. CASE i # j
      <3>1. output'[i] = output[i] /\ status'[i] = status[i]
        BY <1>1, <1>2, <2>2
      <3>2. output[i] # None => output[i] \in Sources /\ artifact'[output[i]] = artifact[output[i]]
        BY <1>2, <1>3, <1>4, <2>2 DEF ResultsHaveProvenance, Evidence
      <3> QED BY <1>1, <3>1, <3>2 DEF ResultsHaveProvenance
    <2> QED BY <2>1, <2>2
  <1>14. SealedWithResult'
    <2> SUFFICES ASSUME NEW s \in Sources, artifact'[s].status = "SEALED",
                        artifact'[s].producer # 0
                 PROVE  output'[artifact'[s].owner] = s
      BY DEF SealedWithResult
    <2>1. CASE s = sealing
      BY <1>1, <1>2, <1>3, <1>5, <2>1 DEF Evidence
    <2>2. CASE s # sealing
      <3>1. artifact'[s] = artifact[s] /\ artifact[s].owner \in Jobs
        BY <1>4, <1>8, <2>2
      <3>2. output[artifact[s].owner] = s
        BY <3>1 DEF SealedWithResult
      <3>3. output[j] = None
        BY <1>1 DEF ResultsHaveProvenance
      <3>4. artifact[s].owner # j
        BY <3>2, <3>3, ConstantsAssumption
      <3> QED BY <1>1, <1>2, <3>1, <3>2, <3>4
    <2> QED BY <2>1, <2>2
  <1> QED BY <1>7, <1>9, <1>10, <1>11, <1>12, <1>13, <1>14

\* A finish that loses its lease leaves no trace.
LEMMA SealRollbackKeeps ==
    ASSUME ArtifactInductive, Inductive', SealRollback
    PROVE  ArtifactInductive'
  <1> USE DEF ArtifactInductive
  <1>1. /\ UNCHANGED <<status, current, input, state, artifact, output, gc>>
        /\ fact' = NoFact /\ sealing' = None
    BY DEF SealRollback, FactRollback, jobVars, attemptVars
  <1> QED
    BY <1>1
    DEF ArtifactTypeOK, ProducersExist, SealingHolds, GcHolds, InputsAreWhole,
        ResultsHaveProvenance, SealedWithResult, Inductive, NoFact, Referenced, Exists

\* The collector moves from set to set.
LEMMA GcMovesKeep ==
    ASSUME ArtifactInductive,
           GcSelect \/ (\E s \in Sources : GcLock(s)) \/ GcCheck \/ GcAbort
    PROVE  ArtifactInductive'
  <1> USE DEF ArtifactInductive
  <1>1. UNCHANGED <<vars, artifact, output, sealing>>
    BY DEF GcSelect, GcLock, GcCheck, GcAbort
  <1>2. Inductive' /\ TypeOK' /\ UNCHANGED <<status, current, input, state, fact>>
    BY <1>1, StoreUnchanged
  <1>3. /\ gc' \in [step: {"IDLE", "NEXT", "LOCKED", "DELETE"},
                    batch: SUBSET Sources, set: Sources \cup {None}]
        /\ GcHolds'
        /\ sealing # None => gc'.set # sealing
    <2>1. CASE GcSelect
      BY <1>1, <2>1 DEF GcSelect, GcHolds, Oldest, Exists
    <2>2. ASSUME NEW s \in Sources, GcLock(s)
          PROVE  /\ gc' = [step |-> "LOCKED", batch |-> gc.batch, set |-> s]
                 /\ s \in gc.batch /\ sealing # s
      BY <2>2 DEF GcLock, ArtifactTypeOK
    <2>3. CASE \E s \in Sources : GcLock(s)
      BY <1>1, <2>2, <2>3, ConstantsAssumption DEF GcHolds, Exists, ArtifactTypeOK
    <2>4. CASE GcCheck /\ Referenced(gc.set)
      BY <1>1, <2>4, ConstantsAssumption
      DEF GcCheck, GcNext, GcIdle, GcHolds, Exists, ArtifactTypeOK
    <2>5. CASE GcCheck /\ ~Referenced(gc.set)
      <3>1. gc' = [step |-> "DELETE", batch |-> gc.batch, set |-> gc.set]
        BY <2>5 DEF GcCheck, ArtifactTypeOK
      <3>2. gc.step = "LOCKED"
        BY <2>5 DEF GcCheck
      <3> QED BY <1>1, <1>2, <2>5, <3>1, <3>2
              DEF GcHolds, Exists, Referenced, ArtifactTypeOK, SealingHolds
    <2>6. CASE GcAbort
      BY <1>1, <2>6 DEF GcAbort, GcIdle, GcHolds, ArtifactTypeOK
    <2> QED BY <2>1, <2>3, <2>4, <2>5, <2>6
  <1> QED
    BY <1>1, <1>2, <1>3
    DEF ArtifactTypeOK, ProducersExist, SealingHolds, InputsAreWhole, ResultsHaveProvenance,
        SealedWithResult, Exists, Evidence

\* What is deleted is no input, no output, the origin of nothing, and not being
\* sealed.
LEMMA GcDeleteKeeps ==
    ASSUME ArtifactInductive, GcDelete
    PROVE  ArtifactInductive'
  <1> USE DEF ArtifactInductive
  <1>1. /\ UNCHANGED <<vars, output, sealing>>
        /\ artifact' = [artifact EXCEPT ![gc.set].status = "GONE"]
        /\ gc' = GcNext(gc.batch \ {gc.set})
        /\ gc.step = "DELETE"
    BY DEF GcDelete
  <1>2. Inductive' /\ TypeOK' /\ UNCHANGED <<status, current, input, state, fact>>
    BY <1>1, StoreUnchanged
  <1>3. gc.set \in Sources /\ ~Referenced(gc.set) /\ sealing # gc.set /\ gc.batch \subseteq Sources
    BY <1>1, ConstantsAssumption DEF GcHolds, SealingHolds, ArtifactTypeOK
  <1>4. artifact \in [Sources -> Row]
    BY DEF ArtifactTypeOK
  <1>5. /\ \A s \in Sources : s # gc.set => artifact'[s] = artifact[s]
        /\ artifact'[gc.set].status = "GONE"
        /\ artifact'[gc.set].producer = artifact[gc.set].producer
        /\ artifact'[gc.set].owner = artifact[gc.set].owner
    BY <1>1, <1>3, <1>4 DEF Row
  <1>6. artifact' \in [Sources -> Row]
    <2>1. artifact'[gc.set] \in Row
      BY <1>1, <1>3, <1>4 DEF Row
    <2> QED BY <1>1, <1>3, <1>4, <1>5, <2>1
  <1>7. gc' \in [step: {"IDLE", "NEXT", "LOCKED", "DELETE"},
                 batch: SUBSET Sources, set: Sources \cup {None}] /\ gc'.set = None
    BY <1>1, <1>3 DEF GcNext, GcIdle
  <1>8. ArtifactTypeOK'
    BY <1>1, <1>2, <1>6, <1>7 DEF ArtifactTypeOK
  <1>9. ProducersExist'
    BY <1>2, <1>5 DEF ProducersExist
  <1>10. SealingHolds'
    BY <1>1, <1>2, <1>3, <1>5, <1>7 DEF SealingHolds, Exists, Evidence, ArtifactTypeOK
  <1>11. GcHolds'
    BY <1>1, <1>3, <1>5, <1>7 DEF GcHolds, GcNext, GcIdle, Exists
  <1>12. InputsAreWhole'
    <2>1. \A j \in Jobs : input[j] # None => input[j] \in Sources /\ input[j] # gc.set
      BY <1>3 DEF Referenced, Inductive, TypeOK
    <2> QED BY <1>2, <1>5, <2>1 DEF InputsAreWhole
  <1>13. ResultsHaveProvenance'
    BY <1>1, <1>2, <1>3, <1>5 DEF ResultsHaveProvenance, Referenced, ArtifactTypeOK
  <1>14. SealedWithResult'
    BY <1>1, <1>5 DEF SealedWithResult
  <1> QED BY <1>2, <1>8, <1>9, <1>10, <1>11, <1>12, <1>13, <1>14

LEMMA ArtifactStep ==
    ArtifactInductive /\ [ArtifactNext]_everyVar => ArtifactInductive'
  <1> SUFFICES ASSUME ArtifactInductive, [ArtifactNext]_everyVar PROVE ArtifactInductive'
    OBVIOUS
  <1>1. [Next]_vars /\ Inductive'
    BY ArtifactsUseStore, InductiveStep DEF ArtifactInductive
  <1>2. CASE StoreStep
    BY <1>1, <1>2, StoreStepKeeps
  <1>3. ASSUME NEW j \in Jobs, NEW s \in Sources, CaptureSource(j, s)
        PROVE  ArtifactInductive'
    BY <1>3, CapturesKeep
  <1>4. ASSUME NEW j \in Jobs, NEW n \in Issued(j), NEW s \in Sources,
               CaptureOutput(j, n, s)
        PROVE  ArtifactInductive'
    BY <1>4, CapturesKeep
  <1>5. ASSUME NEW j \in Jobs, NEW n \in Issued(j), NEW s \in Sources, Attach(j, n, s)
        PROVE  ArtifactInductive'
    BY <1>1, <1>5, AttachKeeps
  <1>6. ASSUME NEW j \in Jobs, NEW n \in Issued(j), NEW s \in Sources, SealBegin(j, n, s)
        PROVE  ArtifactInductive'
    BY <1>1, <1>6, SealBeginKeeps
  <1>7. ASSUME NEW j \in Jobs, SealCommit(j) PROVE ArtifactInductive'
    BY <1>1, <1>7, SealCommitKeeps
  <1>8. CASE SealRollback
    BY <1>1, <1>8, SealRollbackKeeps
  <1>9. CASE GcStep \/ GcAbort
    BY <1>9, GcMovesKeep, GcDeleteKeeps DEF GcStep
  <1>10. CASE UNCHANGED everyVar
    <2>1. UNCHANGED <<status, current, input, state, fact, artifact, output, sealing, gc>>
      BY <1>10 DEF everyVar, artifactVars, vars, jobVars, attemptVars
    <2> QED
      BY <1>1, <2>1
      DEF ArtifactInductive, ArtifactTypeOK, ProducersExist, SealingHolds, GcHolds,
          InputsAreWhole, ResultsHaveProvenance, SealedWithResult, Inductive, Exists,
          Evidence, Referenced
  <1> QED
    BY <1>2, <1>3, <1>4, <1>5, <1>6, <1>7, <1>8, <1>9, <1>10 DEF ArtifactNext

LEMMA ArtifactInductiveInit == ArtifactInit => ArtifactInductive
  <1> SUFFICES ASSUME ArtifactInit PROVE ArtifactInductive
    OBVIOUS
  <1>1. Inductive
    BY TypeInit, HistoryInit, OneExecutionInit DEF ArtifactInit, Inductive
  <1>2. /\ artifact = [s \in Sources |-> NoSet] /\ output = [j \in Jobs |-> None]
        /\ sealing = None /\ gc = GcIdle
        /\ fact = NoFact
        /\ \A j \in Jobs : input[j] = None /\ status[j] # "SUCCEEDED"
    BY DEF ArtifactInit, Init, NoFact
  <1>3. NoSet \in Row
    BY DEF NoSet, Row
  <1>4. ArtifactTypeOK
    BY <1>1, <1>2, <1>3 DEF ArtifactTypeOK, Inductive, GcIdle
  <1>5. ProducersExist /\ SealingHolds /\ GcHolds
    BY <1>2 DEF ProducersExist, SealingHolds, GcHolds, NoSet, NoFact, GcIdle
  <1>6. InputsAreWhole /\ ResultsHaveProvenance /\ SealedWithResult
    BY <1>2 DEF InputsAreWhole, ResultsHaveProvenance, SealedWithResult, NoSet
  <1> QED BY <1>1, <1>4, <1>5, <1>6 DEF ArtifactInductive

-----------------------------------------------------------------------------
(* Theorems.                                                               *)

\* The invariant holds in every state, for any number of jobs, attempts and
\* sets, any limit of the collector, and however often it runs or breaks off.
THEOREM ArtifactInductiveHolds == ArtifactSpec => []ArtifactInductive
  BY ArtifactInductiveInit, ArtifactStep, PTL DEF ArtifactSpec

\* Every reachable state of the artifact store is well typed.
THEOREM ArtifactTypeCorrect == ArtifactSpec => []ArtifactTypeOK
  <1>1. ArtifactInductive => ArtifactTypeOK
    BY DEF ArtifactInductive
  <1> QED BY <1>1, ArtifactInductiveHolds, PTL

\* The source a job is pinned to is never collected, whatever order capture,
\* attach_input and delete_unreferenced run in.
THEOREM InputsStayWhole == ArtifactSpec => []InputsAreWhole
  <1>1. ArtifactInductive => InputsAreWhole
    BY DEF ArtifactInductive
  <1> QED BY <1>1, ArtifactInductiveHolds, PTL

\* What finish publishes was made by the attempt that finished, from the source
\* that was pinned, and is sealed exactly when the job has succeeded.
THEOREM ProvenanceHolds ==
    ArtifactSpec => [](ResultsHaveProvenance /\ SealedWithResult)
  <1>1. ArtifactInductive => ResultsHaveProvenance /\ SealedWithResult
    BY DEF ArtifactInductive
  <1> QED BY <1>1, ArtifactInductiveHolds, PTL

\* Captures, seals and garbage collection change the rows of jobs and attempts
\* by operations of the store only: its theorems hold beside them.
THEOREM ArtifactsImplementStore == ArtifactSpec => Spec
  <1>1. ArtifactInit => Init
    BY DEF ArtifactInit
  <1> QED BY <1>1, ArtifactsUseStore, PTL DEF ArtifactSpec, Spec

\* What each step does to sets: captures fill a free number, a seal changes the
\* status of the set being published, a deletion that of the set under the lock.
LEMMA RowsChangeInTheirOrder ==
    ASSUME ArtifactInductive, [ArtifactNext]_everyVar, NEW s \in Sources, Exists(s)
    PROVE  \/ artifact'[s] = artifact[s]
           \/ s = sealing /\ fact.op = "FINISH" /\ Exists(s)'
           \/ GcDelete /\ s = gc.set /\ ~Referenced(s)
  <1>1. artifact \in [Sources -> Row]
    BY DEF ArtifactInductive, ArtifactTypeOK
  <1>2. ASSUME NEW j \in Jobs, NEW r \in Sources,
               CaptureSource(j, r) \/ \E n \in Issued(j) : CaptureOutput(j, n, r)
        PROVE  artifact'[s] = artifact[s]
    BY <1>1, <1>2 DEF CaptureSource, CaptureOutput, Fresh, Exists
  <1>3. ASSUME NEW j \in Jobs, SealCommit(j)
        PROVE  \/ artifact'[s] = artifact[s]
               \/ s = sealing /\ fact.op = "FINISH" /\ Exists(s)'
    BY <1>1, <1>3 DEF SealCommit, FinishCommit, Exists, Row
  <1>4. CASE GcDelete
    BY <1>1, <1>4 DEF GcDelete, ArtifactInductive, GcHolds
  <1>5. CASE StoreStep \/ UNCHANGED everyVar
    BY <1>5 DEF StoreStep, everyVar, artifactVars
  <1>6. ASSUME NEW j \in Jobs, NEW n \in Issued(j), NEW r \in Sources,
               Attach(j, n, r) \/ SealBegin(j, n, r)
        PROVE  UNCHANGED artifact
    BY <1>6 DEF Attach, SealBegin, artifactVars
  <1>7. CASE SealRollback \/ GcSelect \/ (\E r \in Sources : GcLock(r)) \/ GcCheck \/ GcAbort
    BY <1>7 DEF SealRollback, GcSelect, GcLock, GcCheck, GcAbort
  <1> QED BY <1>2, <1>3, <1>4, <1>5, <1>6, <1>7 DEF ArtifactNext, GcStep

\* No step takes an output from an attempt that may still publish it, or whose
\* end has not been confirmed.
THEOREM LiveOutputsAreKept == ArtifactSpec => LiveOutputsKept
  <1>1. ArtifactInductive /\ [ArtifactNext]_everyVar
          => [\A s \in Sources : MayPublish(s) => Exists(s)']_everyVar
    <2> SUFFICES ASSUME ArtifactInductive, [ArtifactNext]_everyVar,
                        NEW s \in Sources, MayPublish(s)
                 PROVE  Exists(s)'
      OBVIOUS
    <2>1. Exists(s) /\ Referenced(s)
      BY DEF MayPublish, Referenced
    <2> QED BY <2>1, RowsChangeInTheirOrder DEF Exists
  <1> QED BY <1>1, ArtifactInductiveHolds, PTL DEF ArtifactSpec, LiveOutputsKept

\* The output of a build that has succeeded never changes and is never collected.
THEOREM PublishedStaysPut == ArtifactSpec => PublishedStays
  <1>1. ArtifactInductive /\ [ArtifactNext]_everyVar => [KeepsPublished]_everyVar
    <2> SUFFICES ASSUME ArtifactInductive, [ArtifactNext]_everyVar,
                        NEW j \in Jobs, output[j] # None
                 PROVE  output'[j] = output[j] /\ artifact'[output[j]] = artifact[output[j]]
      BY DEF KeepsPublished
    <2>1. /\ output[j] \in Sources /\ Exists(output[j]) /\ Referenced(output[j])
          /\ status[j] = "SUCCEEDED"
          /\ artifact[output[j]].owner = j
          /\ output \in [Jobs -> Sources \cup {None}]
      BY DEF ArtifactInductive, ArtifactTypeOK, ResultsHaveProvenance, Exists, Referenced
    <2>2. output'[j] = output[j]
      <3>1. ASSUME NEW i \in Jobs, SealCommit(i) PROVE output'[j] = output[j]
        BY <2>1, <3>1 DEF SealCommit, FinishCommit, Authorized
      <3> QED BY <3>1
        DEF ArtifactNext, StoreStep, CaptureSource, CaptureOutput, Attach, SealBegin,
            SealRollback, GcStep, GcSelect, GcLock, GcCheck, GcDelete, GcAbort, everyVar,
            artifactVars
    <2>3. ~(output[j] = sealing /\ fact.op = "FINISH")
      <3> SUFFICES ASSUME output[j] = sealing, fact.op = "FINISH" PROVE FALSE
        OBVIOUS
      <3>1. PICK i \in fact.jobs : i \in Jobs /\ status[i] = "RUNNING"
        BY DEF ArtifactInductive, Inductive, TypeOK, OpenTransactions
      <3>2. artifact[sealing].owner = i
        BY <2>1, <3>1 DEF ArtifactInductive, SealingHolds, Evidence
      <3> QED BY <2>1, <3>1, <3>2
    <2> QED BY <2>1, <2>2, <2>3, RowsChangeInTheirOrder
  <1> QED BY <1>1, ArtifactInductiveHolds, PTL DEF ArtifactSpec, PublishedStays
=============================================================================
