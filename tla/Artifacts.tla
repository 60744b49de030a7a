------------------------------ MODULE Artifacts ------------------------------
(***************************************************************************)
(* Artifact sets beside the job store: the source a build is pinned to and *)
(* the output it publishes (storage/artifacts.py), and the garbage         *)
(* collection an administrator runs next to the workers (admin.py).        *)
(*                                                                         *)
(* A set is one row and its files; both are written by one transaction and *)
(* deleted by one, so a row stands for them.  capture runs outside the     *)
(* fact lock and its row becomes visible at its commit.  seal is part of   *)
(* finish.  What holds the transactions apart is the row of the set: the   *)
(* foreign keys of a job, or of a set made from another one, lock the row  *)
(* they refer to (FOR KEY SHARE), and seal and garbage collection lock it  *)
(* FOR UPDATE.                                                             *)
(*                                                                         *)
(* Sets are numbered in the order of created_at.  As in JobStore, anybody  *)
(* who was ever issued a lease token may call at any time.                 *)
(***************************************************************************)
EXTENDS JobStore, FiniteSets

CONSTANT GcLimit        \* --limit of the gc command

ASSUME ArtifactAssumption == Sources \subseteq Nat /\ GcLimit \in Nat \ {0}

VARIABLES
    artifact,   \* rows of runtime_artifact_set
    output,     \* runtime_job.output_set_id, copied to engine_build
    sealing,    \* the set the open finish transaction has locked and sealed
    gc          \* the garbage collector

artifactVars == <<artifact, output, sealing, gc>>
everyVar == <<vars, artifactVars>>

\* A source has no producer and no set it was made from; an output has both.
Row == [status: {"ABSENT", "STAGING", "SEALED", "GONE"}, owner: Jobs,
        producer: Attempts, origin: Sources]
       \cup [status: {"ABSENT", "SEALED", "GONE"}, owner: Jobs \cup {None},
             producer: {0}, origin: {None}]
NoSet == [status |-> "ABSENT", owner |-> None, producer |-> 0, origin |-> None]
GcIdle == [step |-> "IDLE", batch |-> {}, set |-> None]

ArtifactTypeOK ==
    /\ TypeOK
    /\ artifact \in [Sources -> Row]
    /\ output \in [Jobs -> Sources \cup {None}]
    /\ sealing \in Sources \cup {None}
    /\ gc \in [step: {"IDLE", "NEXT", "LOCKED", "DELETE"},
               batch: SUBSET Sources, set: Sources \cup {None}]

ArtifactInit ==
    /\ Init
    /\ artifact = [s \in Sources |-> NoSet]
    /\ output = [j \in Jobs |-> None]
    /\ sealing = None
    /\ gc = GcIdle

Exists(s) == artifact[s].status \in {"STAGING", "SEALED"}

\* Garbage collection holds the row of s FOR UPDATE; whoever needs it waits.
SetFree(s) == gc.set # s

-----------------------------------------------------------------------------
(* Workers.                                                                *)

Fresh(s) ==
    /\ artifact[s].status = "ABSENT"
    /\ \A r \in Sources : r < s => artifact[r].status # "ABSENT"

\* capture of the fetched source: without a producer it seals itself.
CaptureSource(j, s) ==
    /\ Issued(j) # {}
    /\ Fresh(s)
    /\ artifact' = [artifact EXCEPT ![s] =
         [status |-> "SEALED", owner |-> j, producer |-> 0, origin |-> None]]
    /\ UNCHANGED <<vars, output, sealing, gc>>

\* persist after the engine has ended: STAGING until finish.  The lease is not
\* checked, so that an attempt that has lost it leaves an output behind.
CaptureOutput(j, n, s) ==
    /\ stage[j][n] = "EXTERNAL"
    /\ input[j] # None
    /\ SetFree(input[j])
    /\ Fresh(s)
    /\ artifact' = [artifact EXCEPT ![s] =
         [status |-> "STAGING", owner |-> j, producer |-> n, origin |-> input[j]]]
    /\ UNCHANGED <<vars, output, sealing, gc>>

\* Fault: the set is checked, and the reference takes no lock on it.
AttachUnlocked(j, n, s) ==
    /\ AttachInput(j, n, s)
    /\ artifact[s].status = "SEALED"
    /\ artifact[s].owner = j
    /\ UNCHANGED artifactVars

\* attach_input reads the set without a lock; the foreign key then waits for
\* garbage collection, and refuses when the row is gone.
Attach(j, n, s) ==
    /\ AttachInput(j, n, s)
    /\ SetFree(s)
    /\ artifact[s].status = "SEALED"
    /\ artifact[s].owner = j
    /\ UNCHANGED artifactVars

\* Fault: any set of the project will do.
EvidenceOfProject(j, n, s) == artifact[s].owner = j

\* The output was made by this attempt, from the source the job is pinned to.
Evidence(j, n, s) ==
    /\ artifact[s].producer = n
    /\ artifact[s].owner = j
    /\ artifact[s].origin = input[j]

\* finish locks its output and validates it, and the transaction stays open.
SealBegin(j, n, s) ==
    /\ FinishBegin(j, n)
    /\ Exists(s)
    /\ SetFree(s)
    /\ Evidence(j, n, s)
    /\ sealing' = s
    /\ UNCHANGED <<artifact, output, gc>>

\* The seal and the final status become visible together.
SealCommit(j) ==
    /\ FinishCommit(j)
    /\ artifact' = [artifact EXCEPT ![sealing].status = "SEALED"]
    /\ output' = [output EXCEPT ![j] = sealing]
    /\ sealing' = None
    /\ UNCHANGED gc

SealRollback ==
    /\ FactRollback
    /\ sealing' = None
    /\ UNCHANGED <<artifact, output, gc>>

-----------------------------------------------------------------------------
(* Garbage collection.                                                     *)


Oldest == {s \in Sources : Exists(s) /\
             Cardinality({r \in Sources : Exists(r) /\ r < s}) < GcLimit}

\* The first sets by created_at, referenced or not, with an age of zero.
GcSelect ==
    /\ gc = GcIdle
    /\ Oldest # {}
    /\ gc' = [step |-> "NEXT", batch |-> Oldest, set |-> None]
    /\ UNCHANGED <<vars, artifact, output, sealing>>

GcNext(batch) ==
    IF batch = {} THEN GcIdle ELSE [step |-> "NEXT", batch |-> batch, set |-> None]

\* FOR UPDATE waits for the finish transaction that holds the row.
GcLock(s) ==
    /\ gc.step = "NEXT"
    /\ s \in gc.batch
    /\ \A r \in gc.batch : s <= r
    /\ sealing # s
    /\ gc' = [gc EXCEPT !.step = "LOCKED", !.set = s]
    /\ UNCHANGED <<vars, artifact, output, sealing>>

\* Fault: the producer of a set is not looked at.
ReferencedByKeys(s) ==
    \/ \E j \in Jobs : input[j] = s \/ output[j] = s
    \/ \E r \in Sources : Exists(r) /\ artifact[r].origin = s

\* Fault: the output of a job is taken for its own affair.
ReferencedAsInput(s) ==
    \/ \E j \in Jobs : input[j] = s
    \/ \E r \in Sources : Exists(r) /\ artifact[r].origin = s
    \/ LET a == artifact[s]
       IN  a.producer # 0 /\ state[a.owner][a.producer] \in ActiveStates

\* Fault: a set counts as in use for as long as it has a producer.
ReferencedByProducer(s) ==
    \/ \E j \in Jobs : input[j] = s \/ output[j] = s
    \/ \E r \in Sources : Exists(r) /\ artifact[r].origin = s
    \/ artifact[s].producer # 0

\* A job, a set made from it, or a producer that may still publish it.
Referenced(s) ==
    \/ \E j \in Jobs : input[j] = s \/ output[j] = s
    \/ \E r \in Sources : Exists(r) /\ artifact[r].origin = s
    \/ LET a == artifact[s]
       IN  a.producer # 0 /\ state[a.owner][a.producer] \in ActiveStates

\* The references are read by a statement of their own, under the lock.
GcCheck ==
    /\ gc.step = "LOCKED"
    /\ gc' = IF Referenced(gc.set) THEN GcNext(gc.batch \ {gc.set})
             ELSE [gc EXCEPT !.step = "DELETE"]
    /\ UNCHANGED <<vars, artifact, output, sealing>>

\* The foreign keys would refuse here; under the lock none can have appeared.
GcDelete ==
    /\ gc.step = "DELETE"
    /\ artifact' = [artifact EXCEPT ![gc.set].status = "GONE"]
    /\ gc' = GcNext(gc.batch \ {gc.set})
    /\ UNCHANGED <<vars, output, sealing>>

\* A lock timeout, a lost connection, or the end of the command.
GcAbort ==
    /\ gc # GcIdle
    /\ gc' = GcIdle
    /\ UNCHANGED <<vars, artifact, output, sealing>>

-----------------------------------------------------------------------------

\* The operations of the store that concern no artifact.
StoreStep ==
    /\ \/ \E j \in Jobs :
            \/ Reserve(j) \/ Claim(j) \/ BackoffEnds(j)
            \/ HeartbeatCommit(j) \/ HeartbeatAbort(j)
            \/ \E n \in Issued(j) :
                 \/ LeaseExpires(j, n) \/ HeartbeatBegin(j, n)
                 \/ StartExternal(j, n)
                 \/ \E code \in {"EXECUTION_OUTCOME_UNKNOWN", "OTHER"},
                       hasStopped \in BOOLEAN : Fail(j, n, code, hasStopped)
                 \/ ConfirmStopped(j, n)
                 \/ ClaimTarget(j, n) \/ ReleaseTarget(j, n)
       \/ RecoverSelect \/ RecoverApply
    /\ UNCHANGED artifactVars

GcStep == GcSelect \/ (\E s \in Sources : GcLock(s)) \/ GcCheck \/ GcDelete

ArtifactNext ==
    \/ StoreStep
    \/ \E j \in Jobs :
         \/ \E s \in Sources : CaptureSource(j, s)
         \/ \E n \in Issued(j), s \in Sources :
              CaptureOutput(j, n, s) \/ Attach(j, n, s) \/ SealBegin(j, n, s)
         \/ SealCommit(j)
    \/ SealRollback
    \/ GcStep \/ GcAbort

ArtifactSpec == ArtifactInit /\ [][ArtifactNext]_everyVar

\* The administrator runs gc again and again, and gets the row locks it queues
\* for although others take them in between; an open finish ends; and from
\* some time on a gc command ends only when its batch is done.
FairArtifactSpec ==
    /\ ArtifactSpec
    /\ SF_everyVar(GcStep)
    /\ WF_everyVar(SealRollback \/ \E j \in Jobs : SealCommit(j))
    /\ <>[][GcAbort => GcCheck]_everyVar

-----------------------------------------------------------------------------
(* Properties.                                                             *)

\* The source a job is pinned to is there, sealed, and the job's own: a retry
\* on another host, and a query of an old build, always find it, although it
\* was captured in one transaction and attached in a later one.
InputsAreWhole ==
    \A j \in Jobs : input[j] # None =>
        /\ artifact[input[j]].status = "SEALED"
        /\ artifact[input[j]].owner = j
        /\ artifact[input[j]].producer = 0

\* A build that succeeded has a sealed output, made by the attempt that
\* succeeded from the source the job is pinned to; no other job has one.
ResultsHaveProvenance ==
    \A j \in Jobs :
        /\ status[j] = "SUCCEEDED" <=> output[j] # None
        /\ output[j] # None =>
             /\ artifact[output[j]].status = "SEALED"
             /\ artifact[output[j]].owner = j
             /\ artifact[output[j]].producer = current[j]
             /\ artifact[output[j]].origin = input[j]

\* No output is sealed but the result of its job: the outputs of attempts that
\* lost their lease, also in the middle of finish, stay STAGING.
SealedWithResult ==
    \A s \in Sources :
        artifact[s].status = "SEALED" /\ artifact[s].producer # 0
            => output[artifact[s].owner] = s

MayPublish(s) ==
    /\ Exists(s)
    /\ artifact[s].producer # 0
    /\ state[artifact[s].owner][artifact[s].producer] \in ActiveStates

\* Garbage collection never takes an output from an attempt that may still
\* publish it, nor from one whose end nobody has confirmed.
LiveOutputsKept == [][\A s \in Sources : MayPublish(s) => Exists(s)']_everyVar

KeepsPublished ==
    \A j \in Jobs : output[j] # None =>
        output'[j] = output[j] /\ artifact'[output[j]] = artifact[output[j]]

\* What a build has published stays as it is, for as long as the build is known.
PublishedStays == [][KeepsPublished]_everyVar

\* What a job that has ended left behind, with no execution unaccounted for.
Leftover(s) ==
    /\ Exists(s)
    /\ LET j == artifact[s].owner
       IN  status[j] \in Terminal /\ ~HasActive(j) /\ s \notin {input[j], output[j]}

\* Every leftover goes in the end, also that of a crash between the capture of
\* a source and the transaction that would have attached it.
LeftoversCollected ==
    \A s \in Sources : Leftover(s) ~> artifact[s].status = "GONE"

\* 2026-09-30-postgresql-stateless-service-design.md:247 says that what an
\* interrupted upload leaves is collected by gc once its task has ended; here
\* the output that finish did not seal.
UploadsCollected ==
    \A s \in Sources :
        Leftover(s) /\ artifact[s].producer # 0 ~> artifact[s].status = "GONE"
=============================================================================
