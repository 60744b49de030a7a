---------------------------- MODULE Deployments ----------------------------
(***************************************************************************)
(* Deployment of builds to one target, a (repository, environment, branch) *)
(* key: storage/deployments.py and application/deployments.py.             *)
(*                                                                         *)
(* A build accepted with ON_SUCCESS brings an intent with the next         *)
(* generation, so a generation names both.  The target row keeps the       *)
(* active build and the last observation of the remote branch; version     *)
(* grows with every change of it.  Reconcilers (the _maintain loops of the *)
(* instances) settle intents, and pollers (GET /deployments/current) only  *)
(* observe.  Both read the row, then Git, then write under the condition   *)
(* that the row is still the one they read; a transaction is one step.     *)
(*                                                                         *)
(* A stale intent is known by its reason.                                  *)
(***************************************************************************)
EXTENDS Naturals

CONSTANTS
    Commits,         \* commits of the repository
    Ancestry,        \* pairs <<ancestor, descendant>> of them
    Reconcilers,     \* reconcile_pending loops
    Pollers,         \* requests that observe the branch
    MaxGeneration,   \* bound: intents accepted
    MaxVersion,      \* bound: rounds of a reconciler start below this version
    MaxNoise,        \* bound: polls start, and Git and rounds fail, below it
    None

ASSUME DeploymentAssumption ==
    /\ Ancestry \subseteq Commits \X Commits
    /\ Reconcilers \cap Pollers = {}
    /\ MaxGeneration \in Nat
    /\ MaxVersion \in Nat
    /\ MaxNoise \in Nat
    /\ None \notin Commits

VARIABLES
    target,        \* the row of engine_deployment_target
    intent,        \* engine_deployment_attempt: status, or reason if stale
    build, commit, \* engine_build: public status and pinned commit_sha
    branch,        \* the branch in the remote repository
    pc, serving,   \* where an observer is, and the generation it reconciles
    snap, seen,    \* the row it has read, and what it has read from Git
    aim,           \* the outcome it will settle
    since, fresh   \* history: the heads of the branch since a generation was
                   \* accepted, and since the version last grew

observerVars == <<pc, serving, snap, seen, aim>>
vars == <<target, intent, build, commit, branch, observerVars, since, fresh>>

Observers == Reconcilers \cup Pollers
Generations == 1..MaxGeneration
Heads == Commits \cup {None}
SourceState == {"UNDEPLOYED", "MATCHED", "AHEAD", "DIVERGED", "MISSING", "UNKNOWN"}
Stale == {"NEWER_INTENT", "SOURCE_HEAD_CHANGED", "TARGET_OR_BUILD_CHANGED"}
IntentStatus == {"ABSENT", "WAITING_FOR_BUILD", "DEPLOYED", "FAILED"} \cup Stale
BuildState == {"ABSENT", "ACTIVE", "SUCCEEDED", "FAILED", "OUTCOME_UNKNOWN"}
Place == {"idle", "build", "target", "head", "observe", "reread", "settle"}
Outcome == {"DEPLOYED", "SOURCE_HEAD_CHANGED", "FAILED"}

Row == [version: Nat, desired: 0..MaxGeneration, active: 0..MaxGeneration,
        head: Heads, state: SourceState]
Reading == [head: Heads, state: SourceState]

NoRow == [version |-> 0, desired |-> 0, active |-> 0, head |-> None,
          state |-> "UNDEPLOYED"]
NoReading == [head |-> None, state |-> "UNKNOWN"]

DeploymentTypeOK ==
    /\ target \in Row
    /\ intent \in [Generations -> IntentStatus]
    /\ build \in [Generations -> BuildState]
    /\ commit \in [Generations -> Heads]
    /\ branch \in Heads
    /\ pc \in [Observers -> Place]
    /\ serving \in [Observers -> 0..MaxGeneration]
    /\ snap \in [Observers -> Row]
    /\ seen \in [Observers -> Reading]
    /\ aim \in [Observers -> Outcome]
    /\ since \in [Generations -> SUBSET Heads]
    /\ fresh \subseteq Heads
    /\ \A p \in Reconcilers : pc[p] # "idle" => serving[p] # 0
    /\ \A p \in Pollers : pc[p] \in {"idle", "head", "observe"}

DeploymentInit ==
    /\ target = NoRow
    /\ intent = [g \in Generations |-> "ABSENT"]
    /\ build = [g \in Generations |-> "ABSENT"]
    /\ commit = [g \in Generations |-> None]
    /\ branch \in Heads
    /\ pc = [p \in Observers |-> "idle"]
    /\ serving = [p \in Observers |-> 0]
    /\ snap = [p \in Observers |-> NoRow]
    /\ seen = [p \in Observers |-> NoReading]
    /\ aim = [p \in Observers |-> "FAILED"]
    /\ since = [g \in Generations |-> {}]
    /\ fresh = {branch}

-----------------------------------------------------------------------------

Pending(g) == intent[g] = "WAITING_FOR_BUILD"

\* Fault: an intent that gives way does not say why.
StaleUnexplained ==
    [g \in Generations |-> IF Pending(g) THEN "STALE" ELSE intent[g]]

\* _stale: every pending intent gives way.
StaleIntents ==
    [g \in Generations |-> IF Pending(g) THEN "NEWER_INTENT" ELSE intent[g]]

\* Every change of the row is a new version of it.
Changed(desired, active, head, state) ==
    [version |-> target.version + 1, desired |-> desired, active |-> active,
     head |-> head, state |-> state]

\* The observer is done, or its request failed: what it has read is forgotten.
Done(p) ==
    /\ pc' = [pc EXCEPT ![p] = "idle"]
    /\ serving' = [serving EXCEPT ![p] = 0]
    /\ snap' = [snap EXCEPT ![p] = NoRow]
    /\ seen' = [seen EXCEPT ![p] = NoReading]
    /\ aim' = [aim EXCEPT ![p] = "FAILED"]

Bumps == fresh' = {branch}

-----------------------------------------------------------------------------
(* Builds and the remote repository.                                       *)

\* Fault: a new intent does not change the version.
AcceptSameVersion ==
    /\ target.desired < MaxGeneration
    /\ LET g == target.desired + 1
       IN  /\ target' = [target EXCEPT !.desired = g]
           /\ intent' = [StaleIntents EXCEPT ![g] = "WAITING_FOR_BUILD"]
           /\ build' = [build EXCEPT ![g] = "ACTIVE"]
           /\ since' = [since EXCEPT ![g] = {branch}]
    /\ UNCHANGED <<commit, branch, fresh, observerVars>>

\* A build is accepted with ON_SUCCESS: accept_in_transaction.
Accept ==
    /\ target.desired < MaxGeneration
    /\ LET g == target.desired + 1
       IN  /\ target' = Changed(g, target.active, target.head, target.state)
           /\ intent' = [StaleIntents EXCEPT ![g] = "WAITING_FOR_BUILD"]
           /\ build' = [build EXCEPT ![g] = "ACTIVE"]
           /\ since' = [since EXCEPT ![g] = {branch}]
    /\ Bumps
    /\ UNCHANGED <<commit, branch, observerVars>>

\* The build ends; it has pinned its commit if it succeeded.
BuildEnds(g) ==
    /\ build[g] = "ACTIVE"
    /\ \E status \in {"SUCCEEDED", "FAILED", "OUTCOME_UNKNOWN"}, c \in Heads :
         /\ status = "SUCCEEDED" <=> c # None
         /\ build' = [build EXCEPT ![g] = status]
         /\ commit' = [commit EXCEPT ![g] = c]
    /\ UNCHANGED <<target, intent, branch, observerVars, since, fresh>>

\* A push, also a forced one, a deletion or a new branch of the same name.
BranchMoves(head) ==
    /\ head # branch
    /\ branch' = head
    /\ since' = [g \in Generations |->
                    IF intent[g] = "ABSENT" THEN {} ELSE since[g] \cup {head}]
    /\ fresh' = fresh \cup {head}
    /\ UNCHANGED <<target, intent, build, commit, observerVars>>

-----------------------------------------------------------------------------
(* _observe.                                                               *)

ReadTarget(p) ==
    /\ \/ pc[p] = "target"
       \/ p \in Pollers /\ pc[p] = "idle" /\ target.version < MaxNoise
    /\ target.desired # 0
    /\ snap' = [snap EXCEPT ![p] = target]
    /\ pc' = [pc EXCEPT ![p] = "head"]
    /\ UNCHANGED <<target, intent, build, commit, branch, serving, seen, aim,
                   since, fresh>>

\* The state of a branch at head, for the active build of the row.
StateOf(active, head) ==
    CASE head = None -> "MISSING"
      [] head # None /\ active = 0 -> "UNDEPLOYED"
      [] head # None /\ active # 0 /\ head = commit[active] -> "MATCHED"
      [] OTHER -> IF <<commit[active], head>> \in Ancestry THEN "AHEAD" ELSE "DIVERGED"

ReadHead(p) ==
    /\ pc[p] = "head"
    /\ \/ seen' = [seen EXCEPT ![p] =
                      [head |-> branch, state |-> StateOf(snap[p].active, branch)]]
       \/ target.version < MaxNoise /\ seen' = [seen EXCEPT ![p] = NoReading]
    /\ pc' = [pc EXCEPT ![p] = "observe"]
    /\ UNCHANGED <<target, intent, build, commit, branch, serving, snap, aim,
                   since, fresh>>

\* Fault: only the active build is compared.
SameRowByActive(p) == target.active = snap[p].active

\* The row is the one p has read.
SameRow(p) == target.version = snap[p].version /\ target.active = snap[p].active

\* The row with the reading of p.
Recorded(p) ==
    Changed(target.desired, IF seen[p].state = "MISSING" THEN 0 ELSE target.active,
            seen[p].head, seen[p].state)

\* What reconcile makes of the row it has in the end.
Decides(p, row) ==
    IF p \in Pollers \/ row.state = "UNKNOWN" THEN Done(p)
    ELSE /\ pc' = [pc EXCEPT ![p] = "settle"]
         /\ snap' = [snap EXCEPT ![p] = row]
         /\ aim' = [aim EXCEPT ![p] = IF row.head = commit[serving[p]]
                                      THEN "DEPLOYED" ELSE "SOURCE_HEAD_CHANGED"]
         /\ seen' = [seen EXCEPT ![p] = NoReading]
         /\ UNCHANGED serving

Observe(p) ==
    /\ pc[p] = "observe"
    /\ SameRow(p)
    /\ target' = Recorded(p)
    /\ intent' = IF seen[p].state = "MISSING" THEN StaleIntents ELSE intent
    /\ Bumps
    /\ Decides(p, Recorded(p))
    /\ UNCHANGED <<build, commit, branch, since>>

\* The reading is refused, and the row is read again.
ObserveRefused(p) ==
    /\ pc[p] = "observe"
    /\ ~SameRow(p)
    /\ IF p \in Pollers THEN Done(p)
       ELSE /\ pc' = [pc EXCEPT ![p] = "reread"]
            /\ UNCHANGED <<serving, snap, seen, aim>>
    /\ UNCHANGED <<target, intent, build, commit, branch, since, fresh>>

Reread(p) ==
    /\ pc[p] = "reread"
    /\ Decides(p, target)
    /\ UNCHANGED <<target, intent, build, commit, branch, since, fresh>>

-----------------------------------------------------------------------------
(* reconcile.                                                              *)

\* pending has listed the intent, and reconcile has found it pending.
Pick(p, g) ==
    /\ p \in Reconcilers
    /\ pc[p] = "idle"
    /\ Pending(g)
    /\ target.version < MaxVersion
    /\ pc' = [pc EXCEPT ![p] = "build"]
    /\ serving' = [serving EXCEPT ![p] = g]
    /\ UNCHANGED <<target, intent, build, commit, branch, snap, seen, aim,
                   since, fresh>>

\* Fault: the intent of a failed build waits on.
ReadBuildWaits(p) ==
    /\ pc[p] = "build"
    /\ IF build[serving[p]] = "SUCCEEDED"
       THEN pc' = [pc EXCEPT ![p] = "target"] /\ UNCHANGED <<serving, snap, seen, aim>>
       ELSE Done(p)
    /\ UNCHANGED <<target, intent, build, commit, branch, since, fresh>>

\* A build that is not over, or OUTCOME_UNKNOWN, leaves the intent waiting; a
\* catalog that cannot be read fails it.
ReadBuild(p) ==
    /\ pc[p] = "build"
    /\ LET status == build[serving[p]]
       IN  \/ /\ status \in {"SUCCEEDED", "FAILED"}
              /\ pc' = [pc EXCEPT ![p] = "settle"]
              /\ UNCHANGED <<serving, snap, seen, aim>>
           \/ /\ status = "SUCCEEDED"
              /\ pc' = [pc EXCEPT ![p] = "target"]
              /\ UNCHANGED <<serving, snap, seen, aim>>
           \/ /\ status \notin {"SUCCEEDED", "FAILED"}
              /\ Done(p)
    /\ UNCHANGED <<target, intent, build, commit, branch, since, fresh>>

\* Fault: the observation is not checked.
ObservationSkipped(p) == TRUE

\* The observation the decision rests on is still the last one.
ObservationHolds(p) ==
    /\ target.version = snap[p].version
    /\ target.head = snap[p].head
    /\ target.state \notin {"UNKNOWN", "MISSING"}

Verdict(p) == IF target.desired = serving[p] THEN aim[p] ELSE "NEWER_INTENT"

\* Fault: a settled intent may be settled again.
CanSettleAgain(p) ==
    Verdict(p) \in {"DEPLOYED", "SOURCE_HEAD_CHANGED"} => ObservationHolds(p)

CanSettle(p) ==
    /\ Pending(serving[p])
    /\ Verdict(p) \in {"DEPLOYED", "SOURCE_HEAD_CHANGED"} => ObservationHolds(p)

\* The build is what the row says is there.
Deployable(p) ==
    build[serving[p]] = "SUCCEEDED" /\ commit[serving[p]] = snap[p].head

SettleDeployed(p) ==
    /\ pc[p] = "settle"
    /\ CanSettle(p)
    /\ Verdict(p) = "DEPLOYED"
    /\ Deployable(p)
    /\ intent' = [intent EXCEPT ![serving[p]] = "DEPLOYED"]
    /\ target' = Changed(target.desired, serving[p], target.head, "MATCHED")
    /\ Bumps
    /\ Done(p)
    /\ UNCHANGED <<build, commit, branch, since>>

SettleOtherwise(p) ==
    /\ pc[p] = "settle"
    /\ CanSettle(p)
    /\ LET verdict == IF Verdict(p) = "DEPLOYED"
                      THEN "TARGET_OR_BUILD_CHANGED" ELSE Verdict(p)
       IN  /\ Verdict(p) = "DEPLOYED" => ~Deployable(p)
           /\ intent' = [intent EXCEPT ![serving[p]] = verdict]
    /\ Done(p)
    /\ UNCHANGED <<target, build, commit, branch, since, fresh>>

\* The intent has been settled, or the observation is not the last one: the
\* next round tries again.
SettleRefused(p) ==
    /\ pc[p] = "settle"
    /\ ~CanSettle(p)
    /\ Done(p)
    /\ UNCHANGED <<target, intent, build, commit, branch, since, fresh>>

\* An exception, or the death of the process.
RoundFails(p) ==
    /\ pc[p] # "idle"
    /\ target.version < MaxNoise
    /\ Done(p)
    /\ UNCHANGED <<target, intent, build, commit, branch, since, fresh>>

-----------------------------------------------------------------------------

ObserverStep(p) ==
    \/ ReadTarget(p) \/ ReadHead(p) \/ Observe(p) \/ ObserveRefused(p) \/ Reread(p)
    \/ ReadBuild(p) \/ SettleDeployed(p) \/ SettleOtherwise(p) \/ SettleRefused(p)
    \/ \E g \in Generations : Pick(p, g)

DeploymentNext ==
    \/ Accept
    \/ \E g \in Generations : BuildEnds(g)
    \/ \E head \in Heads : BranchMoves(head)
    \/ \E p \in Observers : ObserverStep(p) \/ RoundFails(p)

DeploymentSpec == DeploymentInit /\ [][DeploymentNext]_vars

\* The maintenance loop of an instance comes around, and the exceptions that end
\* its rounds do not hit the same step for ever.
DeploymentFairness ==
    \A p \in Reconcilers :
        /\ WF_vars(\E g \in Generations : Pick(p, g))
        /\ SF_vars(ReadBuild(p))
        /\ SF_vars(ReadTarget(p))
        /\ SF_vars(ReadHead(p))
        /\ SF_vars(Observe(p) \/ ObserveRefused(p) \/ Reread(p))
        /\ SF_vars(SettleDeployed(p) \/ SettleOtherwise(p) \/ SettleRefused(p))

FairDeploymentSpec == DeploymentSpec /\ DeploymentFairness

-----------------------------------------------------------------------------
(* Properties.                                                             *)

\* The target row never contradicts itself, although accept, observe and settle
\* each write a part of it: MATCHED, AHEAD and DIVERGED speak of the commit of
\* the active build, and a branch that is gone has no active build.
TargetIsConsistent ==
    /\ target.state = "MISSING" => target.active = 0 /\ target.head = None
    /\ target.state = "UNDEPLOYED" => target.active = 0
    /\ target.state = "UNKNOWN" => target.head = None
    /\ target.state \in {"MATCHED", "AHEAD", "DIVERGED"} =>
         /\ target.active # 0
         /\ target.state = StateOf(target.active, target.head)

\* Only the newest intent is pending: a newer one, even if its build fails,
\* never lets an older one come back (README.md:136).
OnlyNewestPending == \A g \in Generations : Pending(g) => g = target.desired

\* The active build succeeded, its intent was settled as DEPLOYED, and no later
\* one was: two reconcilers never take the pointer back.
ActiveIsNewestDeployed ==
    target.active # 0 =>
        /\ intent[target.active] = "DEPLOYED"
        /\ build[target.active] = "SUCCEEDED"
        /\ \A g \in Generations : g > target.active => intent[g] # "DEPLOYED"

\* A build is deployed only if its commit was the head of the branch at some
\* time after it was accepted, however old the readings of its reconciler are.
DeployedWasHead ==
    \A g \in Generations : intent[g] = "DEPLOYED" => commit[g] \in since[g]

\* The newest intent gives way only to what happened in its own time: it is
\* staled without a successor only if the branch was really gone since it was
\* accepted, and for a changed head only if the branch had another head since.
StaleForCause ==
    \A g \in Generations :
        /\ intent[g] = "NEWER_INTENT" => g < target.desired \/ None \in since[g]
        /\ intent[g] = "SOURCE_HEAD_CHANGED" => since[g] \ {commit[g], None} # {}

\* What became of an intent, whatever the reason.
OutcomeOf(g) ==
    CASE intent[g] = "ABSENT" -> "NONE"
      [] Pending(g) -> "PENDING"
      [] intent[g] = "DEPLOYED" -> "DEPLOYED"
      [] OTHER -> "ENDED"

Pointer == INSTANCE DeploymentPointer
           WITH MaxIntent <- MaxGeneration, newest <- target.desired, active <- target.active,
                outcome <- [g \in Generations |-> OutcomeOf(g)]

\* However many observers read, retry and settle at once, a target behaves like
\* one pointer that moves to the newest intent, once, or to none.
ImplementsPointer == Pointer!PointerSpec

KeepsSettled ==
    \A g \in Generations :
        intent[g] \notin {"ABSENT", "WAITING_FOR_BUILD"} => UNCHANGED intent[g]

\* A settled intent is never settled again by a slower reconciler.
SettledIsFinal == [][KeepsSettled]_vars

RecordsFreshHeads ==
    target'.head # target.head => target'.head \in fresh \/ target'.state = "UNKNOWN"

\* A reading of Git never overwrites a younger one: the head that is recorded
\* was the head of the branch after the version it replaces was written.
ObservationsMoveForward == [][RecordsFreshHeads]_vars

\* The intent of a build that ends plainly is settled in the end, although every
\* poll in between makes the reconciler start again, and whatever the branch does;
\* after the failures and the polls below MaxNoise are over.
FinishedIntentsSettle ==
    \A g \in Generations :
        Pending(g) /\ build[g] \in {"SUCCEEDED", "FAILED"} ~> ~Pending(g)
=============================================================================
