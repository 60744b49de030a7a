-------------------------- MODULE DeploymentsProofs --------------------------
(* Theorems of Deployments.                                                *)
EXTENDS Deployments, TLAPS

-----------------------------------------------------------------------------
(* Types.                                                                  *)

\* The row with the reading of an observer is a row.
LEMMA RecordedType ==
    ASSUME DeploymentTypeOK, NEW p \in Observers
    PROVE  Recorded(p) \in Row
<1>1. target \in Row /\ seen[p] \in Reading
  BY DEF DeploymentTypeOK
<1>2. target.version + 1 \in Nat
  BY <1>1 DEF Row
<1>3. (IF seen[p].state = "MISSING" THEN 0 ELSE target.active) \in 0..MaxGeneration
  BY <1>1, DeploymentAssumption DEF Row
<1> QED BY <1>1, <1>2, <1>3 DEF Recorded, Changed, Row, Reading

\* A reading of Git for a row is a reading.
LEMMA StateOfType ==
    ASSUME NEW active, NEW head
    PROVE  StateOf(active, head) \in SourceState
  BY DEF StateOf, SourceState

\* The variables of the observers have their types.
ObserverTypeOK ==
    /\ pc \in [Observers -> Place]
    /\ serving \in [Observers -> 0..MaxGeneration]
    /\ snap \in [Observers -> Row]
    /\ seen \in [Observers -> Reading]
    /\ aim \in [Observers -> Outcome]
    /\ \A p \in Reconcilers : pc[p] # "idle" => serving[p] # 0
    /\ \A p \in Pollers : pc[p] \in {"idle", "head", "observe"}

\* Forgetting what was read keeps the types.
LEMMA DoneType ==
    ASSUME ObserverTypeOK, NEW p \in Observers, Done(p)
    PROVE  ObserverTypeOK'
<1>1. NoRow \in Row /\ NoReading \in Reading /\ 0 \in 0..MaxGeneration
  BY DeploymentAssumption DEF NoRow, NoReading, Row, Reading, Heads, SourceState
<1> QED BY <1>1 DEF Done, ObserverTypeOK, Outcome, Place, Observers

\* So does deciding what to make of a row.
LEMMA DecidesType ==
    ASSUME ObserverTypeOK, NEW p \in Observers, NEW row \in Row, Decides(p, row),
           pc[p] # "idle"
    PROVE  ObserverTypeOK'
<1>1. CASE p \in Pollers \/ row.state = "UNKNOWN"
  BY <1>1, DoneType DEF Decides
<1>2. CASE ~(p \in Pollers \/ row.state = "UNKNOWN")
  <2>1. NoReading \in Reading
    BY DEF NoReading, Reading, Heads, SourceState
  <2> QED BY <1>2, <2>1 DEF Decides, ObserverTypeOK, Outcome, Place, Observers
<1> QED BY <1>1, <1>2

\* The variables of the store and the repository have their types.
StoreTypeOK ==
    /\ target \in Row
    /\ intent \in [Generations -> IntentStatus]
    /\ build \in [Generations -> BuildState]
    /\ commit \in [Generations -> Heads]
    /\ branch \in Heads
    /\ since \in [Generations -> SUBSET Heads]
    /\ fresh \subseteq Heads

storeVars == <<target, intent, build, commit, branch, since, fresh>>

\* The types of the module are those of its two halves.
LEMMA TypesSplit == DeploymentTypeOK <=> StoreTypeOK /\ ObserverTypeOK
  BY DEF DeploymentTypeOK, StoreTypeOK, ObserverTypeOK

\* Every step of an observer keeps the types of the observers.
LEMMA ObserverTypeStep ==
    ASSUME DeploymentTypeOK, NEW p \in Observers, ObserverStep(p) \/ RoundFails(p)
    PROVE  ObserverTypeOK'
<1>0. ObserverTypeOK /\ StoreTypeOK
  BY TypesSplit
<1>1. CASE ReadTarget(p)
  BY <1>0, <1>1, DeploymentAssumption
  DEF ReadTarget, ObserverTypeOK, StoreTypeOK, Place, Observers
<1>2. CASE ReadHead(p)
  <2>1. StateOf(snap[p].active, branch) \in SourceState
    BY StateOfType
  <2>2. [head |-> branch, state |-> StateOf(snap[p].active, branch)] \in Reading
    BY <1>0, <2>1 DEF Reading, StoreTypeOK
  <2>3. NoReading \in Reading
    BY DEF NoReading, Reading, Heads, SourceState
  <2> QED BY <1>0, <1>2, <2>2, <2>3 DEF ReadHead, ObserverTypeOK, Place, Observers
<1>3. CASE Observe(p)
  BY <1>0, <1>3, RecordedType, DecidesType DEF Observe
<1>4. CASE ObserveRefused(p)
  <2>1. CASE p \in Pollers
    BY <1>0, <1>4, <2>1, DoneType DEF ObserveRefused
  <2> QED BY <1>0, <1>4, <2>1 DEF ObserveRefused, ObserverTypeOK, Place, Observers
<1>5. CASE Reread(p)
  BY <1>0, <1>5, DecidesType DEF Reread, StoreTypeOK
<1>6. CASE ReadBuild(p)
  <2>1. CASE Done(p)
    BY <1>0, <2>1, DoneType
  <2>2. p \in Reconcilers
    BY <1>0, <1>6 DEF ReadBuild, ObserverTypeOK, Observers
  <2> QED BY <1>0, <1>6, <2>1, <2>2, DeploymentAssumption
          DEF ReadBuild, ObserverTypeOK, Place, Observers
<1>7. CASE SettleDeployed(p) \/ SettleOtherwise(p) \/ SettleRefused(p) \/ RoundFails(p)
  BY <1>0, <1>7, DoneType DEF SettleDeployed, SettleOtherwise, SettleRefused, RoundFails
<1>8. ASSUME NEW g \in Generations, Pick(p, g) PROVE ObserverTypeOK'
  <2>1. g \in 0..MaxGeneration /\ g # 0
    BY DeploymentAssumption DEF Generations
  <2> QED BY <1>0, <1>8, <2>1, DeploymentAssumption DEF Pick, ObserverTypeOK, Place, Observers
<1> QED BY <1>1, <1>2, <1>3, <1>4, <1>5, <1>6, <1>7, <1>8 DEF ObserverStep

\* Every step of an observer keeps the types of the store.
LEMMA ObserverStoreStep ==
    ASSUME DeploymentTypeOK, NEW p \in Observers, ObserverStep(p) \/ RoundFails(p)
    PROVE  StoreTypeOK'
<1>0. ObserverTypeOK /\ StoreTypeOK
  BY TypesSplit
<1>1. CASE Observe(p)
  <2>1. StaleIntents \in [Generations -> IntentStatus]
    BY <1>0 DEF StaleIntents, StoreTypeOK, IntentStatus, Stale
  <2>2. target' \in Row
    BY <1>1, RecordedType DEF Observe
  <2> QED BY <1>0, <1>1, <2>1, <2>2 DEF Observe, Bumps, StoreTypeOK
<1>2. CASE SettleDeployed(p)
  <2>1. target' \in Row
    BY <1>0, <1>2 DEF SettleDeployed, Changed, StoreTypeOK, ObserverTypeOK, Row, SourceState
  <2>2. intent' \in [Generations -> IntentStatus]
    BY <1>0, <1>2 DEF SettleDeployed, StoreTypeOK, IntentStatus
  <2> QED BY <1>0, <1>2, <2>1, <2>2 DEF SettleDeployed, Bumps, StoreTypeOK
<1>3. CASE SettleOtherwise(p)
  <2>1. Verdict(p) \in Outcome \cup {"NEWER_INTENT"}
    BY <1>0 DEF Verdict, ObserverTypeOK
  <2>2. intent' \in [Generations -> IntentStatus]
    BY <1>0, <1>3, <2>1 DEF SettleOtherwise, StoreTypeOK, IntentStatus, Stale, Outcome
  <2> QED BY <1>0, <1>3, <2>2 DEF SettleOtherwise, StoreTypeOK
<1>4. CASE UNCHANGED storeVars
  BY <1>0, <1>4 DEF storeVars, StoreTypeOK
<1> QED
  BY <1>1, <1>2, <1>3, <1>4
  DEF ObserverStep, RoundFails, storeVars, ReadTarget, ReadHead, ObserveRefused, Reread,
      ReadBuild, SettleRefused, Pick

\* Every step keeps the types.
LEMMA DeploymentTypeStep ==
    ASSUME DeploymentTypeOK, [DeploymentNext]_vars
    PROVE  DeploymentTypeOK'
<1>0. ObserverTypeOK /\ StoreTypeOK
  BY TypesSplit
<1>1. CASE Accept
  <2> DEFINE g == target.desired + 1
  <2>1. g \in Generations /\ g \in 0..MaxGeneration
    BY <1>0, <1>1, DeploymentAssumption DEF Accept, StoreTypeOK, Row, Generations
  <2>2. target' \in Row
    BY <1>0, <1>1, <2>1 DEF Accept, Changed, StoreTypeOK, Row
  <2>3. intent' \in [Generations -> IntentStatus]
    BY <1>0, <1>1, <2>1 DEF Accept, StaleIntents, StoreTypeOK, IntentStatus, Stale
  <2>4. build' \in [Generations -> BuildState]
    BY <1>0, <1>1, <2>1 DEF Accept, StoreTypeOK, BuildState
  <2>5. since' \in [Generations -> SUBSET Heads]
    BY <1>0, <1>1, <2>1 DEF Accept, StoreTypeOK
  <2>6. StoreTypeOK'
    BY <1>0, <1>1, <2>2, <2>3, <2>4, <2>5 DEF Accept, Bumps, StoreTypeOK
  <2> QED BY <1>0, <1>1, <2>6, TypesSplit DEF Accept, observerVars, ObserverTypeOK,
          DeploymentTypeOK, StoreTypeOK
<1>2. ASSUME NEW g \in Generations, BuildEnds(g) PROVE DeploymentTypeOK'
  BY <1>2 DEF BuildEnds, observerVars, DeploymentTypeOK, BuildState
<1>3. ASSUME NEW head \in Heads, BranchMoves(head) PROVE DeploymentTypeOK'
  <2>1. since' \in [Generations -> SUBSET Heads]
    BY <1>0, <1>3 DEF BranchMoves, StoreTypeOK
  <2> QED BY <1>3, <2>1 DEF BranchMoves, observerVars, DeploymentTypeOK
<1>4. ASSUME NEW p \in Observers, ObserverStep(p) \/ RoundFails(p)
      PROVE  DeploymentTypeOK'
  <2>1. ObserverTypeOK' /\ StoreTypeOK'
    BY <1>4, ObserverTypeStep, ObserverStoreStep
  <2> QED BY <2>1 DEF DeploymentTypeOK, StoreTypeOK, ObserverTypeOK
<1>5. CASE UNCHANGED vars
  BY <1>5 DEF vars, observerVars, DeploymentTypeOK
<1> QED BY <1>1, <1>2, <1>3, <1>4, <1>5 DEF DeploymentNext

-----------------------------------------------------------------------------
(* Generations.                                                            *)

OrderOf(g) ==
    /\ intent[g] = "ABSENT" <=> g > target.desired
    /\ build[g] = "ABSENT" <=> g > target.desired
    /\ commit[g] # None <=> build[g] = "SUCCEEDED"
    /\ intent[g] = "DEPLOYED" => build[g] = "SUCCEEDED"

\* The generations accepted are those up to the newest; a build that succeeded
\* has a commit, and only such a build is deployed.
GenerationsInOrder == \A g \in Generations : OrderOf(g)

\* Every step keeps the generations in order and older intents settled.
LEMMA OrderStep ==
    ASSUME DeploymentTypeOK, GenerationsInOrder, OnlyNewestPending, [DeploymentNext]_vars
    PROVE  GenerationsInOrder' /\ OnlyNewestPending'
<1>0. /\ target \in Row /\ MaxGeneration \in Nat
      /\ \A g \in Generations : g \in Nat /\ OrderOf(g)
      /\ intent \in [Generations -> IntentStatus]
      /\ build \in [Generations -> BuildState]
      /\ commit \in [Generations -> Heads]
      /\ target.desired \in Nat
  BY DeploymentAssumption DEF DeploymentTypeOK, GenerationsInOrder, Generations, Row
<1>1. CASE Accept
  <2>1. target'.desired = target.desired + 1
    BY <1>1 DEF Accept, Changed
  <2>2. ASSUME NEW h \in Generations
        PROVE  OrderOf(h)' /\ (Pending(h)' => h = target'.desired)
    BY <1>0, <1>1, <2>1 DEF Accept, StaleIntents, Pending, OrderOf
  <2> QED BY <2>2 DEF GenerationsInOrder, OnlyNewestPending
<1>2. ASSUME NEW g \in Generations, BuildEnds(g)
      PROVE  GenerationsInOrder' /\ OnlyNewestPending'
  <2>1. ASSUME NEW h \in Generations PROVE OrderOf(h)'
    BY <1>0, <1>2 DEF BuildEnds, OrderOf, BuildState
  <2> QED BY <1>2, <2>1 DEF BuildEnds, GenerationsInOrder, OnlyNewestPending, Pending
<1>3. ASSUME target'.desired = target.desired, UNCHANGED <<build, commit>>,
             \A g \in Generations :
                \/ intent'[g] = intent[g]
                \/ /\ Pending(g)
                   /\ intent'[g] \notin {"ABSENT", "WAITING_FOR_BUILD"}
                   /\ intent'[g] = "DEPLOYED" => build[g] = "SUCCEEDED"
      PROVE  GenerationsInOrder' /\ OnlyNewestPending'
  <2>1. ASSUME NEW h \in Generations PROVE OrderOf(h)'
    BY <1>0, <1>3 DEF OrderOf, Pending
  <2> QED BY <1>3, <2>1 DEF GenerationsInOrder, OnlyNewestPending, Pending
<1>4. ASSUME NEW p \in Observers, Observe(p)
      PROVE  GenerationsInOrder' /\ OnlyNewestPending'
  BY <1>0, <1>3, <1>4 DEF Observe, Recorded, Changed, StaleIntents
<1>5. ASSUME NEW p \in Observers, SettleDeployed(p)
      PROVE  GenerationsInOrder' /\ OnlyNewestPending'
  BY <1>0, <1>3, <1>5 DEF SettleDeployed, CanSettle, Deployable, Changed
<1>6. ASSUME NEW p \in Observers, SettleOtherwise(p)
      PROVE  GenerationsInOrder' /\ OnlyNewestPending'
  <2>1. Verdict(p) \in {"DEPLOYED", "SOURCE_HEAD_CHANGED", "FAILED", "NEWER_INTENT"}
    BY DEF Verdict, DeploymentTypeOK, Outcome
  <2> QED BY <1>0, <1>3, <1>6, <2>1 DEF SettleOtherwise, CanSettle
<1>7. CASE UNCHANGED <<target, intent, build, commit>>
  BY <1>3, <1>7
<1> QED
  BY <1>1, <1>2, <1>4, <1>5, <1>6, <1>7
  DEF DeploymentNext, ObserverStep, RoundFails, BranchMoves, ReadTarget, ReadHead,
      ObserveRefused, Reread, ReadBuild, SettleRefused, Pick, vars

-----------------------------------------------------------------------------
(* Facts that stay.                                                        *)

\* A settled intent stays as it is.
LEMMA SettledStays ==
    ASSUME DeploymentTypeOK, GenerationsInOrder, [DeploymentNext]_vars
    PROVE  KeepsSettled
<1>0. /\ target \in Row /\ MaxGeneration \in Nat
      /\ intent \in [Generations -> IntentStatus]
      /\ \A g \in Generations : g \in Nat /\ OrderOf(g)
  BY DeploymentAssumption DEF DeploymentTypeOK, GenerationsInOrder, Generations
<1>1. CASE Accept
  BY <1>0, <1>1 DEF Accept, StaleIntents, Pending, KeepsSettled, OrderOf, Row
<1>2. ASSUME NEW p \in Observers, Observe(p) PROVE KeepsSettled
  BY <1>0, <1>2 DEF Observe, StaleIntents, Pending, KeepsSettled
<1>3. ASSUME NEW p \in Observers, SettleDeployed(p) \/ SettleOtherwise(p)
      PROVE  KeepsSettled
  BY <1>0, <1>3 DEF SettleDeployed, SettleOtherwise, CanSettle, Pending, KeepsSettled
<1>4. CASE UNCHANGED intent
  BY <1>4 DEF KeepsSettled
<1> QED
  BY <1>1, <1>2, <1>3, <1>4
  DEF DeploymentNext, ObserverStep, RoundFails, BranchMoves, BuildEnds, ReadTarget,
      ReadHead, ObserveRefused, Reread, ReadBuild, SettleRefused, Pick, vars

\* So does a build that succeeded, and its commit.
LEMMA BuildStays ==
    ASSUME DeploymentTypeOK, GenerationsInOrder, [DeploymentNext]_vars,
           NEW g \in Generations, build[g] = "SUCCEEDED"
    PROVE  build'[g] = "SUCCEEDED" /\ commit'[g] = commit[g]
<1>0. /\ target \in Row /\ MaxGeneration \in Nat /\ g \in Nat /\ OrderOf(g)
      /\ build \in [Generations -> BuildState]
      /\ commit \in [Generations -> Heads]
  BY DeploymentAssumption DEF DeploymentTypeOK, GenerationsInOrder, Generations
<1>1. CASE Accept
  BY <1>0, <1>1 DEF Accept, OrderOf, Row
<1>2. ASSUME NEW h \in Generations, BuildEnds(h)
      PROVE  build'[g] = "SUCCEEDED" /\ commit'[g] = commit[g]
  BY <1>0, <1>2 DEF BuildEnds
<1>3. CASE UNCHANGED <<build, commit>>
  BY <1>3
<1> QED
  BY <1>1, <1>2, <1>3
  DEF DeploymentNext, ObserverStep, RoundFails, BranchMoves, Observe, SettleDeployed,
      SettleOtherwise, ReadTarget, ReadHead, ObserveRefused, Reread, ReadBuild,
      SettleRefused, Pick, vars

-----------------------------------------------------------------------------
(* The active build.                                                       *)

\* Every step keeps the pointer on the newest deployed build.
LEMMA ActiveStep ==
    ASSUME DeploymentTypeOK, GenerationsInOrder, ActiveIsNewestDeployed,
           [DeploymentNext]_vars
    PROVE  ActiveIsNewestDeployed'
<1>0. /\ target \in Row /\ MaxGeneration \in Nat /\ 0 \notin Generations
      /\ \A g \in Generations : g \in Nat /\ OrderOf(g)
      /\ \A g \in 0..MaxGeneration : g # 0 => g \in Generations
      /\ intent \in [Generations -> IntentStatus]
  BY DeploymentAssumption DEF DeploymentTypeOK, GenerationsInOrder, Generations
<1>1. ASSUME NEW p \in Observers, SettleDeployed(p) PROVE ActiveIsNewestDeployed'
  <2> DEFINE g == serving[p]
  <2>1. p \in Reconcilers /\ g # 0 /\ g \in 0..MaxGeneration
    BY <1>1 DEF SettleDeployed, DeploymentTypeOK, Observers
  <2>2. g \in Generations /\ g = target.desired
    BY <1>0, <1>1, <2>1 DEF SettleDeployed, Verdict
  <2>3. target'.active = g /\ build' = build
    BY <1>1 DEF SettleDeployed, Changed
  <2>4. intent'[g] = "DEPLOYED" /\ build[g] = "SUCCEEDED"
    BY <1>0, <1>1, <2>2 DEF SettleDeployed, Deployable
  <2>5. ASSUME NEW h \in Generations, h > g PROVE intent'[h] # "DEPLOYED"
    BY <1>0, <1>1, <2>2, <2>5 DEF SettleDeployed, OrderOf
  <2> QED BY <2>3, <2>4, <2>5 DEF ActiveIsNewestDeployed
<1>2. ASSUME target'.active \in {0, target.active},
             \A g \in Generations : intent'[g] = "DEPLOYED" => intent[g] = "DEPLOYED"
      PROVE  ActiveIsNewestDeployed'
  <2>1. SUFFICES ASSUME target.active # 0, target'.active = target.active
        PROVE  ActiveIsNewestDeployed'
    BY <1>2 DEF ActiveIsNewestDeployed
  <2>2. target.active \in Generations
    BY <1>0, <2>1 DEF Row
  <2>3. intent'[target.active] = "DEPLOYED"
    BY <2>1, <2>2, SettledStays DEF ActiveIsNewestDeployed, KeepsSettled
  <2>4. build'[target.active] = "SUCCEEDED"
    BY <2>1, <2>2, BuildStays DEF ActiveIsNewestDeployed
  <2> QED BY <1>2, <2>1, <2>3, <2>4 DEF ActiveIsNewestDeployed
<1>3. CASE Accept
  BY <1>0, <1>2, <1>3 DEF Accept, Changed, StaleIntents
<1>4. ASSUME NEW p \in Observers, Observe(p) PROVE ActiveIsNewestDeployed'
  BY <1>0, <1>2, <1>4 DEF Observe, Recorded, Changed, StaleIntents
<1>5. ASSUME NEW p \in Observers, SettleOtherwise(p) PROVE ActiveIsNewestDeployed'
  BY <1>0, <1>2, <1>5 DEF SettleOtherwise
<1>6. CASE UNCHANGED <<target, intent>>
  BY <1>2, <1>6
<1> QED
  BY <1>1, <1>3, <1>4, <1>5, <1>6
  DEF DeploymentNext, ObserverStep, RoundFails, BranchMoves, BuildEnds, ReadTarget,
      ReadHead, ObserveRefused, Reread, ReadBuild, SettleRefused, Pick, vars

-----------------------------------------------------------------------------
(* The target row.                                                         *)

ReadingHolds(p) ==
    /\ snap[p].active # 0 => build[snap[p].active] = "SUCCEEDED"
    /\ pc[p] = "observe" =>
         \/ seen[p] = NoReading
         \/ seen[p].state = StateOf(snap[p].active, seen[p].head)

\* What an observer has read stays meaningful: the build that was active had
\* succeeded, and the state it computed is that of the head it has read.
ReadingsHold == \A p \in Observers : ReadingHolds(p)

\* The reading of one observer stays meaningful when that observer rests.
LEMMA ReadingStays ==
    ASSUME DeploymentTypeOK, GenerationsInOrder, [DeploymentNext]_vars,
           NEW p \in Observers, ReadingHolds(p),
           UNCHANGED <<snap[p], seen[p]>>, pc'[p] = "observe" => pc[p] = "observe"
    PROVE  ReadingHolds(p)'
<1>1. snap[p] \in Row /\ (snap[p].active # 0 => snap[p].active \in Generations)
  BY DeploymentAssumption DEF DeploymentTypeOK, Row, Generations
<1>2. snap[p].active # 0 =>
        /\ build'[snap[p].active] = "SUCCEEDED"
        /\ commit'[snap[p].active] = commit[snap[p].active]
  BY <1>1, BuildStays DEF ReadingHolds
<1>3. StateOf(snap[p].active, seen[p].head)' = StateOf(snap[p].active, seen[p].head)
  BY <1>2 DEF StateOf
<1> QED BY <1>2, <1>3 DEF ReadingHolds

\* Every step keeps the readings meaningful.
LEMMA ReadingsStep ==
    ASSUME DeploymentTypeOK, GenerationsInOrder, ActiveIsNewestDeployed, ReadingsHold,
           [DeploymentNext]_vars
    PROVE  ReadingsHold'
<1>0. /\ target \in Row
      /\ pc \in [Observers -> Place]
      /\ snap \in [Observers -> Row]
      /\ seen \in [Observers -> Reading]
      /\ target.active # 0 => build[target.active] = "SUCCEEDED"
  BY DEF DeploymentTypeOK, ActiveIsNewestDeployed
<1>1. ASSUME NEW p \in Observers, ObserverStep(p) \/ RoundFails(p)
      PROVE  ReadingsHold'
  <2>1. ASSUME NEW q \in Observers \ {p} PROVE ReadingHolds(q)'
    <3>1. UNCHANGED <<snap[q], seen[q], pc[q]>>
      BY <1>0, <1>1
      DEF ObserverStep, RoundFails, Observe, Decides, Done, SettleDeployed, SettleOtherwise,
          ReadTarget, ReadHead, ObserveRefused, Reread, ReadBuild, SettleRefused, Pick
    <3> QED BY <3>1, ReadingStays DEF ReadingsHold
  <2> SUFFICES ReadingHolds(p)'
    BY <2>1 DEF ReadingsHold
  <2>2. CASE Done(p)
    BY <1>0, <2>2 DEF Done, ReadingHolds, NoRow
  <2>3. CASE ReadTarget(p)
    BY <1>0, <2>3 DEF ReadTarget, ReadingHolds
  <2>4. CASE ReadHead(p)
    <3>1. /\ UNCHANGED <<snap, commit, build>>
          /\ \/ seen'[p] = NoReading
             \/ /\ seen'[p].head = branch
                /\ seen'[p].state = StateOf(snap[p].active, branch)
      BY <1>0, <2>4 DEF ReadHead
    <3>2. StateOf(snap[p].active, branch)' = StateOf(snap[p].active, branch)
      BY <2>4 DEF ReadHead, StateOf
    <3>3. UNCHANGED branch
      BY <2>4 DEF ReadHead
    <3> QED BY <3>1, <3>2, <3>3 DEF ReadingHolds, ReadingsHold
  <2>5. ASSUME NEW row \in Row, Decides(p, row), UNCHANGED build,
               row.active # 0 => build[row.active] = "SUCCEEDED"
        PROVE  ReadingHolds(p)'
    <3>1. CASE Done(p)
      BY <2>2, <3>1
    <3>2. CASE ~Done(p)
      <4>1. snap'[p] = row /\ pc'[p] = "settle"
        BY <1>0, <2>5, <3>2 DEF Decides
      <4> QED BY <2>5, <4>1 DEF ReadingHolds
    <3> QED BY <3>1, <3>2
  <2>6. CASE Observe(p)
    <3>1. Recorded(p) \in Row
      BY RecordedType
    <3>2. Recorded(p).active \in {0, target.active}
      BY DEF Recorded, Changed
    <3> QED BY <1>0, <2>5, <2>6, <3>1, <3>2 DEF Observe
  <2>7. CASE Reread(p)
    BY <1>0, <2>5, <2>7 DEF Reread
  <2>8. CASE UNCHANGED <<snap, seen>> /\ pc'[p] # "observe"
    BY <2>8, ReadingStays DEF ReadingsHold
  <2> QED
    BY <1>0, <1>1, <2>2, <2>3, <2>4, <2>6, <2>7, <2>8
    DEF ObserverStep, RoundFails, SettleDeployed, SettleOtherwise, ObserveRefused,
        ReadBuild, SettleRefused, Pick
<1>2. CASE UNCHANGED observerVars
  BY <1>2, ReadingStays DEF observerVars, ReadingsHold
<1> QED
  BY <1>1, <1>2 DEF DeploymentNext, Accept, BuildEnds, BranchMoves, vars

\* Every step leaves the target row consistent.
LEMMA TargetStep ==
    ASSUME DeploymentTypeOK, GenerationsInOrder, ActiveIsNewestDeployed, ReadingsHold,
           TargetIsConsistent, [DeploymentNext]_vars
    PROVE  TargetIsConsistent'
<1>0. /\ target \in Row
      /\ target.active # 0 => target.active \in Generations /\ build[target.active] = "SUCCEEDED"
  BY DeploymentAssumption DEF DeploymentTypeOK, ActiveIsNewestDeployed, Row, Generations
<1>1. target.active # 0 => commit'[target.active] = commit[target.active]
  BY <1>0, BuildStays
<1>2. ASSUME UNCHANGED <<target.active, target.head, target.state>>
      PROVE  TargetIsConsistent'
  <2>1. target.active # 0 =>
          StateOf(target.active, target.head)' = StateOf(target.active, target.head)
    BY <1>1, <1>2 DEF StateOf
  <2> QED BY <1>2, <2>1 DEF TargetIsConsistent
<1>3. CASE Accept
  BY <1>2, <1>3 DEF Accept, Changed
<1>4. ASSUME NEW p \in Observers, Observe(p) PROVE TargetIsConsistent'
  <2>1. /\ target'.head = seen[p].head /\ target'.state = seen[p].state
        /\ target'.active = IF seen[p].state = "MISSING" THEN 0 ELSE target.active
        /\ snap[p].active = target.active /\ UNCHANGED commit
    BY <1>4 DEF Observe, Recorded, Changed, SameRow
  <2>2. CASE seen[p] = NoReading
    BY <2>1, <2>2 DEF NoReading, TargetIsConsistent
  <2>3. CASE seen[p].state = StateOf(target.active, seen[p].head)
    <3>1. StateOf(target.active, seen[p].head)
            = StateOf(target.active, target'.head)
      BY <2>1
    <3>2. seen[p].state # "MISSING" =>
            StateOf(target.active, target.head)' = StateOf(target.active, target'.head)
      BY <2>1 DEF StateOf
    <3>3. /\ seen[p].state = "MISSING" => seen[p].head = None
          /\ seen[p].state = "UNDEPLOYED" => target.active = 0
          /\ seen[p].state # "UNKNOWN"
          /\ seen[p].state \in {"MATCHED", "AHEAD", "DIVERGED"} => target.active # 0
      BY <2>3 DEF StateOf
    <3> QED BY <2>1, <2>3, <3>1, <3>2, <3>3 DEF TargetIsConsistent
  <2> QED BY <1>4, <2>1, <2>2, <2>3 DEF Observe, ReadingsHold, ReadingHolds
<1>5. ASSUME NEW p \in Observers, SettleDeployed(p) PROVE TargetIsConsistent'
  <2> DEFINE g == serving[p]
  <2>1. p \in Reconcilers /\ g # 0 /\ g \in Generations
    BY <1>5, DeploymentAssumption DEF SettleDeployed, DeploymentTypeOK, Observers, Generations
  <2>2. target.head = snap[p].head
    BY <1>5 DEF SettleDeployed, CanSettle, ObservationHolds
  <2>3. commit[g] = target.head /\ commit[g] # None
    BY <1>5, <2>1, <2>2 DEF SettleDeployed, Deployable, GenerationsInOrder, OrderOf
  <2>4. target'.state = "MATCHED" /\ target'.active = g /\ target'.head = target.head
        /\ commit' = commit
    BY <1>5 DEF SettleDeployed, Changed
  <2>5. StateOf(g, target.head) = "MATCHED"
    BY <2>1, <2>3 DEF StateOf
  <2>6. StateOf(target.active, target.head)' = "MATCHED"
    BY <2>4, <2>5 DEF StateOf
  <2> QED BY <2>1, <2>4, <2>6 DEF TargetIsConsistent
<1>6. CASE UNCHANGED target
  BY <1>2, <1>6
<1> QED
  BY <1>3, <1>4, <1>5, <1>6
  DEF DeploymentNext, ObserverStep, RoundFails, BranchMoves, BuildEnds, SettleOtherwise,
      ReadTarget, ReadHead, ObserveRefused, Reread, ReadBuild, SettleRefused, Pick, vars

-----------------------------------------------------------------------------
(* Theorems.                                                               *)

DeploymentInductive ==
    /\ DeploymentTypeOK /\ GenerationsInOrder /\ OnlyNewestPending
    /\ ActiveIsNewestDeployed /\ ReadingsHold /\ TargetIsConsistent

\* The parts hold in an empty store.
LEMMA DeploymentInductiveInit == DeploymentInit => DeploymentInductive
<1> SUFFICES ASSUME DeploymentInit PROVE DeploymentInductive
  OBVIOUS
<1>1. NoRow \in Row /\ NoReading \in Reading /\ 0 \in 0..MaxGeneration
  BY DeploymentAssumption DEF NoRow, NoReading, Row, Reading, Heads, SourceState
<1>2. DeploymentTypeOK
  BY <1>1 DEF DeploymentInit, DeploymentTypeOK, Outcome, Place, Observers, BuildState,
      IntentStatus, Heads
<1>3. \A g \in Generations : g > 0
  BY DeploymentAssumption DEF Generations
<1>4. GenerationsInOrder /\ OnlyNewestPending
  BY <1>3 DEF DeploymentInit, NoRow, GenerationsInOrder, OrderOf, OnlyNewestPending, Pending
<1>5. ActiveIsNewestDeployed /\ ReadingsHold /\ TargetIsConsistent
  BY DEF DeploymentInit, NoRow, ActiveIsNewestDeployed, ReadingsHold, ReadingHolds,
      TargetIsConsistent
<1> QED BY <1>2, <1>4, <1>5 DEF DeploymentInductive

\* The types, the order of the generations, the pointer, the readings in flight
\* and the row hold together, for any number of reconcilers, pollers and commits.
THEOREM DeploymentInductiveHolds == DeploymentSpec => []DeploymentInductive
<1>1. DeploymentInductive /\ [DeploymentNext]_vars => DeploymentInductive'
  BY DeploymentTypeStep, OrderStep, ActiveStep, ReadingsStep, TargetStep
  DEF DeploymentInductive
<1> QED BY <1>1, DeploymentInductiveInit, PTL DEF DeploymentSpec

\* The columns and the variables of the observers keep their types.
THEOREM DeploymentTypeCorrect == DeploymentSpec => []DeploymentTypeOK
<1>1. DeploymentInductive => DeploymentTypeOK
  BY DEF DeploymentInductive
<1> QED BY <1>1, DeploymentInductiveHolds, PTL

\* accept_in_transaction and settle never leave an older intent pending.
THEOREM NewestIsPending == DeploymentSpec => []OnlyNewestPending
<1>1. DeploymentInductive => OnlyNewestPending
  BY DEF DeploymentInductive
<1> QED BY <1>1, DeploymentInductiveHolds, PTL

\* The active pointer never goes back to an older build (settle).
THEOREM ActiveIsNewest == DeploymentSpec => []ActiveIsNewestDeployed
<1>1. DeploymentInductive => ActiveIsNewestDeployed
  BY DEF DeploymentInductive
<1> QED BY <1>1, DeploymentInductiveHolds, PTL

\* accept, observe and settle together never leave a row that contradicts itself.
THEOREM TargetConsistent == DeploymentSpec => []TargetIsConsistent
<1>1. DeploymentInductive => TargetIsConsistent
  BY DEF DeploymentInductive
<1> QED BY <1>1, DeploymentInductiveHolds, PTL

\* No reconciler settles an intent a second time.
THEOREM SettledStaysSettled == DeploymentSpec => SettledIsFinal
<1>1. DeploymentInductive /\ [DeploymentNext]_vars => [KeepsSettled]_vars
  BY SettledStays DEF DeploymentInductive
<1> QED BY <1>1, DeploymentInductiveHolds, PTL DEF DeploymentSpec, SettledIsFinal

-----------------------------------------------------------------------------
(* Refinement.                                                             *)

\* A step that keeps the row's generation and pointer and every intent is none
\* of the pointer.
LEMMA PointerRests ==
    ASSUME target'.desired = target.desired, target'.active = target.active,
           UNCHANGED intent
    PROVE  UNCHANGED Pointer!pointerVars
BY DEF Pointer!pointerVars, OutcomeOf, Pending

\* What an intent has become, as one of the four outcomes.
LEMMA Outcomes ==
    ASSUME NEW g \in Generations
    PROVE  /\ OutcomeOf(g) = "NONE" <=> intent[g] = "ABSENT"
           /\ OutcomeOf(g) = "PENDING" <=> Pending(g)
           /\ OutcomeOf(g) = "DEPLOYED" <=> intent[g] = "DEPLOYED"
           /\ OutcomeOf(g) \in {"NONE", "PENDING", "DEPLOYED", "ENDED"}
BY DEF OutcomeOf, Pending

\* Staling the pending intents is what the pointer calls giving them up.
LEMMA StaleIsGivenUp ==
    ASSUME NEW g \in Generations, intent'[g] = StaleIntents[g]
    PROVE  OutcomeOf(g)' = Pointer!GivenUp[g]
<1>1. Pointer!GivenUp[g] = IF OutcomeOf(g) = "PENDING" THEN "ENDED" ELSE OutcomeOf(g)
  BY DEF Pointer!GivenUp, Pointer!Intents, Generations
<1>2. CASE Pending(g)
  <2>1. intent'[g] = "NEWER_INTENT"
    BY <1>2 DEF StaleIntents
  <2> QED BY <1>1, <1>2, <2>1, Outcomes DEF OutcomeOf, Pending
<1>3. CASE ~Pending(g)
  <2>1. intent'[g] = intent[g]
    BY <1>3 DEF StaleIntents
  <2> QED BY <1>1, <1>3, <2>1, Outcomes DEF OutcomeOf, Pending
<1> QED BY <1>2, <1>3

\* Only a reconciler settles, and it serves an intent.
LEMMA SettlerServes ==
    ASSUME DeploymentTypeOK, NEW p \in Observers, pc[p] = "settle"
    PROVE  serving[p] \in Generations
<1>1. p \in Reconcilers
  BY DEF DeploymentTypeOK, Observers
<1>2. serving[p] # 0 /\ serving[p] \in 0..MaxGeneration
  BY <1>1 DEF DeploymentTypeOK
<1> QED BY <1>2, DeploymentAssumption DEF Generations

\* Every step of the observers, of acceptance and of the remote repository is a
\* step of the pointer, or leaves it where it is.
LEMMA PointerStep ==
    ASSUME DeploymentTypeOK, [DeploymentNext]_vars
    PROVE  [Pointer!PointerNext]_(Pointer!pointerVars)
<1>0. /\ target \in Row /\ MaxGeneration \in Nat /\ 0 \notin Generations
      /\ intent \in [Generations -> IntentStatus]
      /\ Generations = Pointer!Intents
  BY DeploymentAssumption DEF DeploymentTypeOK, Generations, Pointer!Intents
<1>1. CASE Accept
  <2>0. PICK n \in Generations : n = target.desired + 1
    BY <1>0, <1>1 DEF Accept, Row, Generations
  <2>1. /\ target'.desired = n /\ target'.active = target.active
        /\ target.desired < MaxGeneration
    BY <1>1, <2>0 DEF Accept, Changed
  <2>2. /\ intent'[n] = "WAITING_FOR_BUILD"
        /\ \A g \in Generations : g # n => intent'[g] = StaleIntents[g]
    BY <1>0, <1>1, <2>0 DEF Accept, StaleIntents
  <2>3. OutcomeOf(n)' = "PENDING"
    BY <2>2 DEF OutcomeOf, Pending
  <2>4. \A g \in Generations : g # n => OutcomeOf(g)' = Pointer!GivenUp[g]
    BY <2>2, StaleIsGivenUp
  <2>5. Pointer!Accepts
    BY <1>0, <2>0, <2>1, <2>3, <2>4 DEF Pointer!Accepts, Pointer!GivenUp
  <2> QED BY <2>5 DEF Pointer!PointerNext
<1>2. ASSUME NEW p \in Observers, Observe(p)
      PROVE  [Pointer!PointerNext]_(Pointer!pointerVars)
  <2>1. target'.desired = target.desired
    BY <1>2 DEF Observe, Recorded, Changed
  <2>2. CASE seen[p].state = "MISSING"
    <3>1. target'.active = 0 /\ \A g \in Generations : intent'[g] = StaleIntents[g]
      BY <1>2, <2>2 DEF Observe, Recorded, Changed
    <3>2. \A g \in Generations : OutcomeOf(g)' = Pointer!GivenUp[g]
      BY <3>1, StaleIsGivenUp
    <3>3. Pointer!Disappears
      BY <1>0, <2>1, <3>1, <3>2 DEF Pointer!Disappears, Pointer!GivenUp
    <3> QED BY <3>3 DEF Pointer!PointerNext
  <2>3. CASE seen[p].state # "MISSING"
    BY <1>2, <2>1, <2>3, PointerRests DEF Observe, Recorded, Changed
  <2> QED BY <2>2, <2>3
<1>3. ASSUME NEW p \in Observers, SettleDeployed(p)
      PROVE  [Pointer!PointerNext]_(Pointer!pointerVars)
  <2>0. PICK g \in Generations : g = serving[p]
    BY <1>3, SettlerServes DEF SettleDeployed
  <2>1. Pending(g)
    BY <1>3, <2>0 DEF SettleDeployed, CanSettle
  <2>2. target.desired = g /\ g # 0
    BY <1>0, <1>3, <2>0 DEF SettleDeployed, Verdict
  <2>3. target'.desired = g /\ target'.active = g
    BY <1>3, <2>0, <2>2 DEF SettleDeployed, Changed
  <2>4. /\ intent'[g] = "DEPLOYED"
        /\ \A h \in Generations : h # g => intent'[h] = intent[h]
    BY <1>0, <1>3, <2>0 DEF SettleDeployed
  <2>5. OutcomeOf(g) = "PENDING" /\ OutcomeOf(g)' = "DEPLOYED"
    BY <2>1, <2>4 DEF OutcomeOf, Pending
  <2>6. \A h \in Generations : h # g => OutcomeOf(h)' = OutcomeOf(h)
    BY <2>4 DEF OutcomeOf, Pending
  <2>7. Pointer!Deploys
    BY <1>0, <2>1, <2>2, <2>3, <2>5, <2>6 DEF Pointer!Deploys
  <2> QED BY <2>7 DEF Pointer!PointerNext
<1>4. ASSUME NEW p \in Observers, SettleOtherwise(p)
      PROVE  [Pointer!PointerNext]_(Pointer!pointerVars)
  <2>0. PICK g \in Generations : g = serving[p]
    BY <1>4, SettlerServes DEF SettleOtherwise
  <2>1. Pending(g)
    BY <1>4, <2>0 DEF SettleOtherwise, CanSettle
  <2>2. Verdict(p) \in {"DEPLOYED", "SOURCE_HEAD_CHANGED", "FAILED", "NEWER_INTENT"}
    BY DEF Verdict, DeploymentTypeOK, Outcome
  <2>3. /\ intent'[g] \in {"TARGET_OR_BUILD_CHANGED", "SOURCE_HEAD_CHANGED", "FAILED",
                           "NEWER_INTENT"}
        /\ \A h \in Generations : h # g => intent'[h] = intent[h]
    BY <1>0, <1>4, <2>0, <2>2 DEF SettleOtherwise
  <2>4. OutcomeOf(g) = "PENDING" /\ OutcomeOf(g)' = "ENDED"
    BY <2>1, <2>3 DEF OutcomeOf, Pending
  <2>5. \A h \in Generations : h # g => OutcomeOf(h)' = OutcomeOf(h)
    BY <2>3 DEF OutcomeOf, Pending
  <2>6. Pointer!Ends(g)
    BY <1>0, <1>4, <2>1, <2>4, <2>5 DEF Pointer!Ends, SettleOtherwise
  <2> QED BY <1>0, <2>1, <2>6 DEF Pointer!PointerNext
<1>5. CASE UNCHANGED <<target, intent>>
  BY <1>5, PointerRests
<1> QED
  BY <1>1, <1>2, <1>3, <1>4, <1>5
  DEF DeploymentNext, ObserverStep, RoundFails, BranchMoves, BuildEnds, ReadTarget,
      ReadHead, ObserveRefused, Reread, ReadBuild, SettleRefused, Pick, vars

\* A target with any number of reconcilers and pollers implements the pointer
\* that only moves to the newest intent or to none.
THEOREM DeploymentsImplementPointer == DeploymentSpec => ImplementsPointer
<1>1. DeploymentInit => Pointer!PointerInit
  <2> SUFFICES ASSUME DeploymentInit PROVE Pointer!PointerInit
    OBVIOUS
  <2>1. \A g \in Generations : OutcomeOf(g) = "NONE"
    BY Outcomes DEF DeploymentInit
  <2> QED BY <2>1 DEF DeploymentInit, NoRow, Pointer!PointerInit, Pointer!Intents, Generations
<1>2. DeploymentTypeOK /\ [DeploymentNext]_vars => [Pointer!PointerNext]_(Pointer!pointerVars)
  BY PointerStep
<1> QED
  BY <1>1, <1>2, DeploymentTypeCorrect, PTL
  DEF DeploymentSpec, ImplementsPointer, Pointer!PointerSpec

-----------------------------------------------------------------------------
(* Readings and the time they speak of.  A decision rests on a reading of   *)
(* Git; these invariants say since when that reading is known to be true.   *)

\* The histories hold the head the branch has now, and what has been seen since
\* the version last grew was seen since every intent so far was accepted.
HeadsKept ==
    /\ branch \in fresh
    /\ \A g \in Generations : intent[g] # "ABSENT" => fresh \subseteq since[g]

\* A version names one content of the row.
SnapshotsHold ==
    /\ target.version = 0 => target = NoRow
    /\ \A p \in Observers :
         /\ snap[p].version <= target.version
         /\ snap[p].version = target.version => snap[p] = target

\* A reading that will be recorded was made since the version last grew.
ReadingsFresh ==
    \A p \in Observers :
        pc[p] = "observe" /\ snap[p].version = target.version
            => seen[p].head \in fresh \/ seen[p].state = "UNKNOWN"

\* The observation in the row was made after the newest intent was accepted.
RowOfItsTime ==
    \/ target.state = "UNKNOWN"
    \/ /\ target.head \in since[target.desired]
       /\ target.head = None => target.state = "MISSING"

\* A reconciler compares commits only for a build that succeeded, and by the time
\* it settles on a row that is still the last one, that row has been observed in
\* the time of the intent it serves: a row it read before was one without such an
\* observation only if nobody has written it since.
RoundHolds(p) ==
    /\ pc[p] # "settle" => aim[p] = "FAILED"
    /\ pc[p] # "idle" => intent[serving[p]] # "ABSENT"
    /\ pc[p] \in {"target", "head", "observe", "reread"} \/ aim[p] # "FAILED"
         => build[serving[p]] = "SUCCEEDED"
    /\ aim[p] = "SOURCE_HEAD_CHANGED" => snap[p].head # commit[serving[p]]
    /\ pc[p] = "reread" => snap[p].version < target.version
    /\ /\ pc[p] # "idle" /\ serving[p] = target.desired /\ Pending(serving[p])
       /\ \/ pc[p] \in {"head", "observe", "reread"} /\ snap[p].version < target.version
          \/ aim[p] # "FAILED" /\ snap[p].version = target.version
       => RowOfItsTime

RoundsHold == \A p \in Reconcilers : RoundHolds(p)

ChangedWasBuilt ==
    \A g \in Generations : intent[g] = "SOURCE_HEAD_CHANGED" => build[g] = "SUCCEEDED"

\* The row changes when an intent is accepted, a reading recorded or a build
\* deployed, and each time its version grows.
LEMMA RowChanges ==
    ASSUME DeploymentTypeOK, [DeploymentNext]_vars
    PROVE  \/ UNCHANGED target /\ (UNCHANGED <<branch, fresh>>
                                   \/ \E head \in Heads : BranchMoves(head))
           \/ /\ Accept \/ \E p \in Observers : Observe(p) \/ SettleDeployed(p)
              /\ target'.version = target.version + 1
              /\ fresh' = {branch} /\ branch' = branch
<1>1. ASSUME Accept \/ \E p \in Observers : Observe(p) \/ SettleDeployed(p)
      PROVE  /\ target'.version = target.version + 1
             /\ fresh' = {branch} /\ branch' = branch
  <2>1. CASE Accept
    BY <2>1 DEF Accept, Changed, Bumps
  <2>2. ASSUME NEW p \in Observers, Observe(p)
        PROVE  /\ target'.version = target.version + 1
               /\ fresh' = {branch} /\ branch' = branch
    BY <2>2 DEF Observe, Recorded, Changed, Bumps
  <2>3. ASSUME NEW p \in Observers, SettleDeployed(p)
        PROVE  /\ target'.version = target.version + 1
               /\ fresh' = {branch} /\ branch' = branch
    BY <2>3 DEF SettleDeployed, Changed, Bumps
  <2> QED BY <1>1, <2>1, <2>2, <2>3
<1>2. ASSUME NEW head \in Heads, BranchMoves(head) PROVE UNCHANGED target
  BY <1>2 DEF BranchMoves
<1>3. ASSUME NEW p \in Observers, ObserverStep(p) \/ RoundFails(p),
             ~Observe(p), ~SettleDeployed(p)
      PROVE  UNCHANGED <<target, branch, fresh>>
  BY <1>3
  DEF ObserverStep, RoundFails, SettleOtherwise, ReadTarget, ReadHead, ObserveRefused, Reread,
      ReadBuild, SettleRefused, Pick
<1>4. ASSUME (\E g \in Generations : BuildEnds(g)) \/ UNCHANGED vars
      PROVE  UNCHANGED <<target, branch, fresh>>
  BY <1>4 DEF BuildEnds, vars
<1> QED
  BY <1>1, <1>2, <1>3, <1>4 DEF DeploymentNext

\* An accepted intent is never forgotten, and its history only grows.
LEMMA HistoryGrows ==
    ASSUME DeploymentTypeOK, GenerationsInOrder, [DeploymentNext]_vars,
           NEW g \in Generations, intent[g] # "ABSENT"
    PROVE  intent'[g] # "ABSENT" /\ since[g] \subseteq since'[g]
<1>0. /\ target \in Row /\ MaxGeneration \in Nat /\ g \in Nat /\ OrderOf(g)
      /\ intent \in [Generations -> IntentStatus]
      /\ since \in [Generations -> SUBSET Heads]
  BY DeploymentAssumption DEF DeploymentTypeOK, GenerationsInOrder, Generations
<1>1. CASE Accept
  BY <1>0, <1>1 DEF Accept, StaleIntents, OrderOf, Row
<1>2. ASSUME NEW head \in Heads, BranchMoves(head)
      PROVE  intent'[g] # "ABSENT" /\ since[g] \subseteq since'[g]
  BY <1>0, <1>2 DEF BranchMoves
<1>3. ASSUME NEW p \in Observers, Observe(p)
      PROVE  intent'[g] # "ABSENT" /\ since[g] \subseteq since'[g]
  BY <1>0, <1>3 DEF Observe, StaleIntents
<1>4. ASSUME NEW p \in Observers, SettleDeployed(p) \/ SettleOtherwise(p)
      PROVE  intent'[g] # "ABSENT" /\ since[g] \subseteq since'[g]
  <2>1. Verdict(p) \in {"DEPLOYED", "SOURCE_HEAD_CHANGED", "FAILED", "NEWER_INTENT"}
    BY DEF Verdict, DeploymentTypeOK, Outcome
  <2> QED BY <1>0, <1>4, <2>1 DEF SettleDeployed, SettleOtherwise
<1>5. CASE UNCHANGED <<intent, since>>
  BY <1>5
<1> QED
  BY <1>1, <1>2, <1>3, <1>4, <1>5
  DEF DeploymentNext, ObserverStep, RoundFails, BuildEnds, ReadTarget, ReadHead,
      ObserveRefused, Reread, ReadBuild, SettleRefused, Pick, vars

\* The histories follow the branch.
LEMMA HeadsStep ==
    ASSUME DeploymentTypeOK, GenerationsInOrder, HeadsKept, [DeploymentNext]_vars
    PROVE  HeadsKept'
<1>0. /\ target \in Row /\ MaxGeneration \in Nat
      /\ intent \in [Generations -> IntentStatus]
      /\ since \in [Generations -> SUBSET Heads]
      /\ \A g \in Generations : g \in Nat /\ OrderOf(g)
  BY DeploymentAssumption DEF DeploymentTypeOK, GenerationsInOrder, Generations
<1>1. branch' \in fresh'
  BY RowChanges DEF HeadsKept, BranchMoves
<1>2. ASSUME NEW g \in Generations, intent'[g] # "ABSENT" PROVE fresh' \subseteq since'[g]
  <2>1. CASE intent[g] # "ABSENT"
    <3>1. since[g] \subseteq since'[g] /\ branch \in since[g] /\ fresh \subseteq since[g]
      BY <2>1, HistoryGrows DEF HeadsKept
    <3>2. ASSUME NEW head \in Heads, BranchMoves(head) PROVE fresh' \subseteq since'[g]
      BY <2>1, <3>1, <3>2 DEF BranchMoves
    <3> QED BY <3>1, <3>2, RowChanges
  <2>2. CASE intent[g] = "ABSENT"
    <3>1. Accept /\ g = target.desired + 1
      <4>1. CASE Accept
        BY <1>0, <1>2, <2>2, <4>1 DEF Accept, StaleIntents, Pending
      <4>2. ASSUME NEW p \in Observers, Observe(p) PROVE FALSE
        BY <1>0, <1>2, <2>2, <4>2 DEF Observe, StaleIntents, Pending
      <4>3. ASSUME NEW p \in Observers, SettleDeployed(p) \/ SettleOtherwise(p) PROVE FALSE
        BY <1>0, <1>2, <2>2, <4>3 DEF SettleDeployed, SettleOtherwise, CanSettle, Pending
      <4>4. CASE UNCHANGED intent
        BY <1>2, <2>2, <4>4
      <4> QED
        BY <4>1, <4>2, <4>3, <4>4
        DEF DeploymentNext, ObserverStep, RoundFails, BranchMoves, BuildEnds, ReadTarget,
            ReadHead, ObserveRefused, Reread, ReadBuild, SettleRefused, Pick, vars
    <3> QED BY <1>0, <3>1 DEF Accept, Bumps
  <2> QED BY <2>1, <2>2
<1> QED BY <1>1, <1>2 DEF HeadsKept

\* Only one observer moves at a time.
LEMMA OthersRest ==
    ASSUME DeploymentTypeOK, NEW p \in Observers, ObserverStep(p) \/ RoundFails(p),
           NEW q \in Observers, q # p
    PROVE  UNCHANGED <<pc[q], serving[q], snap[q], seen[q], aim[q]>>
  BY DEF DeploymentTypeOK, ObserverStep, RoundFails, Observe, Decides, Done, SettleDeployed,
      SettleOtherwise, ReadTarget, ReadHead, ObserveRefused, Reread, ReadBuild,
      SettleRefused, Pick

\* An observer keeps the row it has read, reads it again, or forgets it.
LEMMA SnapshotMoves ==
    ASSUME DeploymentTypeOK, NEW p \in Observers, ObserverStep(p) \/ RoundFails(p)
    PROVE  \/ UNCHANGED snap[p]
           \/ snap'[p] = NoRow
           \/ snap'[p] = target'
<1> USE DEF DeploymentTypeOK
<1>1. CASE ReadTarget(p)
  BY <1>1 DEF ReadTarget
<1>2. CASE Observe(p)
  BY <1>2 DEF Observe, Decides, Done
<1>3. CASE Reread(p)
  BY <1>3 DEF Reread, Decides, Done
<1>4. CASE \/ ObserveRefused(p) \/ ReadBuild(p) \/ SettleDeployed(p) \/ SettleOtherwise(p)
           \/ SettleRefused(p) \/ RoundFails(p)
  BY <1>4 DEF ObserveRefused, ReadBuild, SettleDeployed, SettleOtherwise, SettleRefused,
      RoundFails, Done
<1>5. CASE ReadHead(p) \/ \E g \in Generations : Pick(p, g)
  BY <1>5 DEF ReadHead, Pick
<1> QED BY <1>1, <1>2, <1>3, <1>4, <1>5 DEF ObserverStep

\* Every change of the row makes every earlier snapshot an old version.
LEMMA SnapshotsStep ==
    ASSUME DeploymentTypeOK, SnapshotsHold, [DeploymentNext]_vars
    PROVE  SnapshotsHold'
<1>0. /\ target.version \in Nat /\ target'.version \in Nat
      /\ \A p \in Observers : snap[p].version \in Nat
      /\ NoRow.version = 0
  BY DeploymentTypeStep DEF DeploymentTypeOK, Row, NoRow
<1>1. UNCHANGED target \/ target'.version = target.version + 1
  BY RowChanges
<1>2. target'.version = 0 => target' = NoRow
  BY <1>0, <1>1 DEF SnapshotsHold
<1>3. ASSUME NEW q \in Observers,
             UNCHANGED snap[q] \/ snap'[q] = NoRow \/ snap'[q] = target'
      PROVE  /\ snap'[q].version <= target'.version
             /\ snap'[q].version = target'.version => snap'[q] = target'
  BY <1>0, <1>1, <1>2, <1>3 DEF SnapshotsHold
<1>4. ASSUME NEW q \in Observers
      PROVE  UNCHANGED snap[q] \/ snap'[q] = NoRow \/ snap'[q] = target'
  <2>1. ASSUME NEW p \in Observers, ObserverStep(p) \/ RoundFails(p)
        PROVE  UNCHANGED snap[q] \/ snap'[q] = NoRow \/ snap'[q] = target'
    BY <2>1, OthersRest, SnapshotMoves
  <2>2. CASE UNCHANGED snap
    BY <2>2
  <2> QED BY <2>1, <2>2 DEF DeploymentNext, Accept, BuildEnds, BranchMoves, observerVars, vars
<1> QED BY <1>2, <1>3, <1>4 DEF SnapshotsHold

\* A reading is made of the branch as it is, and is refused once the version grows.
LEMMA ReadingsFreshStep ==
    ASSUME DeploymentTypeOK, SnapshotsHold, HeadsKept, ReadingsFresh, [DeploymentNext]_vars
    PROVE  ReadingsFresh'
<1>0. /\ target.version \in Nat
      /\ \A p \in Observers : snap[p].version \in Nat /\ snap[p].version <= target.version
  BY DEF DeploymentTypeOK, Row, SnapshotsHold
<1>1. ASSUME NEW q \in Observers, UNCHANGED <<pc[q], snap[q], seen[q]>>,
             pc'[q] = "observe", snap'[q].version = target'.version
      PROVE  seen'[q].head \in fresh' \/ seen'[q].state = "UNKNOWN"
  <2>1. UNCHANGED target
    BY <1>0, <1>1, RowChanges
  <2>2. fresh \subseteq fresh'
    BY <1>0, <2>1, RowChanges DEF BranchMoves
  <2> QED BY <1>1, <2>1, <2>2 DEF ReadingsFresh
<1>2. ASSUME NEW p \in Observers, ObserverStep(p) \/ RoundFails(p), pc'[p] = "observe"
      PROVE  ReadHead(p)
  BY <1>2 DEF DeploymentTypeOK, ObserverStep, RoundFails, Observe, Decides, Done,
      SettleDeployed, SettleOtherwise, ReadTarget, ObserveRefused, Reread, ReadBuild,
      SettleRefused, Pick
<1>3. ASSUME NEW p \in Observers, ReadHead(p)
      PROVE  seen'[p].head \in fresh' \/ seen'[p].state = "UNKNOWN"
  BY <1>3 DEF ReadHead, NoReading, HeadsKept, DeploymentTypeOK
<1>4. ASSUME NEW q \in Observers, pc'[q] = "observe", snap'[q].version = target'.version
      PROVE  seen'[q].head \in fresh' \/ seen'[q].state = "UNKNOWN"
  <2>1. ASSUME NEW p \in Observers, ObserverStep(p) \/ RoundFails(p)
        PROVE  seen'[q].head \in fresh' \/ seen'[q].state = "UNKNOWN"
    BY <1>1, <1>2, <1>3, <1>4, <2>1, OthersRest
  <2>2. CASE UNCHANGED observerVars
    BY <1>1, <1>4, <2>2 DEF observerVars
  <2> QED BY <2>1, <2>2 DEF DeploymentNext, Accept, BuildEnds, BranchMoves, vars
<1> QED BY <1>4 DEF ReadingsFresh

\* What is recorded was observed in the time of the newest intent.
LEMMA ObserveIsOfItsTime ==
    ASSUME DeploymentTypeOK, GenerationsInOrder, HeadsKept, ReadingsHold, ReadingsFresh,
           NEW p \in Observers, Observe(p), target.desired # 0
    PROVE  RowOfItsTime'
<1>1. target.desired \in Generations /\ intent[target.desired] # "ABSENT"
  <2>1. target.desired \in Generations /\ target.desired \in Nat
    BY DeploymentAssumption DEF DeploymentTypeOK, Row, Generations
  <2> QED BY <2>1 DEF GenerationsInOrder, OrderOf
<1>2. /\ target'.desired = target.desired /\ target'.head = seen[p].head
      /\ target'.state = seen[p].state /\ since' = since
  BY DEF Observe, Recorded, Changed
<1>3. seen[p].head \in fresh \/ seen[p].state = "UNKNOWN"
  BY DEF Observe, SameRow, ReadingsFresh
<1>4. seen[p].state = "UNKNOWN" \/ (seen[p].head = None => seen[p].state = "MISSING")
  <2>1. seen[p] = NoReading \/ seen[p].state = StateOf(snap[p].active, seen[p].head)
    BY DEF Observe, ReadingsHold, ReadingHolds
  <2>2. StateOf(snap[p].active, None) = "MISSING"
    BY DEF StateOf
  <2>3. NoReading.state = "UNKNOWN"
    BY DEF NoReading
  <2> QED BY <2>1, <2>2, <2>3
<1> QED BY <1>1, <1>2, <1>3, <1>4 DEF RowOfItsTime, HeadsKept

\* The last observation stays one of the time of a pending newest intent.
LEMMA RowStaysOfItsTime ==
    ASSUME DeploymentTypeOK, GenerationsInOrder, HeadsKept, ReadingsHold, ReadingsFresh,
           [DeploymentNext]_vars, NEW g \in Generations, intent[g] # "ABSENT",
           g = target'.desired, Pending(g)', target' # target \/ RowOfItsTime
    PROVE  RowOfItsTime'
<1>0. /\ target \in Row /\ MaxGeneration \in Nat /\ g \in Nat /\ g # 0 /\ OrderOf(g)
      /\ intent \in [Generations -> IntentStatus]
  BY DeploymentAssumption DEF DeploymentTypeOK, GenerationsInOrder, Generations
<1>1. CASE UNCHANGED target
  BY <1>1, HistoryGrows DEF RowOfItsTime
<1>2. CASE Accept
  <2>1. target'.desired = target.desired + 1 /\ target.desired \in Nat
    BY <1>0, <1>2 DEF Accept, Changed, Row
  <2> QED BY <1>0, <2>1 DEF OrderOf
<1>3. ASSUME NEW p \in Observers, Observe(p) PROVE RowOfItsTime'
  <2>1. target.desired = g
    BY <1>3 DEF Observe, Recorded, Changed
  <2> QED BY <1>0, <1>3, <2>1, ObserveIsOfItsTime
<1>4. ASSUME NEW p \in Observers, SettleDeployed(p) PROVE FALSE
  <2>1. serving[p] = target.desired /\ target'.desired = target.desired
    BY <1>4 DEF SettleDeployed, Verdict, Changed
  <2> QED BY <1>0, <1>4, <2>1 DEF SettleDeployed, Pending
<1> QED BY <1>1, <1>2, <1>3, <1>4, RowChanges

\* A round that rests stays what it is.
LEMMA RoundStays ==
    ASSUME DeploymentTypeOK, GenerationsInOrder, HeadsKept, ReadingsHold, ReadingsFresh,
           SnapshotsHold, [DeploymentNext]_vars, NEW q \in Reconcilers, RoundHolds(q),
           UNCHANGED <<pc[q], serving[q], snap[q], aim[q]>>
    PROVE  RoundHolds(q)'
<1>0. /\ target.version \in Nat /\ target'.version \in Nat /\ snap[q].version \in Nat
      /\ snap[q].version <= target.version /\ q \in Observers
      /\ pc[q] # "idle" => serving[q] \in Generations
  BY DeploymentTypeStep, DeploymentAssumption
  DEF DeploymentTypeOK, Row, SnapshotsHold, Observers, Generations
<1>1. \/ target'.version = target.version /\ target' = target
      \/ target'.version > target.version
  BY <1>0, RowChanges
<1>2. pc[q] = "idle" => aim[q] = "FAILED"
  BY DEF RoundHolds
<1>3. pc[q] # "idle" => intent'[serving[q]] # "ABSENT"
  BY <1>0, HistoryGrows DEF RoundHolds
<1>4. pc[q] \in {"target", "head", "observe", "reread"} \/ aim[q] # "FAILED"
        => build'[serving[q]] = "SUCCEEDED" /\ commit'[serving[q]] = commit[serving[q]]
  BY <1>0, <1>2, BuildStays DEF RoundHolds
<1>5. ASSUME pc[q] # "idle", serving[q] = target'.desired, Pending(serving[q])',
             \/ pc[q] \in {"head", "observe", "reread"} /\ snap[q].version < target'.version
             \/ aim[q] # "FAILED" /\ snap[q].version = target'.version
      PROVE  RowOfItsTime'
  <2>1. intent[serving[q]] # "ABSENT" /\ serving[q] \in Generations
    BY <1>0, <1>5 DEF RoundHolds
  <2>2. SUFFICES ASSUME target' = target PROVE RowOfItsTime
    BY <1>5, <2>1, RowStaysOfItsTime DEF Pending
  <2>3. Pending(serving[q])
    BY <1>5, <2>1, SettledStays DEF KeepsSettled, Pending
  <2> QED BY <1>5, <2>2, <2>3 DEF RoundHolds
<1>6. pc[q] = "reread" => snap[q].version < target'.version
  BY <1>0, <1>1 DEF RoundHolds
<1> QED BY <1>3, <1>4, <1>5, <1>6 DEF RoundHolds, Pending

\* Each step of a reconciler takes its round a step further.
LEMMA RoundMoves ==
    ASSUME DeploymentTypeOK, GenerationsInOrder, HeadsKept, ReadingsHold, ReadingsFresh,
           SnapshotsHold, NEW p \in Reconcilers, RoundHolds(p),
           ObserverStep(p) \/ RoundFails(p), [DeploymentNext]_vars
    PROVE  RoundHolds(p)'
<1>0. /\ p \in Observers /\ p \notin Pollers
      /\ target.version \in Nat /\ snap[p].version \in Nat
      /\ snap[p].version <= target.version
      /\ pc[p] # "idle" => serving[p] \in Generations
      /\ MaxGeneration \in Nat
  BY DeploymentAssumption DEF DeploymentTypeOK, Row, SnapshotsHold, Observers, Generations
<1>1. CASE Done(p)
  BY <1>0, <1>1 DEF Done, RoundHolds, DeploymentTypeOK
<1>2. CASE ReadTarget(p)
  <2>1. /\ pc[p] = "target" /\ pc'[p] = "head" /\ snap'[p] = target'
        /\ UNCHANGED <<target, intent, build, commit, serving, aim>>
    BY <1>0, <1>2 DEF ReadTarget, DeploymentTypeOK
  <2> QED BY <1>0, <2>1 DEF RoundHolds
<1>3. CASE ReadHead(p)
  <2>1. /\ pc[p] = "head" /\ pc'[p] = "observe"
        /\ UNCHANGED <<target, intent, build, commit, serving, snap, aim, since>>
    BY <1>0, <1>3 DEF ReadHead, DeploymentTypeOK
  <2> QED BY <1>0, <2>1 DEF RoundHolds, RowOfItsTime, Pending
<1>4. ASSUME NEW row, Decides(p, row), ~Done(p), row = target',
             pc[p] \in {"observe", "reread"}, UNCHANGED <<build, commit>>,
             intent'[serving[p]] # "ABSENT",
             /\ serving[p] = target'.desired
             /\ intent'[serving[p]] = "WAITING_FOR_BUILD"
             => RowOfItsTime'
      PROVE  RoundHolds(p)'
  <2>1. /\ pc'[p] = "settle" /\ snap'[p] = row /\ serving'[p] = serving[p]
        /\ aim'[p] = "SOURCE_HEAD_CHANGED" => row.head # commit[serving[p]]
    BY <1>0, <1>4 DEF Decides, DeploymentTypeOK
  <2>2. build[serving[p]] = "SUCCEEDED"
    BY <1>4 DEF RoundHolds
  <2> QED BY <1>4, <2>1, <2>2 DEF RoundHolds, Pending
<1>5. CASE Observe(p)
  <2>1. target' = Recorded(p) /\ pc[p] = "observe" /\ UNCHANGED <<build, commit>>
    BY <1>5 DEF Observe
  <2>2. intent'[serving[p]] # "ABSENT"
    BY <1>0, <2>1, HistoryGrows DEF RoundHolds
  <2>3. serving[p] = target'.desired => RowOfItsTime'
    <3>1. target'.desired = target.desired /\ serving[p] # 0
      BY <1>0, <2>1 DEF Recorded, Changed, Generations
    <3> QED BY <1>0, <1>5, <3>1, ObserveIsOfItsTime
  <2> QED BY <1>1, <1>4, <1>5, <2>1, <2>2, <2>3 DEF Observe
<1>6. CASE ObserveRefused(p)
  <2>1. /\ pc[p] = "observe" /\ pc'[p] = "reread"
        /\ UNCHANGED <<target, intent, build, commit, serving, snap, aim, since>>
    BY <1>0, <1>6 DEF ObserveRefused, DeploymentTypeOK
  <2>2. snap[p].version < target.version
    BY <1>0, <1>6 DEF ObserveRefused, SameRow, SnapshotsHold
  <2> QED BY <1>0, <2>1, <2>2 DEF RoundHolds, RowOfItsTime, Pending
<1>7. CASE Reread(p)
  <2>1. /\ Decides(p, target) /\ pc[p] = "reread"
        /\ UNCHANGED <<target, intent, build, commit, since>>
    BY <1>7 DEF Reread
  <2>2. /\ intent'[serving[p]] # "ABSENT"
        /\ /\ serving[p] = target'.desired
           /\ intent'[serving[p]] = "WAITING_FOR_BUILD"
           => RowOfItsTime'
    BY <2>1 DEF RoundHolds, RowOfItsTime, Pending
  <2> QED BY <1>1, <1>4, <2>1, <2>2
<1>8. CASE ReadBuild(p)
  <2>1. CASE ~Done(p)
    <3>1. /\ pc[p] = "build" /\ pc'[p] \in {"target", "settle"}
          /\ pc'[p] = "target" => build[serving[p]] = "SUCCEEDED"
          /\ UNCHANGED <<target, intent, build, commit, serving, snap, aim>>
      BY <1>0, <1>8, <2>1 DEF ReadBuild, DeploymentTypeOK
    <3> QED BY <3>1 DEF RoundHolds
  <2> QED BY <1>1, <2>1
<1>9. ASSUME NEW g \in Generations, Pick(p, g) PROVE RoundHolds(p)'
  <2>1. /\ pc[p] = "idle" /\ pc'[p] = "build" /\ serving'[p] = g /\ Pending(g)
        /\ UNCHANGED <<target, intent, build, commit, snap, aim>>
    BY <1>0, <1>9 DEF Pick, DeploymentTypeOK
  <2> QED BY <2>1 DEF RoundHolds, Pending
<1> QED
  BY <1>1, <1>2, <1>3, <1>5, <1>6, <1>7, <1>8, <1>9
  DEF ObserverStep, RoundFails, SettleDeployed, SettleOtherwise, SettleRefused

\* Every step keeps every round in order.
LEMMA RoundsStep ==
    ASSUME DeploymentTypeOK, GenerationsInOrder, HeadsKept, ReadingsHold, ReadingsFresh,
           SnapshotsHold, RoundsHold, [DeploymentNext]_vars
    PROVE  RoundsHold'
<1> SUFFICES ASSUME NEW q \in Reconcilers PROVE RoundHolds(q)'
  BY DEF RoundsHold
<1>0. q \in Observers /\ RoundHolds(q)
  BY DEF Observers, RoundsHold
<1>1. ASSUME NEW p \in Observers, ObserverStep(p) \/ RoundFails(p) PROVE RoundHolds(q)'
  BY <1>0, <1>1, OthersRest, RoundStays, RoundMoves
<1>2. CASE UNCHANGED observerVars
  BY <1>0, <1>2, RoundStays DEF observerVars
<1> QED BY <1>1, <1>2 DEF DeploymentNext, Accept, BuildEnds, BranchMoves, vars

\* A verdict that rests on an observation rests on one of the intent's own time.
LEMMA VerdictIsOfItsTime ==
    ASSUME DeploymentTypeOK, SnapshotsHold, RoundsHold, NEW p \in Observers,
           pc[p] = "settle", CanSettle(p), Verdict(p) \in {"DEPLOYED", "SOURCE_HEAD_CHANGED"}
    PROVE  LET g == serving[p]
           IN  /\ g \in Generations /\ g = target.desired /\ aim[p] = Verdict(p)
               /\ build[g] = "SUCCEEDED"
               /\ target.head = snap[p].head /\ target.head # None
               /\ target.head \in since[g]
<1> DEFINE g == serving[p]
<1>1. p \in Reconcilers /\ g \in Generations
  BY SettlerServes DEF DeploymentTypeOK, Observers
<1>2. g = target.desired /\ aim[p] = Verdict(p) /\ aim[p] # "FAILED"
  BY DEF Verdict
<1>3. /\ Pending(g) /\ snap[p].version = target.version
      /\ target.head = snap[p].head /\ target.state \notin {"UNKNOWN", "MISSING"}
  BY DEF CanSettle, ObservationHolds
<1>4. RowOfItsTime /\ build[g] = "SUCCEEDED"
  BY <1>1, <1>2, <1>3 DEF RoundsHold, RoundHolds
<1> QED BY <1>1, <1>2, <1>3, <1>4 DEF RowOfItsTime

\* An intent that is settled for a changed head has its build.
LEMMA ChangedStep ==
    ASSUME DeploymentTypeOK, GenerationsInOrder, SnapshotsHold, RoundsHold, ChangedWasBuilt,
           [DeploymentNext]_vars
    PROVE  ChangedWasBuilt'
<1> SUFFICES ASSUME NEW g \in Generations, intent'[g] = "SOURCE_HEAD_CHANGED"
             PROVE  build'[g] = "SUCCEEDED"
  BY DEF ChangedWasBuilt
<1>0. /\ target \in Row /\ MaxGeneration \in Nat
      /\ intent \in [Generations -> IntentStatus]
  BY DeploymentAssumption DEF DeploymentTypeOK
<1>1. CASE intent[g] = "SOURCE_HEAD_CHANGED"
  BY <1>1, BuildStays DEF ChangedWasBuilt
<1>2. CASE intent[g] # "SOURCE_HEAD_CHANGED"
  <2>1. CASE Accept
    BY <1>0, <1>2, <2>1 DEF Accept, StaleIntents
  <2>2. ASSUME NEW p \in Observers, Observe(p) PROVE FALSE
    BY <1>0, <1>2, <2>2 DEF Observe, StaleIntents
  <2>3. ASSUME NEW p \in Observers, SettleDeployed(p) PROVE FALSE
    BY <1>0, <1>2, <2>3 DEF SettleDeployed
  <2>4. ASSUME NEW p \in Observers, SettleOtherwise(p) PROVE build'[g] = "SUCCEEDED"
    <3>1. g = serving[p] /\ Verdict(p) = "SOURCE_HEAD_CHANGED"
      BY <1>0, <1>2, <2>4 DEF SettleOtherwise
    <3> QED BY <2>4, <3>1, VerdictIsOfItsTime DEF SettleOtherwise
  <2>5. CASE UNCHANGED intent
    BY <1>2, <2>5
  <2> QED
    BY <2>1, <2>2, <2>3, <2>4, <2>5
    DEF DeploymentNext, ObserverStep, RoundFails, BranchMoves, BuildEnds, ReadTarget,
        ReadHead, ObserveRefused, Reread, ReadBuild, SettleRefused, Pick, vars
<1> QED BY <1>1, <1>2

\* settle deploys a commit it has seen at the head of the branch in the time of
\* the intent.
LEMMA DeployedStep ==
    ASSUME DeploymentTypeOK, GenerationsInOrder, SnapshotsHold, RoundsHold, DeployedWasHead,
           [DeploymentNext]_vars
    PROVE  DeployedWasHead'
<1> SUFFICES ASSUME NEW g \in Generations, intent'[g] = "DEPLOYED"
             PROVE  commit'[g] \in since'[g]
  BY DEF DeployedWasHead
<1>0. /\ target \in Row /\ MaxGeneration \in Nat
      /\ intent \in [Generations -> IntentStatus]
  BY DeploymentAssumption DEF DeploymentTypeOK
<1>1. CASE intent[g] = "DEPLOYED"
  <2>1. build[g] = "SUCCEEDED"
    BY <1>1 DEF GenerationsInOrder, OrderOf
  <2> QED BY <1>1, <2>1, BuildStays, HistoryGrows DEF DeployedWasHead
<1>2. CASE intent[g] # "DEPLOYED"
  <2>1. ASSUME NEW p \in Observers, SettleDeployed(p) PROVE commit'[g] \in since'[g]
    <3>1. g = serving[p]
      BY <1>0, <1>2, <2>1 DEF SettleDeployed
    <3>2. target.head = snap[p].head /\ target.head \in since[g]
      BY <2>1, <3>1, VerdictIsOfItsTime DEF SettleDeployed
    <3> QED BY <2>1, <3>1, <3>2 DEF SettleDeployed, Deployable
  <2>2. CASE Accept
    BY <1>0, <1>2, <2>2 DEF Accept, StaleIntents
  <2>3. ASSUME NEW p \in Observers, Observe(p) PROVE FALSE
    BY <1>0, <1>2, <2>3 DEF Observe, StaleIntents
  <2>4. ASSUME NEW p \in Observers, SettleOtherwise(p) PROVE FALSE
    BY <1>0, <1>2, <2>4 DEF SettleOtherwise
  <2>5. CASE UNCHANGED intent
    BY <1>2, <2>5
  <2> QED
    BY <2>1, <2>2, <2>3, <2>4, <2>5
    DEF DeploymentNext, ObserverStep, RoundFails, BranchMoves, BuildEnds, ReadTarget,
        ReadHead, ObserveRefused, Reread, ReadBuild, SettleRefused, Pick, vars
<1> QED BY <1>1, <1>2

\* accept, observe and settle make an intent give way only for what happened in
\* its time.
LEMMA StaleStep ==
    ASSUME DeploymentTypeOK, GenerationsInOrder, OnlyNewestPending, HeadsKept, ReadingsHold,
           ReadingsFresh, SnapshotsHold, RoundsHold, ChangedWasBuilt, StaleForCause,
           [DeploymentNext]_vars
    PROVE  StaleForCause'
<1> DEFINE Staled(g) == intent[g] = "NEWER_INTENT" => g < target.desired \/ None \in since[g]
           Changes(g) == intent[g] = "SOURCE_HEAD_CHANGED"
                           => since[g] \ {commit[g], None} # {}
<1> SUFFICES ASSUME NEW g \in Generations PROVE Staled(g)' /\ Changes(g)'
  BY DEF StaleForCause
<1>0. /\ target \in Row /\ MaxGeneration \in Nat /\ g \in Nat /\ target.desired \in Nat
      /\ intent \in [Generations -> IntentStatus]
      /\ Staled(g) /\ Changes(g) /\ OrderOf(g)
  BY DeploymentAssumption
  DEF DeploymentTypeOK, Row, Generations, StaleForCause, GenerationsInOrder
<1>1. target'.desired \in Nat /\ target'.desired >= target.desired
  <2>1. CASE Accept
    BY <1>0, <2>1 DEF Accept, Changed
  <2>2. ASSUME NEW p \in Observers, Observe(p) \/ SettleDeployed(p)
        PROVE  target'.desired = target.desired
    BY <2>2 DEF Observe, Recorded, SettleDeployed, Changed
  <2> QED BY <1>0, <2>1, <2>2, RowChanges
<1>2. CASE intent'[g] = intent[g]
  <2>1. CASE intent[g] = "ABSENT"
    BY <1>2, <2>1
  <2>2. CASE intent[g] # "ABSENT"
    <3>1. since[g] \subseteq since'[g]
      BY <2>2, HistoryGrows
    <3>2. Staled(g)'
      BY <1>0, <1>1, <1>2, <3>1
    <3>3. intent[g] = "SOURCE_HEAD_CHANGED" => commit'[g] = commit[g]
      BY BuildStays DEF ChangedWasBuilt
    <3> QED BY <1>0, <1>2, <3>1, <3>2, <3>3
  <2> QED BY <2>1, <2>2
<1>3. CASE Accept /\ intent'[g] # intent[g]
  <2>0. StaleIntents \in [Generations -> IntentStatus]
    BY <1>0 DEF StaleIntents, IntentStatus, Stale
  <2>1. g = target.desired + 1 => intent'[g] = "WAITING_FOR_BUILD"
    <3>1. intent' = [StaleIntents EXCEPT ![target.desired + 1] = "WAITING_FOR_BUILD"]
      BY <1>3 DEF Accept
    <3> QED BY <2>0, <3>1
  <2>2. g # target.desired + 1 => intent'[g] = "NEWER_INTENT" /\ Pending(g)
    BY <1>0, <1>3 DEF Accept, StaleIntents
  <2>3. target'.desired = target.desired + 1
    BY <1>3 DEF Accept, Changed
  <2> QED BY <1>0, <2>1, <2>2, <2>3 DEF OnlyNewestPending
<1>4. ASSUME NEW p \in Observers, Observe(p), intent'[g] # intent[g]
      PROVE  Staled(g)' /\ Changes(g)'
  <2>1. /\ seen[p].state = "MISSING" /\ intent'[g] = "NEWER_INTENT" /\ Pending(g)
        /\ since' = since
    BY <1>0, <1>4 DEF Observe, StaleIntents
  <2>2. seen[p].head = None
    <3>1. seen[p].state = StateOf(snap[p].active, seen[p].head)
      BY <1>4, <2>1 DEF Observe, ReadingsHold, ReadingHolds, NoReading
    <3> QED BY <2>1, <3>1 DEF StateOf
  <2>3. seen[p].head \in fresh
    BY <1>4, <2>1 DEF Observe, SameRow, ReadingsFresh
  <2>4. None \in since'[g]
    BY <2>1, <2>2, <2>3 DEF HeadsKept, Pending
  <2> QED BY <2>1, <2>4
<1>5. ASSUME NEW p \in Observers, SettleDeployed(p), intent'[g] # intent[g]
      PROVE  Staled(g)' /\ Changes(g)'
  BY <1>0, <1>5 DEF SettleDeployed
<1>6. ASSUME NEW p \in Observers, SettleOtherwise(p), intent'[g] # intent[g]
      PROVE  Staled(g)' /\ Changes(g)'
  <2>1. /\ g = serving[p] /\ UNCHANGED <<target, since, commit>>
        /\ pc[p] = "settle" /\ CanSettle(p) /\ Pending(g)
        /\ intent'[g] = IF Verdict(p) = "DEPLOYED" THEN "TARGET_OR_BUILD_CHANGED"
                        ELSE Verdict(p)
    BY <1>0, <1>6 DEF SettleOtherwise, CanSettle
  <2>2. CASE intent'[g] = "NEWER_INTENT"
    <3>1. target.desired # serving[p]
      BY <2>1, <2>2 DEF Verdict, DeploymentTypeOK, Outcome
    <3> QED BY <2>1, <3>1 DEF OnlyNewestPending
  <2>3. CASE intent'[g] = "SOURCE_HEAD_CHANGED"
    <3>1. Verdict(p) = "SOURCE_HEAD_CHANGED"
      BY <2>1, <2>3
    <3>2. /\ aim[p] = "SOURCE_HEAD_CHANGED" /\ target.head = snap[p].head
          /\ target.head # None /\ target.head \in since[g]
      BY <2>1, <3>1, VerdictIsOfItsTime
    <3>3. p \in Reconcilers
      BY <2>1 DEF DeploymentTypeOK, Observers
    <3>4. snap[p].head # commit[g]
      BY <2>1, <3>2, <3>3 DEF RoundsHold, RoundHolds
    <3> QED BY <2>1, <2>3, <3>2, <3>4
  <2>4. CASE intent'[g] \notin {"NEWER_INTENT", "SOURCE_HEAD_CHANGED"}
    BY <2>4
  <2> QED BY <2>2, <2>3, <2>4
<1> QED
  BY <1>2, <1>3, <1>4, <1>5, <1>6
  DEF DeploymentNext, ObserverStep, RoundFails, BranchMoves, BuildEnds, ReadTarget,
      ReadHead, ObserveRefused, Reread, ReadBuild, SettleRefused, Pick, vars

TimeInductive ==
    /\ HeadsKept /\ SnapshotsHold /\ ReadingsFresh /\ RoundsHold /\ ChangedWasBuilt
    /\ DeployedWasHead /\ StaleForCause

\* What is read, decided and settled is of its time, for any number of
\* reconcilers and pollers.
THEOREM TimeInductiveHolds == DeploymentSpec => []TimeInductive
<1>1. DeploymentInit => TimeInductive
  <2> SUFFICES ASSUME DeploymentInit PROVE TimeInductive
    OBVIOUS
  <2>1. HeadsKept /\ ReadingsFresh /\ ChangedWasBuilt /\ DeployedWasHead /\ StaleForCause
    BY DEF DeploymentInit, HeadsKept, ReadingsFresh, ChangedWasBuilt, DeployedWasHead,
        StaleForCause
  <2>2. SnapshotsHold
    BY DEF DeploymentInit, SnapshotsHold, NoRow
  <2>3. RoundsHold
    BY DEF DeploymentInit, RoundsHold, RoundHolds, Observers
  <2> QED BY <2>1, <2>2, <2>3 DEF TimeInductive
<1>2. DeploymentInductive /\ TimeInductive /\ [DeploymentNext]_vars => TimeInductive'
  BY HeadsStep, SnapshotsStep, ReadingsFreshStep, RoundsStep, ChangedStep, DeployedStep,
     StaleStep
  DEF DeploymentInductive, TimeInductive
<1> QED BY <1>1, <1>2, DeploymentInductiveHolds, PTL DEF DeploymentSpec

\* settle deploys a build only if its commit was the head of the branch at some
\* time after the build was accepted, however old its reconciler's readings are.
THEOREM DeployedWasHeadHolds == DeploymentSpec => []DeployedWasHead
<1>1. TimeInductive => DeployedWasHead
  BY DEF TimeInductive
<1> QED BY <1>1, TimeInductiveHolds, PTL

\* The newest intent gives way only to a branch that was gone, or had another
\* head, since it was accepted.
THEOREM StaleForCauseHolds == DeploymentSpec => []StaleForCause
<1>1. TimeInductive => StaleForCause
  BY DEF TimeInductive
<1> QED BY <1>1, TimeInductiveHolds, PTL

\* observe never replaces an observation by an older one: the head it records was
\* the head of the branch after the version it replaces was written.
THEOREM ObservationsAreFresh == DeploymentSpec => ObservationsMoveForward
<1>1. DeploymentInductive /\ TimeInductive /\ [DeploymentNext]_vars
        => [RecordsFreshHeads]_vars
  <2> SUFFICES ASSUME DeploymentInductive, TimeInductive, DeploymentNext
               PROVE  RecordsFreshHeads
    OBVIOUS
  <2>1. CASE Accept
    BY <2>1 DEF Accept, Changed, RecordsFreshHeads
  <2>2. ASSUME NEW p \in Observers, Observe(p) PROVE RecordsFreshHeads
    BY <2>2 DEF Observe, SameRow, Recorded, Changed, TimeInductive, ReadingsFresh,
        RecordsFreshHeads
  <2>3. ASSUME NEW p \in Observers, SettleDeployed(p) PROVE RecordsFreshHeads
    BY <2>3 DEF SettleDeployed, Changed, RecordsFreshHeads
  <2>4. CASE UNCHANGED target
    BY <2>4 DEF RecordsFreshHeads
  <2> QED BY <2>1, <2>2, <2>3, <2>4, RowChanges DEF DeploymentInductive
<1> QED
  BY <1>1, DeploymentInductiveHolds, TimeInductiveHolds, PTL
  DEF DeploymentSpec, ObservationsMoveForward
=============================================================================
