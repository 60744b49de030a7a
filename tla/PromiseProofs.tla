---------------------------- MODULE PromiseProofs ----------------------------
(* Theorems of the two abstract specifications, BuildLifecycle and            *)
(* DeploymentPointer: what a client may conclude from what it is shown of a   *)
(* build, and what a target's pointer may be relied on for, whatever store    *)
(* implements them.                                                           *)
EXTENDS BuildLifecycle, DeploymentPointer, TLAPS

------------------------------------------------------------------------------
(* BuildLifecycle.                                                            *)

\* Every move of a build leads from an honest entry to an honest one.
LEMMA MovesStayHonest ==
    ASSUME MaxTries \in Nat, NEW e, NEW f, EntryIsHonest(e), Move(e, f)
    PROVE  EntryIsHonest(f)
<1> USE DEF EntryIsHonest, Entry, Public
<1>1. CASE Accepted(e, f)
  BY <1>1 DEF Accepted, NotAccepted
<1>2. CASE Begun(e, f)
  <2>1. e \in Entry /\ e.tries \in Nat /\ e.tries + 1 \in 0..MaxTries
    BY <1>2 DEF Begun
  <2>2. /\ f \in Entry /\ f.status = "RUNNING"
    BY <1>2, <2>1 DEF Begun
  <2> QED BY <2>2
<1>3. CASE SourceFixed(e, f)
  BY <1>3 DEF SourceFixed
<1>4. CASE WriteAnnounced(e, f)
  BY <1>4 DEF WriteAnnounced
<1>5. CASE Retried(e, f)
  BY <1>5 DEF Retried
<1>6. CASE Ended(e, f)
  BY <1>6 DEF Ended
<1>7. CASE Proven(e, f)
  BY <1>7 DEF Proven
<1> QED BY <1>1, <1>2, <1>3, <1>4, <1>5, <1>6, <1>7 DEF Move

\* A verdict is reached once.
LEMMA MovesKeepVerdicts ==
    ASSUME NEW e, NEW f, EntryIsHonest(e), Move(e, f), e.status \in Verdicts
    PROVE  f.status = e.status /\ f.source = e.source /\ f.tries = e.tries
<1>1. e \in Entry /\ e.status \notin {"ABSENT", "QUEUED", "RUNNING"}
  BY DEF EntryIsHonest, Verdicts
<1>2. ~Accepted(e, f)
  BY <1>1 DEF NotAccepted, Accepted
<1>3. Proven(e, f)
  <2>1. ~Begun(e, f) /\ ~SourceFixed(e, f)
    BY <1>1 DEF Begun, SourceFixed
  <2>2. ~WriteAnnounced(e, f) /\ ~Retried(e, f)
    BY <1>1 DEF WriteAnnounced, Retried
  <2>3. ~Ended(e, f)
    BY <1>1 DEF Ended
  <2> QED BY <1>2, <2>1, <2>2, <2>3 DEF Move
<1> QED BY <1>1, <1>3 DEF Proven, Entry

\* Nothing is said of a build that is not known: what may still run is shown as
\* running or unknown, a success has its source, and a build that waits has
\* left nothing in the warehouse.
THEOREM LedgerStaysHonest ==
    ASSUME MaxTries \in Nat PROVE LifecycleSpec => []LedgerIsHonest
<1>1. LifecycleInit => LedgerIsHonest
  BY DEF LifecycleInit, LedgerIsHonest, EntryIsHonest, Entry, Public, NotAccepted
<1>2. LedgerIsHonest /\ [LifecycleNext]_ledger => LedgerIsHonest'
  <2> SUFFICES ASSUME LedgerIsHonest, [LifecycleNext]_ledger PROVE LedgerIsHonest'
    OBVIOUS
  <2>1. CASE UNCHANGED ledger
    BY <2>1 DEF LedgerIsHonest
  <2>2. CASE LifecycleNext
    <3>1. \A b \in Builds : EntryIsHonest(ledger'[b])
      <4> SUFFICES ASSUME NEW b \in Builds PROVE EntryIsHonest(ledger'[b])
        OBVIOUS
      <4>1. EntryIsHonest(ledger[b])
        BY DEF LedgerIsHonest
      <4>2. ledger'[b] = ledger[b] \/ Move(ledger[b], ledger'[b])
        BY <2>2 DEF LifecycleNext
      <4> QED BY <4>1, <4>2, MovesStayHonest
    <3> QED BY <2>2, <3>1 DEF LifecycleNext, LedgerIsHonest, EntryIsHonest
  <2> QED BY <2>1, <2>2
<1> QED BY <1>1, <1>2, PTL DEF LifecycleSpec

\* The verdict of a build never changes, nor the source it was reached from, and
\* no execution follows it.
THEOREM VerdictsNeverChange ==
    ASSUME MaxTries \in Nat PROVE LifecycleSpec => VerdictsStay
<1> DEFINE Stay == \A b \in Builds : ledger[b].status \in Verdicts =>
                      /\ ledger'[b].status = ledger[b].status
                      /\ ledger'[b].source = ledger[b].source
                      /\ ledger'[b].tries = ledger[b].tries
<1>1. LedgerIsHonest /\ [LifecycleNext]_ledger => [Stay]_ledger
  <2> SUFFICES ASSUME LedgerIsHonest, LifecycleNext, NEW b \in Builds,
                      ledger[b].status \in Verdicts
               PROVE  /\ ledger'[b].status = ledger[b].status
                      /\ ledger'[b].source = ledger[b].source
                      /\ ledger'[b].tries = ledger[b].tries
    OBVIOUS
  <2>1. EntryIsHonest(ledger[b])
    BY DEF LedgerIsHonest
  <2>2. ledger'[b] = ledger[b] \/ Move(ledger[b], ledger'[b])
    BY DEF LifecycleNext
  <2> QED BY <2>1, <2>2, MovesKeepVerdicts
<1> QED BY <1>1, LedgerStaysHonest, PTL DEF LifecycleSpec, VerdictsStay

------------------------------------------------------------------------------
(* DeploymentPointer.                                                         *)

\* Every move keeps the newest intent the only pending one, and the active one
\* the newest deployed.
LEMMA PointerIsNewestStep ==
    ASSUME MaxIntent \in Nat, PointerIsNewest, PointerNext
    PROVE  PointerIsNewest'
<1> USE DEF PointerIsNewest, Intents, Outcomes
<1>1. CASE Accepts
  <2>1. /\ newest' = newest + 1 /\ newest' \in 1..MaxIntent /\ active' = active
        /\ outcome' = [GivenUp EXCEPT ![newest'] = "PENDING"]
    BY <1>1 DEF Accepts
  <2>2. \A i \in 1..MaxIntent :
           outcome'[i] = IF i = newest' THEN "PENDING"
                         ELSE IF outcome[i] = "PENDING" THEN "ENDED" ELSE outcome[i]
    BY <2>1 DEF GivenUp
  <2>3. outcome' \in [1..MaxIntent -> {"NONE", "PENDING", "DEPLOYED", "ENDED"}]
    BY <2>1 DEF GivenUp
  <2> QED BY <2>1, <2>2, <2>3
<1>2. CASE Deploys
  BY <1>2 DEF Deploys
<1>3. CASE Disappears
  BY <1>3 DEF Disappears, GivenUp
<1>4. ASSUME NEW i \in Intents, Ends(i) PROVE PointerIsNewest'
  BY <1>4 DEF Ends
<1> QED BY <1>1, <1>2, <1>3, <1>4 DEF PointerNext

\* Only the newest intent of a target is pending, and its active build is the
\* newest that was deployed, unless the branch disappeared.
THEOREM NewestIsActive ==
    ASSUME MaxIntent \in Nat PROVE PointerSpec => []PointerIsNewest
<1>1. PointerInit => PointerIsNewest
  BY DEF PointerInit, PointerIsNewest, Intents, Outcomes
<1>2. PointerIsNewest /\ [PointerNext]_pointerVars => PointerIsNewest'
  <2>1. ASSUME PointerIsNewest, UNCHANGED pointerVars PROVE PointerIsNewest'
    BY <2>1 DEF PointerIsNewest, pointerVars, Intents, Outcomes
  <2> QED BY <2>1, PointerIsNewestStep
<1> QED BY <1>1, <1>2, PTL DEF PointerSpec

\* The active build of a target is never replaced by an older one.
THEOREM PointerNeverGoesBack ==
    ASSUME MaxIntent \in Nat PROVE PointerSpec => NeverBack
<1>1. PointerIsNewest /\ [PointerNext]_pointerVars
         => [active' = 0 \/ active' >= active]_pointerVars
  <2> SUFFICES ASSUME PointerIsNewest, PointerNext
               PROVE  active' = 0 \/ active' >= active
    OBVIOUS
  <2>1. active <= newest
    BY DEF PointerIsNewest, Intents
  <2> QED BY <2>1 DEF PointerNext, Accepts, Deploys, Disappears, Ends, PointerIsNewest
<1> QED BY <1>1, NewestIsActive, PTL DEF PointerSpec, NeverBack
==============================================================================
