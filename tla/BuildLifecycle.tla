--------------------------- MODULE BuildLifecycle ---------------------------
(***************************************************************************)
(* What the build store promises about builds, seen from outside: a build  *)
(* is accepted, tried a bounded number of times for as long as nothing may *)
(* have been written, and ends once, in a verdict that says no more than   *)
(* is known.  There are no leases, tokens, rows or transactions here;      *)
(* JobStore implements this specification with them.                       *)
(*                                                                         *)
(* One step of the store may move several builds (recovery does), each by  *)
(* one of the moves below.                                                 *)
(***************************************************************************)
EXTENDS Naturals

CONSTANTS
    Builds, Sources,
    MaxTries,    \* a natural number
    None         \* no source

VARIABLE ledger      \* what is known of each build

Public == {"ABSENT", "QUEUED", "RUNNING", "SUCCEEDED", "FAILED", "OUTCOME_UNKNOWN"}

\* status is the public one; tries counts the executions; open says that one
\* may still be going on, written that one may have written to the warehouse;
\* source is the commit's artifact set the build is made from.
Entry == [status: Public, tries: 0..MaxTries, open: BOOLEAN, written: BOOLEAN,
          source: Sources \cup {None}]

NotAccepted == [status |-> "ABSENT", tries |-> 0, open |-> FALSE,
                written |-> FALSE, source |-> None]

LifecycleInit == ledger = [b \in Builds |-> NotAccepted]

-----------------------------------------------------------------------------
(* The moves of one build, from entry e to entry f.                        *)

Accepted(e, f) == e = NotAccepted /\ f = [e EXCEPT !.status = "QUEUED"]

Begun(e, f) ==
    /\ e.status = "QUEUED"
    /\ e.tries < MaxTries
    /\ f = [e EXCEPT !.status = "RUNNING", !.tries = @ + 1, !.open = TRUE]

SourceFixed(e, f) ==
    /\ e.status = "RUNNING"
    /\ e.source = None
    /\ \E s \in Sources : f = [e EXCEPT !.source = s]

WriteAnnounced(e, f) ==
    e.status = "RUNNING" /\ f = [e EXCEPT !.written = TRUE]

\* Only an execution that cannot have written is made up for by another one.
Retried(e, f) ==
    /\ e.status = "RUNNING"
    /\ ~e.written
    /\ e.tries < MaxTries
    /\ f = [e EXCEPT !.status = "QUEUED", !.open = FALSE]

\* SUCCEEDED and FAILED say that the execution is over.
Ended(e, f) ==
    /\ e.status = "RUNNING"
    /\ \E verdict \in {"SUCCEEDED", "FAILED", "OUTCOME_UNKNOWN"}, goesOn \in BOOLEAN :
         /\ f = [e EXCEPT !.status = verdict, !.open = goesOn]
         /\ goesOn => verdict = "OUTCOME_UNKNOWN"
         /\ verdict = "SUCCEEDED" => e.source # None

\* The execution of an unknown outcome is found to be over; the verdict stays.
Proven(e, f) ==
    e.status = "OUTCOME_UNKNOWN" /\ e.open /\ f = [e EXCEPT !.open = FALSE]

Move(e, f) ==
    \/ Accepted(e, f) \/ Begun(e, f) \/ SourceFixed(e, f) \/ WriteAnnounced(e, f)
    \/ Retried(e, f) \/ Ended(e, f) \/ Proven(e, f)

LifecycleNext ==
    /\ ledger' = [b \in Builds |-> ledger'[b]]
    /\ \A b \in Builds : ledger'[b] # ledger[b] => Move(ledger[b], ledger'[b])

LifecycleSpec == LifecycleInit /\ [][LifecycleNext]_ledger

-----------------------------------------------------------------------------
(* Consequences.                                                           *)

Verdicts == {"SUCCEEDED", "FAILED", "OUTCOME_UNKNOWN"}

\* What may be going on is shown as running or as unknown, a success has its
\* source, and what waits to be tried has left nothing behind.
EntryIsHonest(e) ==
    /\ e \in Entry
    /\ e.open => e.status \in {"RUNNING", "OUTCOME_UNKNOWN"}
    /\ e.status = "SUCCEEDED" => e.source # None
    /\ e.status \in {"ABSENT", "QUEUED"} => ~e.open /\ ~e.written

\* Every build is shown honestly.
LedgerIsHonest == ledger \in [Builds -> Entry] /\ \A b \in Builds : EntryIsHonest(ledger[b])

\* A verdict, and the source it was reached from, stay.
VerdictsStay ==
    [][\A b \in Builds : ledger[b].status \in Verdicts =>
          /\ ledger'[b].status = ledger[b].status
          /\ ledger'[b].source = ledger[b].source
          /\ ledger'[b].tries = ledger[b].tries]_ledger
=============================================================================
