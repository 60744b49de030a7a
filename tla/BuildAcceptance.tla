--------------------------- MODULE BuildAcceptance ---------------------------
(***************************************************************************)
(* Acceptance of builds (storage/builds.py, application/builds.py) up to   *)
(* the point where the source of a build is fixed, and the listing of what *)
(* was accepted.                                                           *)
(*                                                                         *)
(* Clients send a request as often as they like, at any instance, because  *)
(* answers get lost; instances differ in the physical targets they verify. *)
(* accept is split at its statements.  The advisory locks on the key and   *)
(* on the target are taken inside the fact lock and add nothing to it, and *)
(* the unique constraint on the key never has to refuse a row.             *)
(*                                                                         *)
(* A row is known by its place in the order of acceptance, which is the    *)
(* order of (created_at, build_id): the clock is read under the fact lock. *)
(* A row also carries the lease tokens issued for its job, numbered, and   *)
(* what the attempts that hold them know of the source.                    *)
(***************************************************************************)
EXTENDS Naturals, Sequences, FiniteSets

CONSTANTS
    Calls,          \* requests that may be in progress at once
    Requests,       \* bodies a client may send; equal digests are one element
    KeyOf,          \* (repository, caller, idempotency_key) of each
    CommitOf,       \* its commit_sha, or None: the head of the branch
    SnapshotOf,     \* its execution snapshot
    EnvironmentOf,  \* environment_id, config_version and physical target key
    VersionOf,      \*   of each snapshot
    TargetOf,
    Instances,      \* service processes
    Verifies,       \* the targets each can verify against its settings
    Followed,       \* requests whose builds are executed in the model
    Heads,          \* commits the branch may point to
    Filters,        \* what a listing may be restricted to: sets of requests
    Limit,          \* rows of a page
    MaxAttempts,    \* max_attempts of a job
    MaxBuilds,      \* bound of the model: rows of engine_build
    None            \* SQL NULL

Snapshots == DOMAIN TargetOf
Commits == Heads \cup {CommitOf[r] : r \in Requests \ {q \in Requests : CommitOf[q] = None}}

ASSUME AcceptanceAssumption ==
    /\ SnapshotOf \in [Requests -> Snapshots]
    /\ DOMAIN KeyOf = Requests /\ DOMAIN CommitOf = Requests
    /\ DOMAIN EnvironmentOf = Snapshots /\ DOMAIN VersionOf = Snapshots
    /\ DOMAIN Verifies = Instances
    /\ Followed \subseteq Requests /\ Filters \subseteq SUBSET Requests
    /\ Limit \in Nat \ {0} /\ MaxAttempts \in Nat \ {0} /\ MaxBuilds \in Nat
    /\ None \notin Commits \cup Requests

VARIABLES
    call,     \* transactions of accept: their step, instance, request and answer
    builds,   \* engine_build and runtime_job, in the order of acceptance
    source,   \* what the attempts of each build know of the source
    pass      \* one client's listing: the cursor it holds and the rows it got

acceptanceVars == <<call, builds, source, pass>>

Steps == {"IDLE", "NEW", "CHECKED", "ANSWERED", "REFUSED"}
Attempts == 1..MaxAttempts
Idle == [at |-> "IDLE", instance |-> None, request |-> None, row |-> 0]
Unknown == [sha |-> None, pinned |-> FALSE]

Row == [request: Requests, commit: Commits \cup {None}, body: Commits \cup {None},
        issued: 0..MaxAttempts, current: 0..MaxAttempts, input: Commits \cup {None}]
NoPass == [filter |-> {}, after |-> 0, rows |-> {}, start |-> 0, open |-> FALSE]

AcceptanceTypeOK ==
    /\ call \in [Calls -> [at: Steps, instance: Instances \cup {None},
                           request: Requests \cup {None}, row: 0..MaxBuilds]]
    /\ \A c \in Calls : call[c].at = "ANSWERED" => call[c].row \in 1..Len(builds)
    /\ builds \in Seq(Row) /\ Len(builds) <= MaxBuilds
    /\ source \in [1..Len(builds) -> [Attempts -> [sha: Commits \cup {None}, pinned: BOOLEAN]]]
    /\ pass \in [filter: SUBSET Requests, after: 0..MaxBuilds, rows: SUBSET (1..MaxBuilds),
                 start: 0..MaxBuilds, open: BOOLEAN]

AcceptanceInit ==
    /\ call = [c \in Calls |-> Idle]
    /\ builds = <<>>
    /\ source = <<>>
    /\ pass = NoPass

-----------------------------------------------------------------------------
(* accept                                                                  *)

Rows == 1..Len(builds)
Accepted(r) == {i \in Rows : builds[i].request = r}
SnapshotIn(i) == SnapshotOf[builds[i].request]

\* Fault: the transaction does not take the fact lock.
Unserialized(c) == TRUE

\* fact_session: no other acceptance is between its first statement and its end.
FactFree(c) == \A d \in Calls \ {c} : call[d].at \notin {"NEW", "CHECKED"}

Prior(r) == {i \in Rows : KeyOf[builds[i].request] = KeyOf[r]}

Ends(c, at, row) == call' = [call EXCEPT ![c].at = at, ![c].row = row]

\* Fault: whatever has the key is the answer.
LookUncompared(c, i, r) ==
    /\ call[c] = Idle
    /\ FactFree(c)
    /\ \E p \in Prior(r) \cup {0} :
         /\ p = 0 => Prior(r) = {}
         /\ call' = [call EXCEPT ![c] = [at |-> IF p = 0 THEN "NEW" ELSE "ANSWERED",
                                         instance |-> i, request |-> r, row |-> p]]
    /\ UNCHANGED <<builds, source, pass>>

\* The lookup comes before anything that depends on this instance's settings.
Look(c, i, r) ==
    /\ call[c] = Idle
    /\ FactFree(c)
    /\ \/ /\ Prior(r) = {}
          /\ call' = [call EXCEPT ![c] = [at |-> "NEW", instance |-> i, request |-> r, row |-> 0]]
       \/ \E p \in Prior(r) :
            call' = [call EXCEPT ![c] =
                [at |-> IF builds[p].request = r THEN "ANSWERED" ELSE "REFUSED",
                 instance |-> i, request |-> r, row |-> p]]
    /\ UNCHANGED <<builds, source, pass>>

TargetTaken(s) ==
    \E i \in Rows : /\ TargetOf[SnapshotIn(i)] = TargetOf[s]
                    /\ EnvironmentOf[SnapshotIn(i)] # EnvironmentOf[s]

VersionTaken(s) ==
    \E i \in Rows : /\ EnvironmentOf[SnapshotIn(i)] = EnvironmentOf[s]
                    /\ VersionOf[SnapshotIn(i)] = VersionOf[s]
                    /\ SnapshotIn(i) # s

Verified(c) == TargetOf[SnapshotOf[call[c].request]] \in Verifies[call[c].instance]

Check(c) ==
    /\ call[c].at = "NEW"
    /\ LET s == SnapshotOf[call[c].request]
       IN  IF Verified(c) /\ ~TargetTaken(s) /\ ~VersionTaken(s)
           THEN Ends(c, "CHECKED", 0) ELSE Ends(c, "REFUSED", 0)
    /\ UNCHANGED <<builds, source, pass>>

\* Fault: the build is answered before its transaction has committed.
InsertUncommitted(c) ==
    /\ call[c].at = "CHECKED"
    /\ Len(builds) < MaxBuilds
    /\ Ends(c, "ANSWERED", Len(builds) + 1)
    /\ UNCHANGED <<builds, source, pass>>

\* Project, job, build and deployment intent are written in one transaction.
Insert(c) ==
    /\ call[c].at = "CHECKED"
    /\ Len(builds) < MaxBuilds
    /\ LET r == call[c].request
       IN  builds' = Append(builds, [request |-> r, commit |-> CommitOf[r], body |-> CommitOf[r],
                                     issued |-> 0, current |-> 0, input |-> None])
    /\ source' = Append(source, [n \in Attempts |-> Unknown])
    /\ Ends(c, "ANSWERED", Len(builds) + 1)
    /\ UNCHANGED pass

\* The statement times out, the process dies, or the row bound is reached.
Rollback(c) ==
    /\ call[c].at \in {"NEW", "CHECKED"}
    /\ call' = [call EXCEPT ![c] = Idle]
    /\ UNCHANGED <<builds, source, pass>>

\* The answer reaches the client or is lost; either way it may ask again.
Answer(c) ==
    /\ call[c].at \in {"ANSWERED", "REFUSED"}
    /\ call' = [call EXCEPT ![c] = Idle]
    /\ UNCHANGED <<builds, source, pass>>

-----------------------------------------------------------------------------
(* The source of a build, as its attempts find it.                         *)

\* A claim hands out the next token and the request_json of the moment.
ClaimBuild(i) ==
    /\ builds[i].request \in Followed
    /\ builds[i].current = 0
    /\ builds[i].issued < MaxAttempts
    /\ LET n == builds[i].issued + 1
       IN  /\ builds' = [builds EXCEPT ![i].issued = n, ![i].current = n]
           /\ source' = [source EXCEPT ![i][n].sha = builds[i].body]
    /\ UNCHANGED <<call, pass>>

\* The lease of the current attempt runs out and recovery queues the job again;
\* the worker that held it goes on with its stale token.
LeaseLost(i) ==
    /\ builds[i].current # 0
    /\ builds' = [builds EXCEPT ![i].current = 0]
    /\ UNCHANGED <<call, source, pass>>

\* remote_head, when the claim came without a commit; the branch moves freely.
ReadBranch(i, n, head) ==
    /\ n <= builds[i].issued
    /\ source[i][n].sha = None
    /\ source' = [source EXCEPT ![i][n].sha = head]
    /\ UNCHANGED <<call, builds, pass>>

\* Fault: any holder of a token may write the commit.
MayPinAlways(i, n) == TRUE

\* _authorized, and the condition of the UPDATE.
MayPin(i, n) ==
    /\ builds[i].current = n
    /\ builds[i].commit \in {None, source[i][n].sha}

\* Fault: the commit is not merged into the job's request.
PinBuildOnly(i, n) ==
    /\ n <= builds[i].issued /\ source[i][n].sha # None /\ ~source[i][n].pinned
    /\ MayPin(i, n)
    /\ builds' = [builds EXCEPT ![i].commit = source[i][n].sha]
    /\ source' = [source EXCEPT ![i][n].pinned = TRUE]
    /\ UNCHANGED <<call, pass>>

\* pin_source writes the commit to the build and into the job's request.
PinSource(i, n) ==
    /\ n <= builds[i].issued /\ source[i][n].sha # None /\ ~source[i][n].pinned
    /\ MayPin(i, n)
    /\ builds' = [builds EXCEPT ![i].commit = source[i][n].sha, ![i].body = source[i][n].sha]
    /\ source' = [source EXCEPT ![i][n].pinned = TRUE]
    /\ UNCHANGED <<call, pass>>

\* The checkout of the pinned commit is captured and attached as the input.
AttachSource(i, n) ==
    /\ source[i][n].pinned
    /\ builds[i].current = n
    /\ builds[i].input = None
    /\ builds' = [builds EXCEPT ![i].input = source[i][n].sha]
    /\ UNCHANGED <<call, source, pass>>

-----------------------------------------------------------------------------
(* list: a keyset of (created_at, build_id), newest first.                 *)

Matching(filter, after) ==
    {i \in Rows : builds[i].request \in filter /\ (after = 0 \/ i < after)}
Newest(rows, k) == {i \in rows : Cardinality({m \in rows : m > i}) < k}
LastSelected(rows) == CHOOSE i \in rows : \A m \in rows : i <= m

\* Fault: the cursor names the row that was only read to see whether there is more.
NextCursorRead(filter, after) ==
    LET matching == Matching(filter, after)
    IN  IF Cardinality(matching) > Limit THEN LastSelected(Newest(matching, Limit + 1)) ELSE 0

\* The cursor of the page after this one, or 0: there is none.
NextCursor(filter, after) ==
    LET matching == Matching(filter, after)
    IN  IF Cardinality(matching) > Limit THEN LastSelected(Newest(matching, Limit)) ELSE 0

\* A client starts a listing, or goes on with the cursor of the page before;
\* a cursor is refused with any other filter than its own.
List(filter) ==
    /\ pass.open => filter = pass.filter
    /\ LET from == IF pass.open THEN pass ELSE [NoPass EXCEPT !.filter = filter, !.start = Len(builds)]
       IN  pass' = [from EXCEPT
              !.rows = @ \cup Newest(Matching(filter, from.after), Limit),
              !.after = NextCursor(filter, from.after),
              !.open = NextCursor(filter, from.after) # 0]
    /\ UNCHANGED <<call, builds, source>>

-----------------------------------------------------------------------------

AcceptanceNext ==
    \/ \E c \in Calls :
         \/ \E i \in Instances, r \in Requests : Look(c, i, r)
         \/ Check(c) \/ Insert(c) \/ Rollback(c) \/ Answer(c)
    \/ \E i \in Rows :
         \/ ClaimBuild(i) \/ LeaseLost(i)
         \/ \E n \in Attempts :
              \/ \E head \in Heads : ReadBranch(i, n, head)
              \/ PinSource(i, n) \/ AttachSource(i, n)
    \/ \E filter \in Filters : List(filter)

AcceptanceSpec == AcceptanceInit /\ [][AcceptanceNext]_acceptanceVars

-----------------------------------------------------------------------------
(* Properties.                                                             *)

\* The accepted rows agree with each other, whoever accepted them in whatever
\* order: a key has one build, a physical target one environment, a
\* configuration version of an environment one snapshot.
RowsAgree ==
    \A i, k \in Rows :
        LET s == SnapshotIn(i)
            t == SnapshotIn(k)
        IN  /\ KeyOf[builds[i].request] = KeyOf[builds[k].request] => i = k
            /\ TargetOf[s] = TargetOf[t] => EnvironmentOf[s] = EnvironmentOf[t]
            /\ EnvironmentOf[s] = EnvironmentOf[t] /\ VersionOf[s] = VersionOf[t] => s = t

TellsTheTruth(c) ==
    LET r == call'[c].request
    IN  /\ call[c] = Idle /\ Accepted(r) # {} => call'[c].at \in {"IDLE", "ANSWERED"}
        /\ call'[c].at = "ANSWERED" => builds'[call'[c].row].request = r

\* A client that repeats an accepted request gets the build of that request,
\* also from an instance whose settings no longer, or do not yet, verify the
\* target; and nobody is answered with the build of another request.
RetryIsAnswered == [][\A c \in Calls : TellsTheTruth(c)]_acceptanceVars

\* What a build is made from is the commit it is pinned to, the one its request
\* names if it names one, whichever attempts read the branch in between.
InputIsPinned ==
    \A i \in Rows :
        /\ builds[i].input # None => builds[i].input = builds[i].commit
        /\ CommitOf[builds[i].request] # None => builds[i].commit = CommitOf[builds[i].request]

\* The attempt that holds the job is never refused for a commit that another
\* attempt has pinned: a retry goes on with the commit of the attempt before it.
RetryKeepsCommit ==
    \A i \in Rows, n \in Attempts :
        builds[i].current = n /\ source[i][n].sha # None =>
            builds[i].commit \in {None, source[i][n].sha}

\* A listing that was read to its end has every build that was there when it
\* began and matches its filter, however many were accepted in the meantime.
HistoryIsWhole ==
    pass.filter # {} /\ ~pass.open =>
        {i \in 1..pass.start : builds[i].request \in pass.filter} \subseteq pass.rows
=============================================================================
