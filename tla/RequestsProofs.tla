--------------------------- MODULE RequestsProofs ---------------------------
(* Theorems of what the API does with a request.  Of BuildAcceptance: what     *)
(* accepted builds, and the answers to those who ask for them, may be relied  *)
(* on for.  Of QueryPlans: that each metric of a query is asked once and      *)
(* along its own path, and that the answer is what the metrics would answer   *)
(* alone.                                                                     *)
EXTENDS BuildAcceptance, QueryPlans, FiniteSetTheorems, SequenceTheorems, WellFoundedInduction, TLAPS

-----------------------------------------------------------------------------
(* The inductive invariant of acceptance.                                     *)

\* One acceptance is between its first statement and its end, and what it has
\* seen of the rows is still so.
Pending(c) == call[c].at \in {"NEW", "CHECKED"}

AcceptanceIsSerial ==
    /\ \A c, d \in Calls : Pending(c) /\ Pending(d) => c = d
    /\ \A c \in Calls :
        /\ call[c].at # "IDLE" => call[c].request \in Requests
        /\ Pending(c) => Prior(call[c].request) = {}
        /\ call[c].at = "CHECKED" => LET s == SnapshotOf[call[c].request]
                                     IN  ~TargetTaken(s) /\ ~VersionTaken(s)
        /\ call[c].at = "ANSWERED" => builds[call[c].row].request = call[c].request

\* The job's request has the commit of the build; an attempt that has pinned it
\* has the same; the one that holds the job has it, or may still fix it; and no
\* attempt knows anything before its token is issued.
SourceIsHeld(i) ==
    /\ builds[i].body = builds[i].commit
    /\ builds[i].current <= builds[i].issued
    /\ \A n \in Attempts :
        /\ source[i][n].pinned => source[i][n].sha # None /\ source[i][n].sha = builds[i].commit
        /\ builds[i].current = n => builds[i].commit \in {None, source[i][n].sha}
        /\ n > builds[i].issued => source[i][n] = Unknown

SourcesAreHeld == \A i \in Rows : SourceIsHeld(i)

\* The rows of a listing so far are those of its filter that are not older than
\* its cursor.
ListingIsWhole ==
    /\ pass.start <= Len(builds)
    /\ pass.open <=> pass.after # 0
    /\ {i \in 1..pass.start : builds[i].request \in pass.filter /\ i >= pass.after} \subseteq pass.rows

AcceptanceInductive ==
    AcceptanceTypeOK /\ RowsAgree /\ AcceptanceIsSerial /\ InputIsPinned /\ SourcesAreHeld /\ ListingIsWhole

-----------------------------------------------------------------------------
(* Sets of rows.                                                              *)

\* A set of natural numbers has a smallest.
LEMMA Smallest ==
    ASSUME NEW S \in SUBSET Nat, S # {} PROVE \E x \in S : \A y \in S : x <= y
<1>1. PICK x \in S : \A y \in S : ~(<<y, x>> \in OpToRel(<, Nat))
  BY WFMin, NatLessThanWellFounded
<1>2. \A y \in S : ~(y < x)
  BY <1>1 DEF OpToRel
<1> QED BY <1>2

\* A bounded one also has a largest.
LEMMA Largest ==
    ASSUME NEW n \in Nat, NEW S \in SUBSET (0..n), S # {}
    PROVE  \E x \in S : \A y \in S : y <= x
<1> DEFINE T == {n - y : y \in S}
<1>1. T \in SUBSET Nat /\ T # {}
  <2>1. \A y \in S : n - y \in Nat
    OBVIOUS
  <2>2. PICK y \in S : TRUE
    OBVIOUS
  <2>3. n - y \in T
    OBVIOUS
  <2> QED BY <2>1, <2>3
<1> HIDE DEF T
<1>2. PICK t \in T : \A u \in T : t <= u
  BY <1>1, Smallest
<1>3. PICK x \in S : t = n - x
  BY <1>2 DEF T
<1>4. ASSUME NEW y \in S PROVE y <= x
  <2>1. n - y \in T
    BY DEF T
  <2> QED BY <1>2, <1>3, <2>1
<1> QED BY <1>4

\* A page has every row that matches from the next cursor on, which is a row,
\* or 0: then it has every one.
LEMMA PageReaches ==
    ASSUME AcceptanceTypeOK, NEW filter, NEW after \in Nat
    PROVE  LET matching == Matching(filter, after)
               next == NextCursor(filter, after)
           IN  /\ next \in 0..MaxBuilds
               /\ Newest(matching, Limit) \subseteq 1..MaxBuilds
               /\ {i \in matching : i >= next} \subseteq Newest(matching, Limit)
<1> DEFINE matching == Matching(filter, after)
           next == NextCursor(filter, after)
           page == Newest(matching, Limit)
           Above(i) == {m \in matching : m > i}
<1>0. /\ MaxBuilds \in Nat /\ Limit \in Nat /\ Limit > 0
      /\ Len(builds) \in Nat /\ Len(builds) <= MaxBuilds
  BY AcceptanceAssumption DEF AcceptanceTypeOK
<1>1. matching \subseteq 1..MaxBuilds /\ page \subseteq matching
  BY <1>0 DEF Matching, Rows, Newest
<1>2. IsFiniteSet(matching) /\ Cardinality(matching) \in Nat
  <2>1. IsFiniteSet(1..MaxBuilds)
    BY <1>0, FS_Interval
  <2> QED BY <1>1, <2>1, FS_Subset, FS_CardinalityType
<1>3. \A i : IsFiniteSet(Above(i)) /\ Cardinality(Above(i)) \in Nat
             /\ Cardinality(Above(i)) <= Cardinality(matching)
             /\ (i \in matching => Cardinality(Above(i)) < Cardinality(matching))
  <2> SUFFICES ASSUME NEW i
               PROVE  /\ IsFiniteSet(Above(i)) /\ Cardinality(Above(i)) \in Nat
                      /\ Cardinality(Above(i)) <= Cardinality(matching)
                      /\ (i \in matching => Cardinality(Above(i)) < Cardinality(matching))
    OBVIOUS
  <2>1. Above(i) \in SUBSET matching
    OBVIOUS
  <2>2. IsFiniteSet(Above(i)) /\ Cardinality(Above(i)) <= Cardinality(matching)
        /\ (Cardinality(matching) = Cardinality(Above(i)) => matching = Above(i))
    BY <1>2, <2>1, FS_Subset
  <2>3. Cardinality(Above(i)) \in Nat
    BY <2>2, FS_CardinalityType
  <2>4. i \in matching => matching # Above(i)
    BY <1>0, <1>1
  <2> QED BY <1>2, <2>2, <2>3, <2>4
<1>4. CASE Cardinality(matching) <= Limit
  <2>1. next = 0
    BY <1>0, <1>2, <1>4 DEF NextCursor
  <2>2. matching \subseteq page
    BY <1>0, <1>2, <1>3, <1>4, SMTT(30) DEF Newest
  <2> QED BY <1>0, <1>1, <2>1, <2>2
<1>5. CASE Cardinality(matching) > Limit
  <2>1. PICK top \in matching : \A y \in matching : y <= top
    <3>1. matching # {}
      BY <1>0, <1>5, FS_EmptySet
    <3>2. matching \in SUBSET (0..MaxBuilds)
      BY <1>0, <1>1
    <3> HIDE DEF matching
    <3> QED BY <1>0, <3>1, <3>2, Largest
  <2>2. top \in page
    <3>1. Above(top) = {}
      BY <1>0, <1>1, <2>1
    <3> QED BY <1>0, <2>1, <3>1, FS_EmptySet DEF Newest
  <2>3. \E i \in page : \A m \in page : i <= m
    <3>1. page \in SUBSET Nat
      BY <1>0, <1>1
    <3> QED BY <2>2, <3>1, Smallest
  <2>4. next = LastSelected(page)
    BY <1>5 DEF NextCursor
  <2>5. next \in page
    BY <2>3, <2>4 DEF LastSelected
  <2>6. ASSUME NEW i \in matching, i >= next PROVE i \in page
    <3>1. Above(i) \in SUBSET Above(next)
      BY <1>0, <1>1, <2>5, <2>6
    <3>2. Cardinality(Above(i)) <= Cardinality(Above(next))
      BY <1>3, <3>1, FS_Subset
    <3>3. Cardinality(Above(next)) < Limit
      BY <2>5 DEF Newest
    <3>4. Cardinality(Above(i)) \in Nat /\ Cardinality(Above(next)) \in Nat
      BY <1>3
    <3>5. Cardinality(Above(i)) < Limit
      <4> HIDE DEF Above, next
      <4> QED BY <1>0, <3>2, <3>3, <3>4
    <3> QED BY <2>6, <3>5 DEF Newest
  <2> QED BY <1>0, <1>1, <2>5, <2>6
<1> QED BY <1>0, <1>2, <1>4, <1>5

-----------------------------------------------------------------------------
(* What the steps do to the rows.                                             *)

Knowledge == [sha: Commits \cup {None}, pinned: BOOLEAN]
Sources == [Attempts -> Knowledge]

\* A step of accept that writes no row, and one of an attempt of a build.
Asks(c) == (\E i \in Instances, r \in Requests : Look(c, i, r)) \/ Check(c) \/ Rollback(c) \/ Answer(c)

Executes(i) ==
    \/ ClaimBuild(i) \/ LeaseLost(i)
    \/ \E n \in Attempts :
        \/ \E head \in Heads : ReadBranch(i, n, head)
        \/ PinSource(i, n) \/ AttachSource(i, n)

\* A new row comes after all others; its commit is that of its request, and
\* nothing is known of its source.
LEMMA InsertAddsRow ==
    ASSUME AcceptanceTypeOK, AcceptanceIsSerial, NEW c \in Calls, Insert(c)
    PROVE  LET n == Len(builds) + 1
               r == call[c].request
           IN  /\ Len(builds) \in Nat /\ n <= MaxBuilds /\ r \in Requests
               /\ builds' \in Seq(Row) /\ Len(builds') = n
               /\ source' \in [1..n -> Sources]
               /\ \A i \in Rows : builds'[i] = builds[i] /\ source'[i] = source[i]
               /\ builds'[n].request = r
               /\ builds'[n] = [request |-> r, commit |-> CommitOf[r], body |-> CommitOf[r],
                                issued |-> 0, current |-> 0, input |-> None]
               /\ source'[n] = [k \in Attempts |-> Unknown]
<1> DEFINE n == Len(builds) + 1
           r == call[c].request
           row == [request |-> r, commit |-> CommitOf[r], body |-> CommitOf[r],
                   issued |-> 0, current |-> 0, input |-> None]
           unknown == [k \in Attempts |-> Unknown]
<1>1. /\ builds \in Seq(Row) /\ Len(builds) \in Nat /\ n <= MaxBuilds /\ r \in Requests
      /\ source \in [1..Len(builds) -> Sources]
      /\ builds' = Append(builds, row) /\ source' = Append(source, unknown)
  BY AcceptanceAssumption DEF AcceptanceTypeOK, AcceptanceIsSerial, Insert, Sources, Knowledge
<1>2. row \in Row
  BY <1>1, AcceptanceAssumption DEF Row, Commits
<1>3. unknown \in Sources
  BY DEF Unknown, Sources, Knowledge
<1>4. source \in Seq(Sources) /\ Len(source) = Len(builds)
  BY <1>1, SMTT(30)
<1>7. row.request = r
  OBVIOUS
<1> HIDE DEF row, unknown
<1>5. /\ builds' \in Seq(Row) /\ Len(builds') = n /\ builds'[n] = row
      /\ \A i \in Rows : builds'[i] = builds[i]
  BY <1>1, <1>2, AppendProperties DEF Rows
<1>6. /\ source' \in [1..n -> Sources] /\ source'[n] = unknown
      /\ \A i \in Rows : source'[i] = source[i]
  <2>1. source' \in Seq(Sources) /\ Len(source') = n /\ source'[n] = unknown
        /\ \A i \in 1..Len(source) : source'[i] = source[i]
    BY <1>1, <1>3, <1>4, AppendProperties
  <2>2. source' \in [1..Len(source') -> Sources]
    BY <2>1, LenProperties
  <2> QED BY <1>4, <2>1, <2>2 DEF Rows
<1> QED BY <1>1, <1>5, <1>6, <1>7 DEF row, unknown

\* A step of an attempt changes the row of its build, not whose request it is,
\* and what that attempt knows.
LEMMA ExecutionKeepsRequests ==
    ASSUME AcceptanceTypeOK, NEW i \in Rows, Executes(i)
    PROVE  /\ UNCHANGED <<call, pass>>
           /\ builds' \in Seq(Row) /\ Len(builds') = Len(builds)
           /\ source' \in [Rows -> Sources]
           /\ \A k \in Rows : /\ builds'[k].request = builds[k].request
                              /\ k # i => builds'[k] = builds[k] /\ source'[k] = source[k]
<1>1. /\ builds \in Seq(Row) /\ Len(builds) \in Nat /\ source \in [Rows -> Sources]
      /\ i \in 1..Len(builds) /\ builds[i] \in Row /\ MaxAttempts \in Nat
      /\ source[i] \in Sources
  BY AcceptanceAssumption, ElementOfSeq DEF AcceptanceTypeOK, Rows, Sources, Knowledge
<1>2. ASSUME NEW e \in Row, builds' = [builds EXCEPT ![i] = e], e.request = builds[i].request
      PROVE  /\ builds' \in Seq(Row) /\ Len(builds') = Len(builds)
             /\ \A k \in Rows : builds'[k].request = builds[k].request
                                /\ (k # i => builds'[k] = builds[k])
  BY <1>1, <1>2, ExceptSeq DEF Rows
<1>3. ASSUME NEW k \in Attempts, NEW u \in Knowledge,
             source' = [source EXCEPT ![i] = [source[i] EXCEPT ![k] = u]]
      PROVE  source' \in [Rows -> Sources] /\ \A j \in Rows : j # i => source'[j] = source[j]
  BY <1>1, <1>3 DEF Sources, Knowledge
<1>4. /\ \A k \in Attempts : source[i][k] \in Knowledge
      /\ builds[i] \in Row /\ 0 \in 0..MaxAttempts
  BY <1>1 DEF Sources, Knowledge
<1>5. CASE ClaimBuild(i)
  <2> DEFINE n == builds[i].issued + 1
             e == [builds[i] EXCEPT !.issued = n, !.current = n]
  <2>1. n \in Attempts /\ n \in 0..MaxAttempts /\ builds[i].body \in Commits \cup {None}
    BY <1>1, <1>5 DEF ClaimBuild, Row, Attempts
  <2>2. builds' = [builds EXCEPT ![i] = e]
    BY <1>1, <1>5 DEF ClaimBuild
  <2>3. e \in Row
    BY <1>1, <2>1 DEF Row
  <2>4. e.request = builds[i].request
    BY <1>1 DEF Row
  <2> DEFINE u == [source[i][n] EXCEPT !.sha = builds[i].body]
  <2>5. source' = [source EXCEPT ![i] = [source[i] EXCEPT ![n] = u]]
    BY <1>5 DEF ClaimBuild
  <2>6. u \in Knowledge
    BY <1>4, <2>1 DEF Knowledge
  <2>7. UNCHANGED <<call, pass>>
    BY <1>5 DEF ClaimBuild
  <2> HIDE DEF e, u, n
  <2>8. builds' \in Seq(Row) /\ Len(builds') = Len(builds)
        /\ \A k \in Rows : builds'[k].request = builds[k].request
                           /\ (k # i => builds'[k] = builds[k])
    BY <1>2, <2>2, <2>3, <2>4
  <2>9. source' \in [Rows -> Sources] /\ \A j \in Rows : j # i => source'[j] = source[j]
    BY <1>3, <2>1, <2>5, <2>6
  <2> QED BY <2>7, <2>8, <2>9
<1>6. CASE LeaseLost(i)
  <2> DEFINE e == [builds[i] EXCEPT !.current = 0]
  <2>1. builds' = [builds EXCEPT ![i] = e]
    BY <1>1, <1>6 DEF LeaseLost
  <2>2. e \in Row
    BY <1>4 DEF Row
  <2>3. e.request = builds[i].request
    BY <1>4 DEF Row
  <2> QED BY <1>1, <1>2, <1>6, <2>1, <2>2, <2>3 DEF LeaseLost
<1>7. ASSUME NEW n \in Attempts, NEW head \in Heads, ReadBranch(i, n, head)
      PROVE  UNCHANGED <<builds, call, pass>> /\ source' \in [Rows -> Sources]
             /\ \A j \in Rows : j # i => source'[j] = source[j]
  <2>1. head \in Commits
    BY DEF Commits
  <2> DEFINE u == [source[i][n] EXCEPT !.sha = head]
  <2>2. source' = [source EXCEPT ![i] = [source[i] EXCEPT ![n] = u]]
    BY <1>7 DEF ReadBranch
  <2>3. u \in Knowledge
    BY <1>4, <2>1 DEF Knowledge
  <2> HIDE DEF u
  <2> QED BY <1>3, <1>7, <2>2, <2>3 DEF ReadBranch
<1>8. ASSUME NEW n \in Attempts, PinSource(i, n)
      PROVE  /\ UNCHANGED <<call, pass>> /\ source' \in [Rows -> Sources]
             /\ \A j \in Rows : j # i => source'[j] = source[j]
             /\ \E e \in Row : builds' = [builds EXCEPT ![i] = e] /\ e.request = builds[i].request
  <2> DEFINE e == [builds[i] EXCEPT !.commit = source[i][n].sha, !.body = source[i][n].sha]
  <2>1. builds' = [builds EXCEPT ![i] = e]
    BY <1>1, <1>8 DEF PinSource
  <2>3. e \in Row
    BY <1>4 DEF Row, Knowledge
  <2>4. e.request = builds[i].request
    BY <1>1 DEF Row
  <2> DEFINE u == [source[i][n] EXCEPT !.pinned = TRUE]
  <2>2. source' = [source EXCEPT ![i] = [source[i] EXCEPT ![n] = u]]
    BY <1>8 DEF PinSource
  <2>5. u \in Knowledge
    BY <1>4 DEF Knowledge
  <2> HIDE DEF u, e
  <2> QED BY <1>3, <1>8, <2>1, <2>2, <2>3, <2>4, <2>5 DEF PinSource
<1>9. ASSUME NEW n \in Attempts, AttachSource(i, n)
      PROVE  /\ UNCHANGED <<call, pass, source>>
             /\ \E e \in Row : builds' = [builds EXCEPT ![i] = e] /\ e.request = builds[i].request
  <2> DEFINE e == [builds[i] EXCEPT !.input = source[i][n].sha]
  <2>1. builds' = [builds EXCEPT ![i] = e]
    BY <1>1, <1>9 DEF AttachSource
  <2>2. e \in Row
    BY <1>4 DEF Row, Knowledge
  <2>3. e.request = builds[i].request
    BY <1>1 DEF Row
  <2> QED BY <1>9, <2>1, <2>2, <2>3 DEF AttachSource
<1> QED BY <1>1, <1>2, <1>5, <1>6, <1>7, <1>8, <1>9 DEF Executes

\* A row that has been accepted stays, with its request; only Insert adds one.
LEMMA RowsGrow ==
    ASSUME AcceptanceTypeOK, AcceptanceIsSerial, [AcceptanceNext]_acceptanceVars
    PROVE  /\ Len(builds) \in Nat /\ Len(builds') \in Nat
           /\ Rows \subseteq Rows'
           /\ \A i \in Rows : builds'[i].request = builds[i].request
           /\ (\A c \in Calls : ~Insert(c)) => Rows' = Rows
<1>0. Len(builds) \in Nat
  BY DEF AcceptanceTypeOK
<1>1. CASE UNCHANGED builds
  BY <1>0, <1>1 DEF Rows
<1>2. ASSUME NEW c \in Calls, Insert(c)
      PROVE  /\ Len(builds') = Len(builds) + 1
             /\ \A i \in Rows : builds'[i] = builds[i]
  BY <1>2, InsertAddsRow
<1>3. ASSUME NEW i \in Rows, Executes(i)
      PROVE  /\ Len(builds') = Len(builds)
             /\ \A k \in Rows : builds'[k].request = builds[k].request
  BY <1>3, ExecutionKeepsRequests
<1>4. UNCHANGED builds \/ (\E c \in Calls : Insert(c)) \/ (\E i \in Rows : Executes(i))
  <2>1. ASSUME NEW c \in Calls, Asks(c) PROVE UNCHANGED builds
    BY <2>1 DEF Asks, Look, Check, Rollback, Answer
  <2>2. ASSUME NEW filter \in Filters, List(filter) PROVE UNCHANGED builds
    BY <2>2 DEF List
  <2>3. CASE UNCHANGED acceptanceVars
    BY <2>3 DEF acceptanceVars
  <2> QED BY <2>1, <2>2, <2>3 DEF AcceptanceNext, Asks, Executes
<1>5. CASE \E c \in Calls : Insert(c)
  BY <1>0, <1>2, <1>5 DEF Rows
<1>6. CASE \E i \in Rows : Executes(i)
  BY <1>0, <1>3, <1>6 DEF Rows
<1> QED BY <1>1, <1>4, <1>5, <1>6

\* Types and bounds are kept.
LEMMA AcceptanceTypeStep ==
    ASSUME AcceptanceTypeOK, AcceptanceIsSerial, [AcceptanceNext]_acceptanceVars
    PROVE  AcceptanceTypeOK'
<1> DEFINE CallType == [at: Steps, instance: Instances \cup {None},
                        request: Requests \cup {None}, row: 0..MaxBuilds]
           CallsOK == /\ call \in [Calls -> CallType]
                      /\ \A c \in Calls : call[c].at = "ANSWERED" => call[c].row \in 1..Len(builds)
           RowsOK == /\ builds \in Seq(Row) /\ Len(builds) <= MaxBuilds
                     /\ source \in [1..Len(builds) -> Sources]
           PassOK == pass \in [filter: SUBSET Requests, after: 0..MaxBuilds,
                               rows: SUBSET (1..MaxBuilds), start: 0..MaxBuilds, open: BOOLEAN]
<1>0. /\ CallsOK /\ RowsOK /\ PassOK /\ MaxBuilds \in Nat /\ Len(builds) \in Nat
      /\ Len(builds) <= Len(builds') /\ Len(builds') \in Nat
      /\ Rows = 1..Len(builds)
  BY AcceptanceAssumption, RowsGrow DEF AcceptanceTypeOK, Sources, Knowledge, Rows
<1> SUFFICES CallsOK' /\ RowsOK' /\ PassOK'
  BY DEF AcceptanceTypeOK, Sources, Knowledge
<1>1. CASE UNCHANGED acceptanceVars
  BY <1>0, <1>1 DEF acceptanceVars
<1>2. ASSUME NEW c \in Calls, Asks(c) PROVE CallsOK' /\ RowsOK' /\ PassOK'
  <2>1. UNCHANGED <<builds, source, pass>>
    BY <1>2 DEF Asks, Look, Check, Rollback, Answer
  <2>2. Idle \in CallType
    BY <1>0 DEF Idle, Steps
  <2>3. ASSUME NEW i \in Instances, NEW r \in Requests, Look(c, i, r) PROVE CallsOK'
    <3>1. \E given \in CallType : /\ call' = [call EXCEPT ![c] = given]
                                  /\ given.at = "ANSWERED" => given.row \in 1..Len(builds)
      <4>1. CASE Prior(r) = {}
        <5>1. [at |-> "NEW", instance |-> i, request |-> r, row |-> 0] \in CallType
          BY <1>0 DEF Steps
        <5> QED BY <2>3, <4>1, <5>1 DEF Look
      <4>2. CASE Prior(r) # {}
        <5>1. PICK p \in Prior(r) :
                call' = [call EXCEPT ![c] =
                  [at |-> IF builds[p].request = r THEN "ANSWERED" ELSE "REFUSED",
                   instance |-> i, request |-> r, row |-> p]]
          BY <2>3, <4>2 DEF Look
        <5>2. p \in 1..Len(builds) /\ p \in 0..MaxBuilds
          BY <1>0 DEF Prior
        <5>3. [at |-> IF builds[p].request = r THEN "ANSWERED" ELSE "REFUSED",
               instance |-> i, request |-> r, row |-> p] \in CallType
          BY <5>2 DEF Steps
        <5> QED BY <5>1, <5>2, <5>3
      <4> QED BY <4>1, <4>2
    <3> HIDE DEF CallType
    <3> QED BY <1>0, <2>1, <3>1
  <2>4. CASE Check(c)
    <3>1. PICK at \in {"CHECKED", "REFUSED"} : call' = [call EXCEPT ![c].at = at, ![c].row = 0]
      BY <2>4 DEF Check, Ends
    <3>2. at \in Steps /\ at # "ANSWERED"
      BY DEF Steps
    <3>3. call' = [call EXCEPT ![c] = [call[c] EXCEPT !.at = at, !.row = 0]]
      BY <3>1
    <3>4. [call[c] EXCEPT !.at = at, !.row = 0] \in CallType
      <4>1. call[c] \in CallType /\ 0 \in 0..MaxBuilds
        BY <1>0
      <4> QED BY <3>2, <4>1
    <3> QED BY <1>0, <2>1, <3>2, <3>3, <3>4
  <2>5. CASE Rollback(c) \/ Answer(c)
    <3>1. call' = [call EXCEPT ![c] = Idle]
      BY <2>5 DEF Rollback, Answer
    <3> QED BY <1>0, <2>1, <2>2, <3>1 DEF Idle
  <2> QED BY <1>0, <1>2, <2>1, <2>3, <2>4, <2>5 DEF Asks
<1>3. ASSUME NEW c \in Calls, Insert(c) PROVE CallsOK' /\ RowsOK' /\ PassOK'
  <2>1. /\ builds' \in Seq(Row) /\ Len(builds') = Len(builds) + 1 /\ Len(builds') <= MaxBuilds
        /\ source' \in [1..Len(builds') -> Sources]
    BY <1>3, InsertAddsRow
  <2>2. /\ call' = [call EXCEPT ![c].at = "ANSWERED", ![c].row = Len(builds) + 1]
        /\ pass' = pass
    BY <1>3 DEF Insert, Ends
  <2>3. Len(builds) + 1 \in 0..MaxBuilds /\ "ANSWERED" \in Steps
    BY <1>0, <2>1 DEF Steps
  <2>4. CallsOK'
    <3>1. call' = [call EXCEPT ![c] = [call[c] EXCEPT !.at = "ANSWERED", !.row = Len(builds) + 1]]
      BY <2>2
    <3>2. [call[c] EXCEPT !.at = "ANSWERED", !.row = Len(builds) + 1] \in CallType
      BY <1>0, <2>3
    <3>3. Len(builds) + 1 \in 1..Len(builds')
      BY <1>0, <2>1
    <3>4. \A k \in 1..Len(builds) : k \in 1..Len(builds')
      BY <1>0
    <3> QED BY <1>0, <3>1, <3>2, <3>3, <3>4
  <2> QED BY <1>0, <2>1, <2>2, <2>4
<1>4. ASSUME NEW i \in Rows, Executes(i) PROVE CallsOK' /\ RowsOK' /\ PassOK'
  <2>1. /\ UNCHANGED <<call, pass>> /\ builds' \in Seq(Row) /\ Len(builds') = Len(builds)
        /\ source' \in [1..Len(builds) -> Sources]
    BY <1>0, <1>4, ExecutionKeepsRequests
  <2> QED BY <1>0, <2>1
<1>5. ASSUME NEW filter \in Filters, List(filter) PROVE CallsOK' /\ RowsOK' /\ PassOK'
  <2> DEFINE from == IF pass.open THEN pass
                     ELSE [NoPass EXCEPT !.filter = filter, !.start = Len(builds)]
  <2>1. from \in [filter: SUBSET Requests, after: 0..MaxBuilds,
                  rows: SUBSET (1..MaxBuilds), start: 0..MaxBuilds, open: BOOLEAN]
    <3>1. filter \in SUBSET Requests /\ Len(builds) \in 0..MaxBuilds /\ 0 \in 0..MaxBuilds
      BY <1>0, AcceptanceAssumption
    <3>2. CASE pass.open
      BY <1>0, <3>2
    <3>3. CASE ~pass.open
      BY <3>1, <3>3 DEF NoPass
    <3> QED BY <3>2, <3>3
  <2>2. from.after \in Nat
    <3> HIDE DEF from
    <3> QED BY <1>0, <2>1
  <2>3. /\ NextCursor(filter, from.after) \in 0..MaxBuilds
        /\ Newest(Matching(filter, from.after), Limit) \subseteq 1..MaxBuilds
    BY <2>2, PageReaches
  <2>4. /\ UNCHANGED <<call, builds, source>>
        /\ pass' = [from EXCEPT
              !.rows = @ \cup Newest(Matching(filter, from.after), Limit),
              !.after = NextCursor(filter, from.after),
              !.open = NextCursor(filter, from.after) # 0]
    BY <1>5 DEF List
  <2> HIDE DEF from
  <2>5. PassOK'
    BY <2>1, <2>3, <2>4
  <2> QED BY <1>0, <2>4, <2>5
<1> QED BY <1>1, <1>2, <1>3, <1>4, <1>5 DEF AcceptanceNext, Asks, Executes

-----------------------------------------------------------------------------
(* Acceptance.                                                                *)

\* Whether a key, a target or a version is taken depends only on whose requests
\* the rows are, and no row leaves.
LEMMA TakenDependsOnRequests ==
    ASSUME AcceptanceTypeOK, AcceptanceIsSerial, [AcceptanceNext]_acceptanceVars,
           \A c \in Calls : ~Insert(c)
    PROVE  /\ \A r : Prior(r)' = Prior(r)
           /\ \A s : TargetTaken(s)' = TargetTaken(s) /\ VersionTaken(s)' = VersionTaken(s)
<1>1. Rows' = Rows /\ \A i \in Rows : builds'[i].request = builds[i].request
  BY RowsGrow
<1>2. \A i \in Rows : SnapshotIn(i)' = SnapshotIn(i)
  BY <1>1 DEF SnapshotIn
<1>3. \A r : Prior(r)' = Prior(r)
  BY <1>1 DEF Prior
<1>4. \A s : TargetTaken(s)' = TargetTaken(s)
  BY <1>1, <1>2 DEF TargetTaken
<1>5. \A s : VersionTaken(s)' = VersionTaken(s)
  BY <1>1, <1>2 DEF VersionTaken
<1> QED BY <1>3, <1>4, <1>5

\* The acceptance that holds the fact lock is the only one, and what it has
\* seen stays so until it ends.
LEMMA AcceptanceIsSerialStep ==
    ASSUME AcceptanceTypeOK, AcceptanceIsSerial, [AcceptanceNext]_acceptanceVars
    PROVE  AcceptanceIsSerial'
<1> DEFINE One == \A c, d \in Calls : Pending(c) /\ Pending(d) => c = d
           Sees(c) == /\ call[c].at # "IDLE" => call[c].request \in Requests
                      /\ Pending(c) => Prior(call[c].request) = {}
                      /\ call[c].at = "CHECKED" => LET s == SnapshotOf[call[c].request]
                                                   IN  ~TargetTaken(s) /\ ~VersionTaken(s)
                      /\ call[c].at = "ANSWERED" => builds[call[c].row].request = call[c].request
<1>0. /\ One /\ \A c \in Calls : Sees(c)
      /\ DOMAIN call = Calls
      /\ \A c \in Calls : call[c].at = "ANSWERED" => call[c].row \in Rows
  BY DEF AcceptanceIsSerial, AcceptanceTypeOK, Rows
<1> SUFFICES One' /\ \A c \in Calls : Sees(c)'
  BY DEF AcceptanceIsSerial
<1>1. CASE \A c \in Calls : ~Insert(c)
  <2>1. /\ \A r : Prior(r)' = Prior(r)
        /\ \A s : TargetTaken(s)' = TargetTaken(s) /\ VersionTaken(s)' = VersionTaken(s)
        /\ Rows' = Rows /\ \A i \in Rows : builds'[i].request = builds[i].request
    BY <1>1, RowsGrow, TakenDependsOnRequests
  <2>2. ASSUME NEW d \in Calls, call'[d] = call[d] PROVE Sees(d)'
    <3>1. Sees(d) /\ (call[d].at = "ANSWERED" => call[d].row \in Rows)
      BY <1>0
    <3>2. Prior(call[d].request)' = Prior(call[d].request)
      BY <2>1, <2>2 DEF Prior
    <3>3. /\ TargetTaken(SnapshotOf[call[d].request])' = TargetTaken(SnapshotOf[call[d].request])
          /\ VersionTaken(SnapshotOf[call[d].request])' = VersionTaken(SnapshotOf[call[d].request])
      BY <2>1, <2>2
    <3> QED BY <2>1, <2>2, <3>1, <3>2, <3>3 DEF Pending
  <2>3. CASE UNCHANGED call
    <3>1. \A d \in Calls : Sees(d)'
      BY <2>2, <2>3
    <3>2. One'
      BY <1>0, <2>3 DEF Pending
    <3> QED BY <3>1, <3>2
  <2>4. ASSUME NEW c \in Calls, Asks(c) PROVE One' /\ \A d \in Calls : Sees(d)'
    <3>1. \A d \in Calls : d # c => call'[d] = call[d]
      BY <1>0, <2>4 DEF Asks, Look, Check, Ends, Rollback, Answer
    <3>2. \A d \in Calls \ {c} : Sees(d)'
      BY <2>2, <3>1
    <3>3. ASSUME NEW i \in Instances, NEW r \in Requests, Look(c, i, r) PROVE One' /\ Sees(c)'
      <4>0. UNCHANGED builds /\ FactFree(c)
        BY <3>3 DEF Look
      <4>1. CASE Prior(r) = {}
        <5>1. call'[c] = [at |-> "NEW", instance |-> i, request |-> r, row |-> 0]
          BY <1>0, <3>3, <4>1 DEF Look
        <5>2. \A d \in Calls : d # c => ~Pending(d)
          BY <4>0 DEF FactFree, Pending
        <5>3. One'
          BY <3>1, <5>2 DEF Pending
        <5>4. (Prior(call[c].request))' = {}
          BY <2>1, <4>1, <5>1 DEF Prior
        <5> QED BY <5>1, <5>3, <5>4 DEF Pending
      <4>2. CASE Prior(r) # {}
        <5>1. PICK p \in Prior(r) :
                call'[c] = [at |-> IF builds[p].request = r THEN "ANSWERED" ELSE "REFUSED",
                            instance |-> i, request |-> r, row |-> p]
          BY <1>0, <3>3, <4>2 DEF Look
        <5>2. ~Pending(c)'
          BY <5>1 DEF Pending
        <5>3. One'
          BY <1>0, <3>1, <5>2 DEF Pending
        <5> QED BY <4>0, <5>1, <5>2, <5>3 DEF Pending
      <4> QED BY <4>1, <4>2
    <3>4. CASE Check(c)
      <4>1. /\ call[c].at = "NEW" /\ UNCHANGED builds
            /\ call'[c].request = call[c].request
            /\ call'[c].at \in {"CHECKED", "REFUSED"}
            /\ call'[c].at = "CHECKED" =>
                    ~TargetTaken(SnapshotOf[call[c].request]) /\ ~VersionTaken(SnapshotOf[call[c].request])
        <5>1. CASE Verified(c) /\ ~TargetTaken(SnapshotOf[call[c].request])
                   /\ ~VersionTaken(SnapshotOf[call[c].request])
          <6>1. Ends(c, "CHECKED", 0)
            BY <3>4, <5>1 DEF Check
          <6> QED BY <1>0, <3>4, <5>1, <6>1 DEF Check, Ends
        <5>2. CASE ~(Verified(c) /\ ~TargetTaken(SnapshotOf[call[c].request])
                     /\ ~VersionTaken(SnapshotOf[call[c].request]))
          <6>1. Ends(c, "REFUSED", 0)
            BY <3>4, <5>2 DEF Check
          <6> QED BY <1>0, <3>4, <6>1 DEF Check, Ends
        <5> QED BY <5>1, <5>2
      <4>2. Pending(c) /\ Sees(c)
        BY <1>0, <4>1 DEF Pending
      <4>3. (Prior(call[c].request))' = {}
        BY <2>1, <4>1, <4>2 DEF Prior, Pending
      <4>4. call'[c].at = "CHECKED" => /\ ~TargetTaken(SnapshotOf[call[c].request])'
                                       /\ ~VersionTaken(SnapshotOf[call[c].request])'
        <5>1. \A i \in Rows : SnapshotIn(i)' = SnapshotIn(i)
          BY <2>1 DEF SnapshotIn
        <5> QED BY <2>1, <4>1, <5>1 DEF TargetTaken, VersionTaken
      <4>5. One'
        BY <1>0, <3>1, <4>2 DEF Pending
      <4>6. call[c].request \in Requests
        BY <4>1, <4>2
      <4>7. Sees(c)'
        BY <4>1, <4>3, <4>4, <4>6 DEF Pending
      <4> QED BY <3>2, <4>5, <4>7
    <3>5. CASE Rollback(c) \/ Answer(c)
      <4>1. call'[c].at = "IDLE"
        BY <1>0, <3>5 DEF Rollback, Answer, Idle
      <4>2. One'
        BY <1>0, <3>1, <4>1 DEF Pending
      <4>3. Sees(c)'
        BY <4>1 DEF Pending
      <4> QED BY <3>2, <4>2, <4>3
    <3> QED BY <2>4, <3>2, <3>3, <3>4, <3>5 DEF Asks
  <2>5. UNCHANGED call \/ \E c \in Calls : Asks(c)
    <3>1. ASSUME NEW i \in Rows, Executes(i) PROVE UNCHANGED call
      BY <3>1, ExecutionKeepsRequests
    <3>2. ASSUME NEW filter \in Filters, List(filter) PROVE UNCHANGED call
      BY <3>2 DEF List
    <3>3. CASE UNCHANGED acceptanceVars
      BY <3>3 DEF acceptanceVars
    <3> QED BY <1>1, <3>1, <3>2, <3>3 DEF AcceptanceNext, Asks, Executes
  <2> QED BY <2>3, <2>4, <2>5
<1>2. ASSUME NEW c \in Calls, Insert(c) PROVE One' /\ \A d \in Calls : Sees(d)'
  <2>1. /\ call[c].at = "CHECKED"
        /\ call' = [call EXCEPT ![c].at = "ANSWERED", ![c].row = Len(builds) + 1]
    BY <1>2 DEF Insert, Ends
  <2>2. /\ call'[c].at = "ANSWERED" /\ call'[c].row = Len(builds) + 1
        /\ call'[c].request = call[c].request
        /\ \A d \in Calls : d # c => call'[d] = call[d]
    BY <1>0, <2>1
  <2>3. /\ builds'[Len(builds) + 1].request = call[c].request
        /\ call[c].request \in Requests
        /\ \A i \in Rows : builds'[i] = builds[i]
    <3> HIDE DEF One, Sees
    <3> QED BY <1>2, InsertAddsRow
  <2>4. ASSUME NEW d \in Calls, d # c PROVE Sees(d)' /\ ~Pending(d)'
    <3>1. ~Pending(d) /\ Sees(d) /\ (call[d].at = "ANSWERED" => call[d].row \in Rows)
      BY <1>0, <2>1, <2>4 DEF Pending
    <3> QED BY <2>2, <2>3, <2>4, <3>1 DEF Pending
  <2>5. Sees(c)' /\ ~Pending(c)'
    BY <2>2, <2>3 DEF Pending
  <2> QED BY <2>4, <2>5
<1> QED BY <1>1, <1>2

\* The row that is inserted agrees with those that are there.
LEMMA RowsAgreeStep ==
    ASSUME AcceptanceTypeOK, AcceptanceIsSerial, RowsAgree, [AcceptanceNext]_acceptanceVars
    PROVE  RowsAgree'
<1> DEFINE Agree(q, r) == LET s == SnapshotOf[q]
                              t == SnapshotOf[r]
                          IN  /\ TargetOf[s] = TargetOf[t] => EnvironmentOf[s] = EnvironmentOf[t]
                              /\ EnvironmentOf[s] = EnvironmentOf[t] /\ VersionOf[s] = VersionOf[t] => s = t
<1>0. /\ Len(builds) \in Nat /\ Rows = 1..Len(builds)
      /\ \A i, k \in Rows : /\ KeyOf[builds[i].request] = KeyOf[builds[k].request] => i = k
                            /\ Agree(builds[i].request, builds[k].request)
  BY DEF RowsAgree, SnapshotIn, AcceptanceTypeOK, Rows
<1>1. CASE \A c \in Calls : ~Insert(c)
  <2>1. Rows' = Rows /\ \A i \in Rows : builds'[i].request = builds[i].request
    BY <1>1, RowsGrow
  <2> QED BY <1>0, <2>1 DEF RowsAgree, SnapshotIn
<1>2. ASSUME NEW c \in Calls, Insert(c) PROVE RowsAgree'
  <2> DEFINE n == Len(builds) + 1
             r == call[c].request
  <2>1. /\ Prior(r) = {} /\ ~TargetTaken(SnapshotOf[r]) /\ ~VersionTaken(SnapshotOf[r])
    BY <1>2 DEF AcceptanceIsSerial, Insert, Pending
  <2>2. \A i \in Rows : KeyOf[builds[i].request] # KeyOf[r] /\ Agree(builds[i].request, r)
                        /\ Agree(r, builds[i].request)
    BY <2>1 DEF Prior, TargetTaken, VersionTaken, SnapshotIn
  <2>3. /\ builds'[n].request = r /\ \A i \in Rows : builds'[i] = builds[i]
        /\ Rows' = Rows \cup {n} /\ n \notin Rows
    <3>1. /\ builds'[n].request = r /\ \A i \in Rows : builds'[i] = builds[i]
          /\ Len(builds') = n
      <4> HIDE DEF Agree
      <4> QED BY <1>2, InsertAddsRow
    <3> QED BY <1>0, <3>1 DEF Rows
  <2>4. Agree(r, r)
    OBVIOUS
  <2> HIDE DEF Agree
  <2>5. ASSUME NEW i \in Rows', NEW k \in Rows'
        PROVE  /\ KeyOf[builds'[i].request] = KeyOf[builds'[k].request] => i = k
               /\ Agree(builds'[i].request, builds'[k].request)
    BY <1>0, <2>2, <2>3, <2>4
  <2> USE DEF Agree
  <2> QED BY <2>5 DEF RowsAgree, SnapshotIn
<1> QED BY <1>1, <1>2

-----------------------------------------------------------------------------
(* The source.                                                                *)

\* The conjunct of InputIsPinned for one build.
RowIsPinned(i) ==
    /\ builds[i].input # None => builds[i].input = builds[i].commit
    /\ CommitOf[builds[i].request] # None => builds[i].commit = CommitOf[builds[i].request]

\* The steps of the attempts of a build keep its source: a token that is handed
\* out starts from the commit of the build, and only who holds the job and knows
\* no other commit may fix it.
LEMMA ExecutionKeepsSource ==
    ASSUME AcceptanceTypeOK, NEW i \in Rows, SourceIsHeld(i), RowIsPinned(i), Executes(i)
    PROVE  SourceIsHeld(i)' /\ RowIsPinned(i)'
<1> DEFINE Knows(n) == /\ source[i][n].pinned => source[i][n].sha # None
                                                 /\ source[i][n].sha = builds[i].commit
                       /\ builds[i].current = n => builds[i].commit \in {None, source[i][n].sha}
                       /\ n > builds[i].issued => source[i][n] = Unknown
<1>0. /\ i \in DOMAIN builds /\ i \in DOMAIN source /\ builds[i] \in Row /\ DOMAIN source[i] = Attempts
      /\ builds[i].issued \in Nat /\ builds[i].current \in Nat
      /\ \A n \in Attempts : n \in Nat /\ source[i][n] \in Knowledge
      /\ None \notin Heads
  <2>1. builds[i] \in Row /\ i \in DOMAIN builds /\ source[i] \in Sources /\ i \in DOMAIN source
    BY ElementOfSeq, LenProperties DEF AcceptanceTypeOK, Rows, Sources, Knowledge
  <2>2. builds[i].issued \in Nat /\ builds[i].current \in Nat /\ None \notin Heads
    BY <2>1, AcceptanceAssumption DEF Row, Commits
  <2> QED BY <2>1, <2>2, AcceptanceAssumption DEF Sources, Attempts
<1>1. /\ builds[i].body = builds[i].commit /\ builds[i].current <= builds[i].issued
      /\ \A n \in Attempts : Knows(n)
  BY DEF SourceIsHeld
<1>2. builds'[i].request = builds[i].request
  BY ExecutionKeepsRequests
<1>3. CASE ClaimBuild(i)
  <2> DEFINE k == builds[i].issued + 1
  <2>1. /\ builds'[i] = [builds[i] EXCEPT !.issued = k, !.current = k]
        /\ source'[i] = [source[i] EXCEPT ![k] = [source[i][k] EXCEPT !.sha = builds[i].body]]
        /\ builds[i].current = 0 /\ builds[i].issued < MaxAttempts
    BY <1>0, <1>3 DEF ClaimBuild
  <2>2. k \in Attempts
    BY <1>0, <2>1, AcceptanceAssumption DEF Attempts
  <2>3. /\ builds'[i].commit = builds[i].commit /\ builds'[i].body = builds[i].body
        /\ builds'[i].input = builds[i].input
        /\ builds'[i].issued = k /\ builds'[i].current = k
    BY <1>0, <2>1 DEF Row
  <2>4. source[i][k] = Unknown
    BY <1>0, <1>1, <2>2
  <2>5. source'[i][k].sha = builds[i].body /\ ~source'[i][k].pinned
    BY <1>0, <2>1, <2>2, <2>4 DEF Unknown
  <2>6. \A n \in Attempts : n # k => source'[i][n] = source[i][n]
    BY <1>0, <2>1
  <2>7. ASSUME NEW n \in Attempts PROVE Knows(n)'
    BY <1>0, <1>1, <2>2, <2>3, <2>5, <2>6
  <2> QED BY <1>0, <1>1, <1>2, <2>3, <2>7 DEF SourceIsHeld, RowIsPinned
<1>4. CASE LeaseLost(i)
  <2>1. /\ builds'[i].commit = builds[i].commit /\ builds'[i].body = builds[i].body
        /\ builds'[i].input = builds[i].input /\ source' = source
        /\ builds'[i].issued = builds[i].issued /\ builds'[i].current = 0
    BY <1>0, <1>4 DEF LeaseLost, Row
  <2>2. ASSUME NEW n \in Attempts PROVE Knows(n)'
    BY <1>0, <1>1, <2>1 DEF Attempts
  <2> QED BY <1>0, <1>1, <1>2, <2>1, <2>2 DEF SourceIsHeld, RowIsPinned
<1>5. ASSUME NEW k \in Attempts, NEW head \in Heads, ReadBranch(i, k, head)
      PROVE  SourceIsHeld(i)' /\ RowIsPinned(i)'
  <2>1. /\ builds' = builds /\ k <= builds[i].issued /\ source[i][k].sha = None
        /\ source'[i] = [source[i] EXCEPT ![k] = [source[i][k] EXCEPT !.sha = head]]
    BY <1>0, <1>5 DEF ReadBranch
  <2>2. source'[i][k].sha = head /\ source'[i][k].pinned = source[i][k].pinned
    BY <1>0, <2>1 DEF Knowledge
  <2>3. \A n \in Attempts : n # k => source'[i][n] = source[i][n]
    BY <1>0, <2>1
  <2>4. ~source[i][k].pinned /\ (builds[i].current = k => builds[i].commit = None)
    BY <1>1, <2>1
  <2>5. ASSUME NEW n \in Attempts PROVE Knows(n)'
    BY <1>0, <1>1, <2>1, <2>2, <2>3, <2>4
  <2> QED BY <1>1, <1>2, <2>1, <2>5 DEF SourceIsHeld, RowIsPinned
<1>6. ASSUME NEW k \in Attempts, PinSource(i, k)
      PROVE  SourceIsHeld(i)' /\ RowIsPinned(i)'
  <2>1. /\ k <= builds[i].issued /\ source[i][k].sha # None
        /\ builds[i].current = k /\ builds[i].commit \in {None, source[i][k].sha}
        /\ builds'[i] = [builds[i] EXCEPT !.commit = source[i][k].sha, !.body = source[i][k].sha]
        /\ source'[i] = [source[i] EXCEPT ![k] = [source[i][k] EXCEPT !.pinned = TRUE]]
    BY <1>0, <1>6 DEF PinSource, MayPin
  <2>2. /\ builds'[i].commit = source[i][k].sha /\ builds'[i].body = source[i][k].sha
        /\ builds'[i].input = builds[i].input
        /\ builds'[i].issued = builds[i].issued /\ builds'[i].current = builds[i].current
    BY <1>0, <2>1 DEF Row
  <2>3. source'[i][k].sha = source[i][k].sha
    BY <1>0, <2>1 DEF Knowledge
  <2>4. \A n \in Attempts : n # k => source'[i][n] = source[i][n]
    BY <1>0, <2>1
  <2>5. ASSUME NEW n \in Attempts PROVE Knows(n)'
    <3>1. CASE n = k
      BY <1>0, <2>1, <2>2, <2>3, <3>1
    <3>2. CASE n # k
      <4>1. Knows(n) /\ builds[i].current # n
        BY <1>1, <2>1, <3>2
      <4> QED BY <2>1, <2>2, <2>4, <3>2, <4>1
    <3> QED BY <3>1, <3>2
  <2>6. RowIsPinned(i)'
    BY <1>2, <2>1, <2>2 DEF RowIsPinned
  <2> QED BY <1>1, <2>2, <2>5, <2>6 DEF SourceIsHeld
<1>7. ASSUME NEW k \in Attempts, AttachSource(i, k)
      PROVE  SourceIsHeld(i)' /\ RowIsPinned(i)'
  <2>1. /\ source' = source /\ source[i][k].sha = builds[i].commit
        /\ builds'[i] = [builds[i] EXCEPT !.input = source[i][k].sha]
    BY <1>0, <1>1, <1>7 DEF AttachSource
  <2>2. /\ builds'[i].commit = builds[i].commit /\ builds'[i].body = builds[i].body
        /\ builds'[i].input = builds[i].commit
        /\ builds'[i].issued = builds[i].issued /\ builds'[i].current = builds[i].current
    BY <1>0, <2>1 DEF Row
  <2>3. ASSUME NEW n \in Attempts PROVE Knows(n)'
    BY <1>1, <2>1, <2>2
  <2> QED BY <1>1, <1>2, <2>2, <2>3 DEF SourceIsHeld, RowIsPinned
<1> QED BY <1>3, <1>4, <1>5, <1>6, <1>7 DEF Executes

\* So does every step, for every build.
LEMMA SourcesStep ==
    ASSUME AcceptanceTypeOK, AcceptanceIsSerial, InputIsPinned, SourcesAreHeld,
           [AcceptanceNext]_acceptanceVars
    PROVE  InputIsPinned' /\ SourcesAreHeld'
<1>0. \A i \in Rows : SourceIsHeld(i) /\ RowIsPinned(i)
  BY DEF SourcesAreHeld, InputIsPinned, RowIsPinned
<1> SUFFICES ASSUME NEW i \in Rows' PROVE SourceIsHeld(i)' /\ RowIsPinned(i)'
  BY DEF SourcesAreHeld, InputIsPinned, RowIsPinned
<1>1. ASSUME i \in Rows, builds'[i] = builds[i], source'[i] = source[i]
      PROVE  SourceIsHeld(i)' /\ RowIsPinned(i)'
  BY <1>0, <1>1 DEF SourceIsHeld, RowIsPinned
<1>2. ASSUME NEW c \in Calls, Insert(c) PROVE SourceIsHeld(i)' /\ RowIsPinned(i)'
  <2> DEFINE n == Len(builds) + 1
             r == call[c].request
  <2>1. /\ Len(builds) \in Nat /\ Len(builds') = n
        /\ \A k \in Rows : builds'[k] = builds[k] /\ source'[k] = source[k]
        /\ builds'[n] = [request |-> r, commit |-> CommitOf[r], body |-> CommitOf[r],
                         issued |-> 0, current |-> 0, input |-> None]
        /\ source'[n] = [k \in Attempts |-> Unknown]
    BY <1>2, InsertAddsRow
  <2>2. CASE i \in Rows
    BY <1>1, <2>1, <2>2
  <2>3. CASE i = n
    <3>1. SourceIsHeld(i)'
      <4>1. \A k \in Attempts : source'[i][k] = Unknown /\ k > 0
        BY <2>1, <2>3, AcceptanceAssumption DEF Attempts
      <4>2. /\ builds'[i].body = builds'[i].commit
            /\ builds'[i].issued = 0 /\ builds'[i].current = 0
        BY <2>1, <2>3
      <4>3. Unknown.pinned = FALSE
        BY DEF Unknown
      <4> QED BY <4>1, <4>2, <4>3 DEF SourceIsHeld
    <3>2. RowIsPinned(i)'
      BY <2>1, <2>3 DEF RowIsPinned
    <3> QED BY <3>1, <3>2
  <2> QED BY <2>1, <2>2, <2>3 DEF Rows
<1>3. ASSUME NEW k \in Rows, Executes(k) PROVE SourceIsHeld(i)' /\ RowIsPinned(i)'
  <2>1. Len(builds') = Len(builds) /\ \A j \in Rows : j # k => builds'[j] = builds[j] /\ source'[j] = source[j]
    BY <1>3, ExecutionKeepsRequests
  <2>2. i \in Rows
    BY <2>1 DEF Rows
  <2>3. CASE i = k
    BY <1>0, <1>3, <2>3, ExecutionKeepsSource
  <2> QED BY <1>1, <2>1, <2>2, <2>3
<1>4. CASE UNCHANGED <<builds, source>>
  BY <1>1, <1>4 DEF Rows
<1>5. ASSUME NEW c \in Calls, Asks(c) PROVE UNCHANGED <<builds, source>>
  BY <1>5 DEF Asks, Look, Check, Rollback, Answer
<1>6. ASSUME NEW filter \in Filters, List(filter) PROVE UNCHANGED <<builds, source>>
  BY <1>6 DEF List
<1>7. CASE UNCHANGED acceptanceVars
  BY <1>4, <1>7 DEF acceptanceVars
<1> QED BY <1>2, <1>3, <1>4, <1>5, <1>6, <1>7 DEF AcceptanceNext, Asks, Executes

-----------------------------------------------------------------------------
(* The listing.                                                               *)

\* Every page adds the rows down to its cursor, and rows that are accepted
\* meanwhile are above all of them.
LEMMA ListingStep ==
    ASSUME AcceptanceTypeOK, AcceptanceIsSerial, ListingIsWhole, [AcceptanceNext]_acceptanceVars
    PROVE  ListingIsWhole'
<1>0. /\ Len(builds) \in Nat /\ Len(builds') \in Nat /\ Len(builds) <= Len(builds')
      /\ Rows = 1..Len(builds) /\ \A i \in Rows : builds'[i].request = builds[i].request
      /\ pass.start \in Nat /\ pass.after \in Nat
  <2>1. pass.start \in Nat /\ pass.after \in Nat
    BY AcceptanceAssumption DEF AcceptanceTypeOK
  <2>2. Rows = 1..Len(builds) /\ Rows' = 1..Len(builds')
    BY DEF Rows
  <2> QED BY <2>1, <2>2, RowsGrow
<1>1. CASE UNCHANGED pass
  <2>1. \A i \in 1..pass.start : builds'[i].request = builds[i].request
    BY <1>0 DEF ListingIsWhole
  <2> QED BY <1>0, <1>1, <2>1 DEF ListingIsWhole
<1>2. ASSUME NEW filter \in Filters, List(filter) PROVE ListingIsWhole'
  <2> DEFINE from == IF pass.open THEN pass
                     ELSE [NoPass EXCEPT !.filter = filter, !.start = Len(builds)]
             next == NextCursor(filter, from.after)
             page == Newest(Matching(filter, from.after), Limit)
  <2>1. /\ UNCHANGED builds
        /\ pass' = [from EXCEPT !.rows = @ \cup page, !.after = next, !.open = next # 0]
    BY <1>2 DEF List
  <2>2. /\ from.filter = filter /\ from.start \in Nat /\ from.start <= Len(builds)
        /\ from.after \in Nat
        /\ \A i \in 1..from.start :
             builds[i].request \in filter /\ from.after # 0 /\ i >= from.after => i \in from.rows
        /\ DOMAIN from = {"filter", "after", "rows", "start", "open"}
    <3>1. CASE pass.open
      <4>1. from = pass /\ pass.filter = filter
        BY <1>2, <3>1 DEF List
      <4>2. DOMAIN pass = {"filter", "after", "rows", "start", "open"}
        BY DEF AcceptanceTypeOK
      <4>3. \A i \in 1..pass.start :
               builds[i].request \in pass.filter /\ i >= pass.after => i \in pass.rows
        BY DEF ListingIsWhole
      <4> QED BY <1>0, <4>1, <4>2, <4>3 DEF ListingIsWhole
    <3>2. CASE ~pass.open
      BY <1>0, <3>2 DEF NoPass
    <3> QED BY <3>1, <3>2
  <2>3. /\ next \in 0..MaxBuilds
        /\ {i \in Matching(filter, from.after) : i >= next} \subseteq page
    BY <2>2, PageReaches
  <2>4. /\ pass'.filter = filter /\ pass'.start = from.start /\ pass'.rows = from.rows \cup page
        /\ pass'.after = next /\ pass'.open = (next # 0)
    <3> HIDE DEF from, next, page
    <3> QED BY <2>1, <2>2
  <2> HIDE DEF from, next, page
  <2>5. ASSUME NEW i \in 1..from.start, builds[i].request \in filter, i >= next
        PROVE  i \in from.rows \cup page
    <3>1. i \in Rows
      BY <1>0, <2>2
    <3>2. CASE from.after # 0 /\ i >= from.after
      BY <2>2, <2>5, <3>2
    <3>3. CASE from.after = 0 \/ i < from.after
      BY <2>3, <2>5, <3>1, <3>3 DEF Matching
    <3> QED BY <2>2, <3>2, <3>3
  <2> QED BY <2>1, <2>2, <2>4, <2>5 DEF ListingIsWhole
<1>3. ASSUME NEW c \in Calls, Asks(c) \/ Insert(c) PROVE UNCHANGED pass
  BY <1>3 DEF Asks, Look, Check, Rollback, Answer, Insert
<1>4. ASSUME NEW i \in Rows, Executes(i) PROVE UNCHANGED pass
  BY <1>4, ExecutionKeepsRequests
<1>5. CASE UNCHANGED acceptanceVars
  BY <1>1, <1>5 DEF acceptanceVars
<1> QED BY <1>1, <1>2, <1>3, <1>4, <1>5 DEF AcceptanceNext, Asks, Executes

-----------------------------------------------------------------------------
(* The theorems of acceptance.                                                *)

\* The invariant: acceptance is serial, the accepted rows agree, every build is
\* made from the commit it is pinned to, and a listing misses nothing.
THEOREM AcceptanceInductiveHolds == AcceptanceSpec => []AcceptanceInductive
<1>1. AcceptanceInit => AcceptanceInductive
  <2> SUFFICES ASSUME AcceptanceInit PROVE AcceptanceInductive
    OBVIOUS
  <2>1. builds = <<>> /\ source = <<>> /\ Len(builds) = 0 /\ Rows = {}
    BY DEF AcceptanceInit, Rows
  <2>2. AcceptanceTypeOK
    <3>1. builds \in Seq(Row) /\ source \in [1..Len(builds) -> [Attempts -> [sha: Commits \cup {None}, pinned: BOOLEAN]]]
      BY <2>1
    <3> QED BY <2>1, <3>1, AcceptanceAssumption
         DEF AcceptanceInit, AcceptanceTypeOK, Idle, NoPass, Steps
  <2>3. AcceptanceIsSerial
    BY DEF AcceptanceInit, AcceptanceIsSerial, Idle, Pending
  <2>4. ListingIsWhole
    BY <2>1 DEF AcceptanceInit, ListingIsWhole, NoPass
  <2> QED BY <2>1, <2>2, <2>3, <2>4
       DEF AcceptanceInductive, RowsAgree, InputIsPinned, SourcesAreHeld
<1>2. AcceptanceInductive /\ [AcceptanceNext]_acceptanceVars => AcceptanceInductive'
  BY AcceptanceTypeStep, AcceptanceIsSerialStep, RowsAgreeStep, SourcesStep, ListingStep
  DEF AcceptanceInductive
<1> QED BY <1>1, <1>2, PTL DEF AcceptanceSpec

\* Types and bounds of the rows, the transactions and a listing.
THEOREM AcceptanceTypes == AcceptanceSpec => []AcceptanceTypeOK
BY AcceptanceInductiveHolds, PTL DEF AcceptanceInductive

\* A key has one build, a physical target one environment, and a configuration
\* version of an environment one snapshot, whoever accepts them in whatever order.
THEOREM AcceptedRowsAgree == AcceptanceSpec => []RowsAgree
BY AcceptanceInductiveHolds, PTL DEF AcceptanceInductive

\* The input of a build is the commit it is pinned to, and that is the one its
\* request names, if it names one.
THEOREM BuildsUseTheirCommit == AcceptanceSpec => []InputIsPinned
BY AcceptanceInductiveHolds, PTL DEF AcceptanceInductive

\* The attempt that holds the job is never refused for a commit another one has
\* pinned.
THEOREM RetriesKeepTheirCommit == AcceptanceSpec => []RetryKeepsCommit
<1>1. AcceptanceInductive => RetryKeepsCommit
  BY DEF AcceptanceInductive, SourcesAreHeld, SourceIsHeld, RetryKeepsCommit
<1> QED BY <1>1, AcceptanceInductiveHolds, PTL

\* A listing read to its end has every build of its filter that was there when
\* it began.
THEOREM ListingsAreWhole == AcceptanceSpec => []HistoryIsWhole
<1>1. AcceptanceInductive => HistoryIsWhole
  <2> SUFFICES ASSUME AcceptanceInductive, ~pass.open,
                      NEW i \in 1..pass.start, builds[i].request \in pass.filter
               PROVE  i \in pass.rows
    BY DEF HistoryIsWhole
  <2>1. pass.after = 0 /\ pass.start \in Nat
    BY AcceptanceAssumption DEF AcceptanceInductive, ListingIsWhole, AcceptanceTypeOK
  <2> QED BY <2>1 DEF AcceptanceInductive, ListingIsWhole
<1> QED BY <1>1, AcceptanceInductiveHolds, PTL

\* Who repeats an accepted request is answered with its build, by any instance.
THEOREM RepeatedRequestsAreAnswered == AcceptanceSpec => RetryIsAnswered
<1> DEFINE Truth == \A c \in Calls : TellsTheTruth(c)
<1>1. AcceptanceInductive /\ AcceptanceInductive' /\ [AcceptanceNext]_acceptanceVars => [Truth]_acceptanceVars
  <2> SUFFICES ASSUME AcceptanceInductive, AcceptanceInductive', AcceptanceNext, NEW c \in Calls
               PROVE  TellsTheTruth(c)
    OBVIOUS
  <2>0. AcceptanceTypeOK /\ AcceptanceIsSerial /\ AcceptanceIsSerial' /\ RowsAgree
        /\ DOMAIN call = Calls
    BY DEF AcceptanceInductive, AcceptanceTypeOK
  <2>1. call'[c].at = "ANSWERED" => builds'[call'[c].row].request = call'[c].request
    BY <2>0 DEF AcceptanceIsSerial
  <2>2. ASSUME call[c] = Idle, Accepted(call'[c].request) # {}
        PROVE  call'[c].at \in {"IDLE", "ANSWERED"}
    <3>1. CASE call'[c] = call[c]
      BY <2>2, <3>1 DEF Idle
    <3>2. ASSUME NEW i \in Instances, NEW r \in Requests, Look(c, i, r)
          PROVE  call'[c].at \in {"IDLE", "ANSWERED"}
      <4>1. call'[c].request = r
        BY <2>0, <3>2 DEF Look
      <4>2. PICK a \in Rows : builds[a].request = r
        BY <2>2, <4>1 DEF Accepted
      <4>3. \A p \in Prior(r) : p = a
        BY <2>0, <4>2 DEF Prior, RowsAgree
      <4>4. Prior(r) # {}
        BY <4>2 DEF Prior
      <4> QED BY <2>0, <3>2, <4>2, <4>3, <4>4 DEF Look
    <3>3. ASSUME NEW d \in Calls, Asks(d) \/ Insert(d) PROVE d # c => call'[c] = call[c]
      BY <2>0, <3>3 DEF Asks, Look, Check, Ends, Rollback, Answer, Insert
    <3>4. ~Check(c) /\ ~Insert(c) /\ ~Rollback(c) /\ ~Answer(c)
      BY <2>2 DEF Idle, Check, Insert, Rollback, Answer
    <3>5. ASSUME NEW i \in Rows, Executes(i) PROVE call'[c] = call[c]
      BY <2>0, <3>5, ExecutionKeepsRequests
    <3>6. ASSUME NEW filter \in Filters, List(filter) PROVE call'[c] = call[c]
      BY <3>6 DEF List
    <3> QED BY <3>1, <3>2, <3>3, <3>4, <3>5, <3>6 DEF AcceptanceNext, Asks, Executes
  <2> QED BY <2>1, <2>2 DEF TellsTheTruth
<1> QED BY <1>1, AcceptanceInductiveHolds, PTL DEF AcceptanceSpec, RetryIsAnswered

-----------------------------------------------------------------------------
(* Numbers, sets and sequences.                                               *)

\* Induction from 0 to a number.
LEMMA Forward ==
    ASSUME NEW n \in Nat, NEW S, 0 \in S, \A k \in 0..n : k \in S /\ k < n => k + 1 \in S
    PROVE  n \in S
<1> DEFINE T == (0..n) \ S
<1>1. SUFFICES ASSUME T # {} PROVE FALSE
  BY DEF T
<1>2. T \in SUBSET Nat
  OBVIOUS
<1>3. PICK k \in T : \A j \in T : k <= j
  <2> HIDE DEF T
  <2> QED BY <1>1, <1>2, Smallest
<1>4. k \in 0..n /\ k \notin S /\ k # 0
  BY <1>3 DEF T
<1>5. k - 1 \in S
  BY <1>3, <1>4 DEF T
<1>6. (k - 1) + 1 \in S
  BY <1>4, <1>5
<1> QED BY <1>4, <1>6

\* The largest of a set is in it.
LEMMA MaxIn ==
    ASSUME NEW n \in Nat, NEW S \in SUBSET (0..n), S # {}
    PROVE  Max(S) \in S
<1>1. PICK x \in S : \A y \in S : y <= x
  BY Largest
<1>2. \E z \in S : \A y \in S : z >= y
  BY <1>1
<1> QED BY <1>2 DEF Max

\* So is the smallest.
LEMMA MinIn ==
    ASSUME NEW S \in SUBSET Nat, S # {}
    PROVE  Min(S) \in S
<1>1. PICK x \in S : \A y \in S : x <= y
  BY Smallest
<1>2. \E z \in S : \A y \in S : z =< y
  BY <1>1
<1> QED BY <1>2 DEF Min

\* There are finitely many keys of finitely many values.
LEMMA FiniteFunctions ==
    ASSUME NEW V, IsFiniteSet(V), NEW n \in Nat
    PROVE  IsFiniteSet([1..n -> V])
<1> DEFINE Good == {k \in 0..n : IsFiniteSet([1..k -> V])}
<1>1. 0 \in Good
  <2> DEFINE e == [j \in 1..0 |-> CHOOSE v : TRUE]
  <2>1. ASSUME NEW f \in [1..0 -> V] PROVE f = e
    <3>1. DOMAIN f = 1..0 /\ \A j \in 1..0 : f[j] = e[j]
      OBVIOUS
    <3> QED BY <3>1
  <2>2. [1..0 -> V] \in SUBSET {e}
    BY <2>1
  <2>3. IsFiniteSet({e})
    BY FS_Singleton
  <2> HIDE DEF e
  <2>4. IsFiniteSet([1..0 -> V])
    BY <2>2, <2>3, FS_Subset
  <2> QED BY <2>4
<1>2. ASSUME NEW k \in 0..n, k \in Good, k < n PROVE k + 1 \in Good
  <2> DEFINE S == [1..k -> V] \X V
             T == [1..(k + 1) -> V]
             f == [p \in S |-> [j \in 1..(k + 1) |-> IF j = k + 1 THEN p[2] ELSE p[1][j]]]
  <2>1. IsFiniteSet(S)
    BY <1>2, FS_Product
  <2>2. \A p \in S : f[p] \in T
    BY <1>2
  <2>3. ASSUME NEW t \in T PROVE \E p \in S : f[p] = t
    <3> DEFINE g == [j \in 1..k |-> t[j]]
               p == <<g, t[k + 1]>>
    <3>1. g \in [1..k -> V] /\ t[k + 1] \in V
      BY <1>2
    <3>2. p \in S
      BY <3>1
    <3>3. \A j \in 1..(k + 1) : f[p][j] = t[j]
      BY <1>2, <3>2
    <3>4. f[p] \in T
      BY <2>2, <3>2
    <3> HIDE DEF p, f
    <3>5. f[p] = t
      BY <3>3, <3>4
    <3> QED BY <3>2, <3>5
  <2>4. f \in Surjection(S, T)
    <3>1. f \in [S -> T]
      BY <2>2
    <3> HIDE DEF f, S, T
    <3> QED BY <2>3, <3>1 DEF Surjection
  <2>5. IsFiniteSet(T)
    <3> HIDE DEF f, S, T
    <3> QED BY <2>1, <2>4, FS_Surjection
  <2> QED BY <1>2, <2>5
<1>3. n \in Good
  <2> HIDE DEF Good
  <2> QED BY <1>1, <1>2, Forward
<1> QED BY <1>3

\* What corresponds to a finite set one to one is as large.
LEMMA AsLarge ==
    ASSUME NEW S, IsFiniteSet(S), NEW T, NEW f \in [S -> T],
           \A a, b \in S : f[a] = f[b] => a = b, \A t \in T : \E s \in S : f[s] = t
    PROVE  IsFiniteSet(T) /\ Cardinality(T) = Cardinality(S)
<1>1. f \in Bijection(S, T)
  BY DEF Bijection, Injection, Surjection, IsInjective
<1>2. ExistsBijection(S, T)
  BY <1>1 DEF ExistsBijection
<1> QED BY <1>2, FS_Bijection

\* What f[i] is, step by step from f[0].
Iterates(X, base, n, step, f) ==
    /\ f \in [0..n -> X]
    /\ f[0] = base
    /\ \A i \in 1..n : f[i] = step[<<f[i - 1], i>>]

\* A function that is defined step by step from its value at 0 exists.
LEMMA Recursion ==
    ASSUME NEW X, NEW base \in X, NEW n \in Nat, NEW step \in [X \X (1..n) -> X]
    PROVE  \E f : Iterates(X, base, n, step, f)
<1> DEFINE Upto(k) == {f \in [0..k -> X] : f[0] = base /\ \A i \in 1..k : f[i] = step[<<f[i - 1], i>>]}
           Good == {k \in 0..n : Upto(k) # {}}
<1>1. 0 \in Good
  <2> DEFINE f == [i \in 0..0 |-> base]
  <2>1. f \in Upto(0)
    OBVIOUS
  <2> QED BY <2>1
<1>2. ASSUME NEW k \in 0..n, k \in Good, k < n PROVE k + 1 \in Good
  <2>1. PICK f \in Upto(k) : TRUE
    BY <1>2
  <2>2. PICK p : p = k + 1
    OBVIOUS
  <2>3. p \in 1..n /\ k \in 0..k /\ p \notin 0..k /\ 0..p = (0..k) \cup {p} /\ 1..p = (1..k) \cup {p} /\ p - 1 = k
    BY <1>2, <2>2
  <2>4. PICK x \in X : x = step[<<f[k], p>>]
    BY <2>1, <2>3
  <2> DEFINE g == [i \in 0..p |-> IF i = p THEN x ELSE f[i]]
  <2>5. g \in [0..p -> X] /\ g[p] = x /\ \A i \in 0..k : g[i] = f[i]
    BY <2>1, <2>3
  <2> HIDE DEF g
  <2>6. g[0] = base
    BY <1>2, <2>1, <2>5
  <2>7. \A i \in 1..k : g[i] = step[<<g[i - 1], i>>]
    BY <1>2, <2>1, <2>5
  <2>8. g[p] = step[<<g[p - 1], p>>]
    BY <2>3, <2>4, <2>5
  <2>9. g \in Upto(p)
    BY <2>3, <2>5, <2>6, <2>7, <2>8
  <2> QED BY <1>2, <2>2, <2>3, <2>9
<1>3. n \in Good
  <2> HIDE DEF Good
  <2> QED BY <1>1, <1>2, Forward
<1> QED BY <1>3 DEF Iterates

\* A sequence of sequences and what it is when they are put one after the other.
Flattens(X, seqs, f) ==
    /\ f[0] = <<>>
    /\ \A i \in 1..Len(seqs) : f[i] = f[i - 1] \o seqs[i]
    /\ f \in [0..Len(seqs) -> Seq(X)]
    /\ FlattenSeq(seqs) = f[Len(seqs)]

\* FlattenSeq goes through them in their order.
LEMMA FlattenUnfolds ==
    ASSUME NEW X, NEW seqs \in Seq(Seq(X))
    PROVE  \E f : Flattens(X, seqs, f)
<1> DEFINE n == Len(seqs)
           step == [p \in Seq(X) \X (1..n) |-> p[1] \o seqs[p[2]]]
<1>1. n \in Nat /\ \A i \in 1..n : seqs[i] \in Seq(X)
  OBVIOUS
<1>2. step \in [Seq(X) \X (1..n) -> Seq(X)]
  BY <1>1
<1>3. \A s \in Seq(X), i \in 1..n : step[<<s, i>>] = s \o seqs[i]
  OBVIOUS
<1>4. <<>> \in Seq(X)
  OBVIOUS
<1> HIDE DEF step
<1>10. PICK f : Iterates(Seq(X), <<>>, n, step, f)
  <2> HIDE DEF n
  <2> QED BY <1>1, <1>2, <1>4, Recursion
<1>5. f \in [0..n -> Seq(X)] /\ f[0] = <<>> /\ \A i \in 1..n : f[i] = step[<<f[i - 1], i>>]
  BY <1>10 DEF Iterates
<1>6. \A i \in 1..n : f[i - 1] \in Seq(X) /\ f[i] = f[i - 1] \o seqs[i]
  <2>1. \A i \in 1..n : i - 1 \in 0..n
    BY <1>1
  <2> QED BY <1>3, <1>5, <2>1
<1>7. FlattenSeq(seqs) = f[n]
  <2>1. CASE n = 0
    <3>1. seqs = <<>>
      BY <2>1, EmptySeq
    <3>2. FlattenSeq(seqs) = seqs
      BY <2>1 DEF FlattenSeq
    <3> QED BY <1>5, <2>1, <3>1, <3>2
  <2>2. CASE n # 0
    <3> DEFINE Solves(g, m) == g = [i \in 1..m |-> IF i = 1 THEN seqs[i] ELSE g[i - 1] \o seqs[i]]
               flat == [i \in 1..n |-> f[i]]
               flatten == CHOOSE g : Solves(g, n)
    <3>1. flat[1] = seqs[1]
      <4>3. 1 \in 1..n /\ 1 - 1 = 0
        BY <1>1, <2>2
      <4>1. 1 \in 1..n /\ f[1] = f[0] \o seqs[1]
        BY <1>6, <4>3
      <4>2. <<>> \o seqs[1] = seqs[1]
        BY <1>1, <4>1
      <4> QED BY <1>5, <4>1, <4>2
    <3>2. \A i \in 1..n : i # 1 => flat[i] = flat[i - 1] \o seqs[i]
      <4>1. \A i \in 1..n : i # 1 => i - 1 \in 1..n
        BY <1>1
      <4> QED BY <1>6, <4>1
    <3>3. Solves(flat, n)
      <4> DEFINE h == [i \in 1..n |-> IF i = 1 THEN seqs[i] ELSE flat[i - 1] \o seqs[i]]
      <4>1. flat = [i \in 1..n |-> flat[i]]
        OBVIOUS
      <4> HIDE DEF flat
      <4>2. \A i \in 1..n : flat[i] = h[i]
        BY <3>1, <3>2
      <4>3. flat = h
        BY <4>1, <4>2
      <4> QED BY <4>3
    <3>4. Solves(flatten, n)
      <4> HIDE DEF Solves, flat
      <4> QED BY <3>3, Zenon
    <3>5. FlattenSeq(seqs) = flatten[n]
      BY <2>2, Zenon DEF FlattenSeq
    <3> HIDE DEF flatten
    <3>6. flatten[1] = seqs[1] /\ \A i \in 1..n : i # 1 => flatten[i] = flatten[i - 1] \o seqs[i]
      <4> DEFINE h == [i \in 1..n |-> IF i = 1 THEN seqs[i] ELSE flatten[i - 1] \o seqs[i]]
      <4>1. flatten = h
        BY <3>4
      <4>2. \A i \in 1..n : h[i] = IF i = 1 THEN seqs[i] ELSE flatten[i - 1] \o seqs[i]
        OBVIOUS
      <4> HIDE DEF h
      <4>3. 1 \in 1..n
        BY <1>1, <2>2
      <4> QED BY <4>1, <4>2, <4>3, Zenon
    <3> DEFINE Good == {i \in 0..n : i # 0 => flatten[i] = f[i]}
    <3>7. 0 \in Good
      BY <1>1
    <3>8. ASSUME NEW k \in 0..n, k \in Good, k < n PROVE k + 1 \in Good
      <4>1. PICK p : p = k + 1
        OBVIOUS
      <4>2. p \in 1..n /\ p \in 0..n /\ p - 1 = k
        BY <1>1, <3>8, <4>1
      <4>3. CASE k = 0
        <5>1. p = 1
          BY <4>1, <4>3
        <5>2. f[1] = seqs[1]
          BY <3>1, <4>2, <5>1
        <5> QED BY <3>6, <4>1, <4>2, <5>1, <5>2
      <4>4. CASE k # 0
        <5>1. p # 1 /\ flatten[k] = f[k]
          BY <3>8, <4>1, <4>2, <4>4
        <5>2. flatten[p] = flatten[p - 1] \o seqs[p] /\ f[p] = f[p - 1] \o seqs[p]
          BY <1>6, <3>6, <4>2, <5>1
        <5>3. flatten[p] = f[p]
          BY <4>2, <5>1, <5>2
        <5> QED BY <4>1, <4>2, <5>3
      <4> QED BY <4>3, <4>4
    <3>9. n \in Good
      <4> HIDE DEF Good, n
      <4> QED BY <1>1, <3>7, <3>8, Forward
    <3> QED BY <2>2, <3>5, <3>9
  <2> QED BY <2>1, <2>2
<1> QED BY <1>5, <1>6, <1>7 DEF Flattens

\* What one sequence after another has, and when it has nothing twice.
LEMMA ConcatIs ==
    ASSUME NEW X, NEW s \in Seq(X), NEW t \in Seq(X)
    PROVE  /\ ToSet(s \o t) = ToSet(s) \cup ToSet(t)
           /\ IsInjective(s) /\ IsInjective(t) /\ ToSet(s) \cap ToSet(t) = {} => IsInjective(s \o t)
<1> DEFINE a == Len(s)
           b == Len(t)
           u == s \o t
<1>1. /\ a \in Nat /\ b \in Nat /\ DOMAIN s = 1..a /\ DOMAIN t = 1..b /\ DOMAIN u = 1..(a + b)
      /\ \A i \in 1..(a + b) : u[i] = IF i <= a THEN s[i] ELSE t[i - a]
  OBVIOUS
<1> HIDE DEF a, b, u
<1>2. ASSUME NEW i \in 1..(a + b) PROVE u[i] \in ToSet(s) \cup ToSet(t)
  <2>1. CASE i <= a
    <3>1. i \in 1..a
      BY <1>1, <2>1
    <3> QED BY <1>1, <2>1, <3>1 DEF ToSet
  <2>2. CASE ~(i <= a)
    <3>1. i - a \in 1..b
      BY <1>1, <2>2
    <3> QED BY <1>1, <2>2, <3>1 DEF ToSet
  <2> QED BY <2>1, <2>2
<1>3. ASSUME NEW i \in 1..a PROVE s[i] \in ToSet(u)
  <2>1. i \in 1..(a + b) /\ i <= a
    BY <1>1
  <2> QED BY <1>1, <2>1 DEF ToSet
<1>4. ASSUME NEW i \in 1..b PROVE t[i] \in ToSet(u)
  <2>1. PICK p : p = i + a
    OBVIOUS
  <2>2. p \in 1..(a + b) /\ ~(p <= a) /\ p - a = i
    BY <1>1, <2>1
  <2>3. u[p] = t[i]
    BY <1>1, <2>2
  <2> QED BY <1>1, <2>2, <2>3 DEF ToSet
<1>5. ToSet(u) = ToSet(s) \cup ToSet(t)
  <2>1. ToSet(u) = {u[i] : i \in 1..(a + b)} /\ ToSet(s) = {s[i] : i \in 1..a} /\ ToSet(t) = {t[i] : i \in 1..b}
    BY <1>1 DEF ToSet
  <2> QED BY <1>2, <1>3, <1>4, <2>1
<1>6. ASSUME IsInjective(s), IsInjective(t), ToSet(s) \cap ToSet(t) = {} PROVE IsInjective(u)
  <2> SUFFICES ASSUME NEW i \in 1..(a + b), NEW j \in 1..(a + b), u[i] = u[j] PROVE i = j
    BY <1>1 DEF IsInjective
  <2>1. ASSUME NEW k \in 1..(a + b)
        PROVE  \/ k <= a /\ k \in DOMAIN s /\ u[k] = s[k] /\ u[k] \in ToSet(s)
               \/ ~(k <= a) /\ k - a \in DOMAIN t /\ u[k] = t[k - a] /\ u[k] \in ToSet(t)
    <3>1. CASE k <= a
      BY <1>1, <3>1 DEF ToSet
    <3>2. CASE ~(k <= a)
      <4>1. k - a \in 1..b
        BY <1>1, <3>2
      <4> QED BY <1>1, <3>2, <4>1 DEF ToSet
    <3> QED BY <3>1, <3>2
  <2>2. CASE i <= a /\ j <= a
    BY <1>6, <2>1, <2>2 DEF IsInjective
  <2>3. CASE ~(i <= a) /\ ~(j <= a)
    <3>1. i - a \in DOMAIN t /\ j - a \in DOMAIN t /\ t[i - a] = t[j - a]
      BY <2>1, <2>3
    <3>2. i - a = j - a
      BY <1>6, <3>1 DEF IsInjective
    <3> QED BY <1>1, <3>2
  <2> QED BY <1>6, <2>1, <2>2, <2>3
<1> QED BY <1>5, <1>6 DEF u

\* It is a sequence of all their elements.
LEMMA FlattenIs ==
    ASSUME NEW X, NEW seqs \in Seq(Seq(X))
    PROVE  /\ FlattenSeq(seqs) \in Seq(X)
           /\ ToSet(FlattenSeq(seqs)) = UNION {ToSet(s) : s \in ToSet(seqs)}
<1>0. Len(seqs) \in Nat /\ DOMAIN seqs = 1..Len(seqs)
  OBVIOUS
<1>1. PICK f : Flattens(X, seqs, f)
  BY FlattenUnfolds
<1> DEFINE n == Len(seqs)
           Good == {k \in 0..n : ToSet(f[k]) = UNION {ToSet(seqs[i]) : i \in 1..k}}
<1>2. f[0] = <<>> /\ FlattenSeq(seqs) = f[n] /\ \A i \in 0..n : f[i] \in Seq(X)
  BY <1>1 DEF Flattens
<1>3. 0 \in Good
  BY <1>0, <1>2 DEF ToSet
<1>4. ASSUME NEW k \in 0..n, k \in Good, k < n PROVE k + 1 \in Good
  <2>1. PICK p : p = k + 1
    OBVIOUS
  <2>2. p \in 1..n /\ p \in 0..n /\ p - 1 = k /\ 1..p = (1..k) \cup {p}
    BY <1>0, <2>1, <1>4
  <2>3. f[p] = f[k] \o seqs[p]
    BY <1>1, <2>2 DEF Flattens
  <2>4. ToSet(f[p]) = ToSet(f[k]) \cup ToSet(seqs[p])
    <3>1. f[k] \in Seq(X) /\ seqs[p] \in Seq(X)
      BY <1>0, <1>2, <2>2
    <3> QED BY <2>3, <3>1, ConcatIs
  <2> QED BY <1>4, <2>1, <2>2, <2>4, ZenonT(40)
<1>5. n \in Good
  <2> HIDE DEF Good
  <2> QED BY <1>0, <1>3, <1>4, Forward
<1>6. ToSet(seqs) = {seqs[i] : i \in 1..n}
  BY <1>0 DEF ToSet
<1> QED BY <1>0, <1>2, <1>5, <1>6

\* If they have nothing in common and nothing twice, it has nothing twice.
LEMMA FlattenInjective ==
    ASSUME NEW X, NEW seqs \in Seq(Seq(X)), \A i \in DOMAIN seqs : IsInjective(seqs[i]),
           \A i, j \in DOMAIN seqs : i # j => ToSet(seqs[i]) \cap ToSet(seqs[j]) = {}
    PROVE  IsInjective(FlattenSeq(seqs))
<1>0. Len(seqs) \in Nat /\ DOMAIN seqs = 1..Len(seqs)
  OBVIOUS
<1>1. PICK f : Flattens(X, seqs, f)
  BY FlattenUnfolds
<1> DEFINE n == Len(seqs)
           Good == {k \in 0..n : IsInjective(f[k]) /\ ToSet(f[k]) = UNION {ToSet(seqs[i]) : i \in 1..k}}
<1>2. f[0] = <<>> /\ FlattenSeq(seqs) = f[n] /\ \A i \in 0..n : f[i] \in Seq(X)
  BY <1>1 DEF Flattens
<1>3. 0 \in Good
  BY <1>0, <1>2 DEF ToSet, IsInjective
<1>4. ASSUME NEW k \in 0..n, k \in Good, k < n PROVE k + 1 \in Good
  <2>1. PICK p : p = k + 1
    OBVIOUS
  <2>2. p \in 1..n /\ p \in 0..n /\ p - 1 = k /\ 1..p = (1..k) \cup {p} /\ p \notin 1..k /\ 1..k \subseteq 1..n
    BY <1>0, <2>1, <1>4
  <2>3. f[p] = f[k] \o seqs[p]
    BY <1>1, <2>2 DEF Flattens
  <2>4. \A i \in 1..k : ToSet(seqs[i]) \cap ToSet(seqs[p]) = {}
    BY <1>0, <2>2
  <2>5. ToSet(f[k]) \cap ToSet(seqs[p]) = {}
    BY <1>4, <2>4
  <2>6. IsInjective(f[k]) /\ IsInjective(seqs[p])
    BY <1>0, <1>4, <2>2
  <2>7. IsInjective(f[p]) /\ ToSet(f[p]) = ToSet(f[k]) \cup ToSet(seqs[p])
    <3>1. f[k] \in Seq(X) /\ seqs[p] \in Seq(X)
      BY <1>0, <1>2, <2>2
    <3>2. IsInjective(f[k] \o seqs[p])
      BY <2>5, <2>6, <3>1, ConcatIs
    <3>3. ToSet(f[k] \o seqs[p]) = ToSet(f[k]) \cup ToSet(seqs[p])
      BY <3>1, ConcatIs
    <3> QED BY <2>3, <3>2, <3>3
  <2>8. ToSet(f[k]) = UNION {ToSet(seqs[i]) : i \in 1..k}
    BY <1>4
  <2>9. ToSet(f[p]) = UNION {ToSet(seqs[i]) : i \in 1..p}
    BY <2>2, <2>7, <2>8
  <2> QED BY <2>1, <2>2, <2>7, <2>9
<1>5. n \in Good
  <2> HIDE DEF Good
  <2> QED BY <1>0, <1>3, <1>4, Forward
<1> QED BY <1>2, <1>5

\* What a sequence has with one more element, and when it has nothing twice.
LEMMA AppendIs ==
    ASSUME NEW X, NEW s \in Seq(X), NEW x \in X
    PROVE  /\ ToSet(Append(s, x)) = ToSet(s) \cup {x}
           /\ IsInjective(s) /\ x \notin ToSet(s) => IsInjective(Append(s, x))
<1> DEFINE a == Len(s)
           u == Append(s, x)
<1>1. /\ a \in Nat /\ DOMAIN s = 1..a /\ DOMAIN u = 1..(a + 1)
      /\ \A i \in 1..a : u[i] = s[i]
  OBVIOUS
<1>0. u[a + 1] = x
  OBVIOUS
<1> HIDE DEF u, a
<1>2. PICK p : p = a + 1
  OBVIOUS
<1>3. DOMAIN u = (1..a) \cup {p} /\ p \notin 1..a /\ u[p] = x
  BY <1>0, <1>1, <1>2
<1>4. ToSet(u) = ToSet(s) \cup {x}
  BY <1>1, <1>3 DEF ToSet
<1>5. ASSUME IsInjective(s), x \notin ToSet(s) PROVE IsInjective(u)
  <2>1. \A i \in 1..a : s[i] # x
    BY <1>1, <1>5 DEF ToSet
  <2> QED BY <1>1, <1>3, <1>5, <2>1 DEF IsInjective
<1> QED BY <1>4, <1>5 DEF u

\* A sequence has its first element.
LEMMA FirstIn ==
    ASSUME NEW X, NEW s \in Seq(X), s # <<>> PROVE s[1] \in ToSet(s)
<1>1. Len(s) \in Nat /\ Len(s) # 0 /\ DOMAIN s = 1..Len(s)
  BY EmptySeq
<1>2. 1 \in DOMAIN s
  BY <1>1
<1> QED BY <1>2 DEF ToSet

-----------------------------------------------------------------------------
(* The request.                                                               *)

\* normalize_query keeps the metrics that were asked for, each once.
Names(metrics, f) ==
    /\ f[0] = <<>>
    /\ \A i \in 1..Len(MetricOrder) :
         f[i] = IF MetricOrder[i] \in ToSet(metrics) THEN Append(f[i - 1], MetricOrder[i]) ELSE f[i - 1]
    /\ Normalized(metrics) = f[Len(MetricOrder)]

\* It goes through all metrics in the order of their names.
LEMMA NormalizedUnfolds == ASSUME NEW metrics PROVE \E f : Names(metrics, f)
<1> DEFINE n == Len(MetricOrder)
           X == Seq(Metrics)
           step == [p \in X \X (1..n) |-> IF MetricOrder[p[2]] \in ToSet(metrics)
                                          THEN Append(p[1], MetricOrder[p[2]]) ELSE p[1]]
           Solves(g, m) == g = [i \in 0..m |->
               IF i = 0 THEN <<>>
               ELSE IF MetricOrder[i] \in ToSet(metrics) THEN Append(g[i - 1], MetricOrder[i])
               ELSE g[i - 1]]
           named == CHOOSE g : Solves(g, n)
<1>1. n \in Nat /\ \A i \in 1..n : MetricOrder[i] \in Metrics
  BY MetricAssumption
<1>2. step \in [X \X (1..n) -> X]
  BY <1>1
<1>3. \A s \in X, i \in 1..n : step[<<s, i>>] = IF MetricOrder[i] \in ToSet(metrics)
                                                THEN Append(s, MetricOrder[i]) ELSE s
  OBVIOUS
<1>4. <<>> \in X
  OBVIOUS
<1>5. PICK f : Iterates(X, <<>>, n, step, f)
  <2> HIDE DEF step, n, X
  <2> QED BY <1>1, <1>2, <1>4, Recursion
<1>6. f \in [0..n -> X] /\ f[0] = <<>>
  BY <1>5 DEF Iterates
<1>7. \A i \in 1..n : f[i] = IF MetricOrder[i] \in ToSet(metrics)
                             THEN Append(f[i - 1], MetricOrder[i]) ELSE f[i - 1]
  <2>1. \A i \in 1..n : i - 1 \in 0..n
    BY <1>1
  <2> HIDE DEF step, n, X
  <2> QED BY <1>3, <1>5, <1>6, <2>1 DEF Iterates
<1> HIDE DEF step, X
<1>8. Solves(f, n)
  <2> DEFINE h == [i \in 0..n |-> IF i = 0 THEN <<>>
                                  ELSE IF MetricOrder[i] \in ToSet(metrics) THEN Append(f[i - 1], MetricOrder[i])
                                  ELSE f[i - 1]]
  <2>1. f = [i \in 0..n |-> f[i]]
    BY <1>6
  <2>3. \A i \in 0..n : i # 0 => i \in 1..n
    BY <1>1
  <2>2. \A i \in 0..n : f[i] = h[i]
    <3>1. \A i \in 0..n : h[i] = IF i = 0 THEN <<>>
                                  ELSE IF MetricOrder[i] \in ToSet(metrics) THEN Append(f[i - 1], MetricOrder[i])
                                  ELSE f[i - 1]
      OBVIOUS
    <3> HIDE DEF h, n
    <3> QED BY <1>6, <1>7, <2>3, <3>1, Zenon
  <2> QED BY <2>1, <2>2
<1>9. Solves(named, n)
  <2> HIDE DEF Solves
  <2> QED BY <1>8, Zenon
<1>10. Normalized(metrics) = named[n]
  BY Zenon DEF Normalized
<1> HIDE DEF named
<1>11. /\ named[0] = <<>>
       /\ \A i \in 1..n : named[i] = IF MetricOrder[i] \in ToSet(metrics)
                                     THEN Append(named[i - 1], MetricOrder[i]) ELSE named[i - 1]
  <2> DEFINE h == [i \in 0..n |-> IF i = 0 THEN <<>>
                                  ELSE IF MetricOrder[i] \in ToSet(metrics) THEN Append(named[i - 1], MetricOrder[i])
                                  ELSE named[i - 1]]
  <2>1. named = h
    BY <1>9
  <2>2. \A i \in 0..n : h[i] = IF i = 0 THEN <<>>
                               ELSE IF MetricOrder[i] \in ToSet(metrics) THEN Append(named[i - 1], MetricOrder[i])
                               ELSE named[i - 1]
    OBVIOUS
  <2> HIDE DEF h
  <2>3. 0 \in 0..n /\ \A i \in 1..n : i \in 0..n /\ i # 0
    BY <1>1
  <2> QED BY <2>1, <2>2, <2>3, Zenon
<1> QED BY <1>10, <1>11 DEF Names

\* What it keeps is in that order, and each metric is there once.
LEMMA NormalizedIs ==
    ASSUME NEW metrics
    PROVE  /\ Normalized(metrics) \in Seq(Metrics)
           /\ IsInjective(Normalized(metrics))
<1> DEFINE n == Len(MetricOrder)
<1>1. PICK f : Names(metrics, f)
  BY NormalizedUnfolds
<1>0. /\ n \in Nat /\ \A i \in 1..n : MetricOrder[i] \in Metrics
      /\ \A i, j \in 1..n : MetricOrder[i] = MetricOrder[j] => i = j
  BY MetricAssumption DEF IsInjective
<1> DEFINE Good == {k \in 0..n : /\ f[k] \in Seq(Metrics) /\ IsInjective(f[k])
                                 /\ ToSet(f[k]) \subseteq {MetricOrder[i] : i \in 1..k}}
<1>2. 0 \in Good
  <2>1. f[0] = <<>>
    BY <1>1 DEF Names
  <2>2. IsInjective(<<>>) /\ ToSet(<<>>) = {} /\ <<>> \in Seq(Metrics)
    BY DEF IsInjective, ToSet
  <2>3. f[0] \in Seq(Metrics) /\ IsInjective(f[0]) /\ ToSet(f[0]) = {}
    BY <2>1, <2>2
  <2>4. 0 \in 0..n
    BY <1>0
  <2> QED BY <2>3, <2>4
<1>3. ASSUME NEW k \in 0..n, k \in Good, k < n PROVE k + 1 \in Good
  <2>1. PICK p : p = k + 1
    OBVIOUS
  <2>2. p \in 1..n /\ p \in 0..n /\ p - 1 = k /\ 1..p = (1..k) \cup {p} /\ p \notin 1..k /\ 1..k \subseteq 1..n
    BY <1>0, <2>1, <1>3
  <2>3. f[p] \in {f[k], Append(f[k], MetricOrder[p])}
    BY <1>1, <2>2 DEF Names
  <2>4. MetricOrder[p] \notin {MetricOrder[i] : i \in 1..k} /\ MetricOrder[p] \in Metrics
    BY <1>0, <2>2
  <2>5. f[k] \in Seq(Metrics) /\ IsInjective(f[k]) /\ ToSet(f[k]) \subseteq {MetricOrder[i] : i \in 1..k}
    BY <1>3
  <2>6. /\ ToSet(Append(f[k], MetricOrder[p])) = ToSet(f[k]) \cup {MetricOrder[p]}
        /\ IsInjective(f[k]) /\ MetricOrder[p] \notin ToSet(f[k]) => IsInjective(Append(f[k], MetricOrder[p]))
    BY <2>4, <2>5, AppendIs
  <2>9. MetricOrder[p] \notin ToSet(f[k]) /\ Append(f[k], MetricOrder[p]) \in Seq(Metrics)
    BY <2>4, <2>5
  <2>7. f[p] \in Seq(Metrics) /\ IsInjective(f[p])
    BY <2>3, <2>5, <2>6, <2>9, Zenon
  <2>8. ToSet(f[p]) \subseteq {MetricOrder[i] : i \in 1..p}
    BY <2>2, <2>3, <2>5, <2>6
  <2> QED BY <2>1, <2>2, <2>7, <2>8
<1>4. n \in Good
  <2> HIDE DEF Good
  <2> QED BY <1>0, <1>2, <1>3, Forward
<1> QED BY <1>1, <1>4 DEF Names

-----------------------------------------------------------------------------
(* Groups of metrics.                                                         *)

\* A metric is added to one of the groups it fits, or in a group of its own.
Adds(gs, m, fits, new) ==
    /\ new \in Seq(Seq(Metrics))
    /\ \/ /\ fits = {} /\ DOMAIN new = 1..(Len(gs) + 1) /\ new[Len(gs) + 1] = <<m>>
          /\ \A j \in 1..Len(gs) : new[j] = gs[j]
       \/ \E i \in fits : /\ DOMAIN new = 1..Len(gs) /\ new[i] = Append(gs[i], m)
                          /\ \A j \in 1..Len(gs) : j # i => new[j] = gs[j]

\* So a metric is placed.
LEMMA PlacedIs ==
    ASSUME NEW gs \in Seq(Seq(Metrics)), NEW m \in Metrics, NEW fits \in SUBSET (1..Len(gs))
    PROVE  Adds(gs, m, fits, Placed(gs, m, fits))
<1>0. Len(gs) \in Nat /\ DOMAIN gs = 1..Len(gs)
  OBVIOUS
<1>1. CASE fits = {}
  <2>1. <<m>> \in Seq(Metrics)
    OBVIOUS
  <2>2. Placed(gs, m, fits) = Append(gs, <<m>>)
    BY <1>1 DEF Placed
  <2>3. PICK g \in Seq(Metrics) : g = <<m>>
    BY <2>1
  <2>4. PICK new : new = Append(gs, g)
    OBVIOUS
  <2>5. new \in Seq(Seq(Metrics)) /\ DOMAIN new = 1..(Len(gs) + 1) /\ new[Len(gs) + 1] = g
        /\ \A j \in 1..Len(gs) : new[j] = gs[j]
    BY <1>0, <2>4, AppendProperties
  <2> QED BY <1>1, <2>2, <2>3, <2>4, <2>5 DEF Adds
<1>2. CASE fits # {}
  <2> DEFINE i == Min(fits)
  <2>1. i \in fits
    <3>1. fits \in SUBSET Nat
      BY <1>0
    <3> QED BY <1>2, <3>1, MinIn
  <2>2. Placed(gs, m, fits) = [gs EXCEPT ![i] = Append(gs[i], m)]
    BY <1>2 DEF Placed
  <2> HIDE DEF i
  <2>3. i \in 1..Len(gs) /\ Append(gs[i], m) \in Seq(Metrics)
    BY <1>0, <2>1
  <2>4. PICK g \in Seq(Metrics) : g = Append(gs[i], m)
    BY <2>3
  <2>5. [gs EXCEPT ![i] = g] \in Seq(Seq(Metrics)) /\ Len([gs EXCEPT ![i] = g]) = Len(gs)
        /\ \A j \in 1..Len(gs) : [gs EXCEPT ![i] = g][j] = IF j = i THEN g ELSE gs[j]
    BY <2>3, ExceptSeq
  <2>6. PICK new : new = Placed(gs, m, fits)
    OBVIOUS
  <2>7. new \in Seq(Seq(Metrics)) /\ Len(new) = Len(gs) /\ \A j \in 1..Len(gs) : new[j] = IF j = i THEN g ELSE gs[j]
    BY <2>2, <2>4, <2>5, <2>6
  <2>8. DOMAIN new = 1..Len(gs) /\ new[i] = g /\ \A j \in 1..Len(gs) : j # i => new[j] = gs[j]
    <3>1. DOMAIN new = 1..Len(new)
      BY <2>7
    <3> QED BY <2>3, <2>7, <3>1
  <2> QED BY <2>1, <2>4, <2>6, <2>7, <2>8 DEF Adds
<1> QED BY <1>1, <1>2

\* Groups of the metrics S: none is empty, and no metric is in two of them or
\* twice in one.
Apart(gs, S) ==
    /\ gs \in Seq(Seq(Metrics))
    /\ \A i \in 1..Len(gs) : gs[i] # <<>> /\ IsInjective(gs[i])
    /\ \A i, j \in 1..Len(gs) : i # j => ToSet(gs[i]) \cap ToSet(gs[j]) = {}
    /\ S = UNION {ToSet(gs[i]) : i \in 1..Len(gs)}

\* A new metric leaves the groups apart.
LEMMA PlacedApart ==
    ASSUME NEW gs, NEW S, Apart(gs, S), NEW m \in Metrics \ S, NEW fits, NEW new, Adds(gs, m, fits, new),
           fits \subseteq 1..Len(gs)
    PROVE  Apart(new, S \cup {m})
<1>0. Len(gs) \in Nat /\ Len(new) \in Nat /\ DOMAIN new = 1..Len(new) /\ new \in Seq(Seq(Metrics))
      /\ \A i \in 1..Len(gs) : gs[i] \in Seq(Metrics) /\ m \notin ToSet(gs[i])
  BY DEF Apart, Adds
<1>1. ASSUME fits = {}, DOMAIN new = 1..(Len(gs) + 1), new[Len(gs) + 1] = <<m>>,
             \A j \in 1..Len(gs) : new[j] = gs[j]
      PROVE  Apart(new, S \cup {m})
  <2>1. PICK p : p = Len(gs) + 1
    OBVIOUS
  <2>2. 1..Len(new) = (1..Len(gs)) \cup {p} /\ p \notin 1..Len(gs) /\ new[p] = <<m>>
    BY <1>0, <1>1, <2>1
  <2>3. ToSet(<<m>>) = {m} /\ IsInjective(<<m>>) /\ <<m>> # <<>>
    BY DEF ToSet, IsInjective
  <2>4. \A i \in 1..Len(new) : new[i] # <<>> /\ IsInjective(new[i])
    BY <1>1, <2>2, <2>3 DEF Apart
  <2>5. \A i, j \in 1..Len(new) : i # j => ToSet(new[i]) \cap ToSet(new[j]) = {}
    <3>1. \A i \in 1..Len(new) : ToSet(new[i]) = IF i = p THEN {m} ELSE ToSet(gs[i])
      BY <1>1, <2>2, <2>3
    <3>2. \A i \in 1..Len(gs) : m \notin ToSet(gs[i])
      BY <1>0
    <3>3. \A i, j \in 1..Len(gs) : i # j => ToSet(gs[i]) \cap ToSet(gs[j]) = {}
      BY DEF Apart
    <3> QED BY <2>2, <3>1, <3>2, <3>3, ZenonT(40)
  <2>6. S \cup {m} = UNION {ToSet(new[i]) : i \in 1..Len(new)}
    BY <1>1, <2>2, <2>3, SMTT(30) DEF Apart
  <2> QED BY <1>0, <2>4, <2>5, <2>6 DEF Apart
<1>2. ASSUME NEW i \in fits, DOMAIN new = 1..Len(gs), new[i] = Append(gs[i], m),
             \A j \in 1..Len(gs) : j # i => new[j] = gs[j]
      PROVE  Apart(new, S \cup {m})
  <2>1. i \in 1..Len(gs) /\ gs[i] \in Seq(Metrics) /\ 1..Len(new) = 1..Len(gs) /\ m \notin ToSet(gs[i])
    BY <1>0, <1>2
  <2>2. /\ ToSet(new[i]) = ToSet(gs[i]) \cup {m}
        /\ IsInjective(gs[i]) /\ m \notin ToSet(gs[i]) => IsInjective(new[i])
    BY <1>2, <2>1, AppendIs
  <2>3. new[i] # <<>>
    BY <1>2, <2>1
  <2>4. \A j \in 1..Len(new) : new[j] # <<>> /\ IsInjective(new[j])
    BY <1>2, <2>1, <2>2, <2>3 DEF Apart
  <2>5. \A j, k \in 1..Len(new) : j # k => ToSet(new[j]) \cap ToSet(new[k]) = {}
    <3>1. \A j \in 1..Len(gs) : ToSet(new[j]) = IF j = i THEN ToSet(gs[j]) \cup {m} ELSE ToSet(gs[j])
      BY <1>2, <2>2
    <3>2. \A j \in 1..Len(gs) : m \notin ToSet(gs[j])
      BY <1>0
    <3>3. \A j, k \in 1..Len(gs) : j # k => ToSet(gs[j]) \cap ToSet(gs[k]) = {}
      BY DEF Apart
    <3> SUFFICES ASSUME NEW j \in 1..Len(gs), NEW k \in 1..Len(gs), j # k
                 PROVE  ToSet(new[j]) \cap ToSet(new[k]) = {}
      BY <2>1
    <3>4. ToSet(gs[j]) \cap ToSet(gs[k]) = {} /\ m \notin ToSet(gs[j]) /\ m \notin ToSet(gs[k])
      BY <3>2, <3>3
    <3>5. ToSet(new[j]) \subseteq ToSet(gs[j]) \cup {m} /\ ToSet(new[k]) \subseteq ToSet(gs[k]) \cup {m}
      BY <3>1
    <3>6. ToSet(new[j]) = ToSet(gs[j]) \/ ToSet(new[k]) = ToSet(gs[k])
      BY <3>1
    <3> QED BY <3>4, <3>5, <3>6
  <2>6. S \cup {m} = UNION {ToSet(new[j]) : j \in 1..Len(new)}
    <3>1. \A j \in 1..Len(gs) : ToSet(new[j]) = IF j = i THEN ToSet(gs[j]) \cup {m} ELSE ToSet(gs[j])
      BY <1>2, <2>2
    <3>2. S = UNION {ToSet(gs[j]) : j \in 1..Len(gs)}
      BY DEF Apart
    <3> QED BY <2>1, <3>1, <3>2, ZenonT(40)
  <2> QED BY <1>0, <2>4, <2>5, <2>6 DEF Apart
<1> QED BY <1>1, <1>2 DEF Adds

\* Groups that are apartare different ones, and one after the other they are
\* their metrics, each once.
LEMMA ApartIs ==
    ASSUME NEW gs, NEW S, Apart(gs, S)
    PROVE  /\ IsInjective(gs) /\ IsInjective(FlattenSeq(gs)) /\ ToSet(FlattenSeq(gs)) = S
<1>1. /\ gs \in Seq(Seq(Metrics)) /\ DOMAIN gs = 1..Len(gs)
      /\ \A i \in 1..Len(gs) : gs[i] \in Seq(Metrics) /\ gs[i] # <<>> /\ IsInjective(gs[i])
      /\ \A i, j \in 1..Len(gs) : i # j => ToSet(gs[i]) \cap ToSet(gs[j]) = {}
      /\ S = UNION {ToSet(gs[i]) : i \in 1..Len(gs)}
  <2>1. gs \in Seq(Seq(Metrics))
    BY DEF Apart
  <2>2. DOMAIN gs = 1..Len(gs) /\ \A i \in 1..Len(gs) : gs[i] \in Seq(Metrics)
    BY <2>1
  <2> QED BY <2>1, <2>2 DEF Apart
<1>2. IsInjective(gs)
  <2>1. \A i \in 1..Len(gs) : ToSet(gs[i]) # {}
    BY <1>1, FirstIn
  <2> QED BY <1>1, <2>1 DEF IsInjective
<1>3. IsInjective(FlattenSeq(gs))
  BY <1>1, FlattenInjective
<1>4. ToSet(FlattenSeq(gs)) = UNION {ToSet(s) : s \in ToSet(gs)}
  BY <1>1, FlattenIs
<1>5. ToSet(gs) = {gs[i] : i \in 1..Len(gs)}
  BY <1>1 DEF ToSet
<1> QED BY <1>1, <1>2, <1>3, <1>4, <1>5

\* The groups of candidates that are apart are apart.
AllApart(cs, gss) ==
    /\ gss \in Seq(Seq(Seq(Metrics))) /\ Len(gss) = Len(cs)
    /\ \A i \in 1..Len(cs) : Apart(gss[i], ToSet(cs[i]))

\* The groups of all candidates, one after the other, are apart and theirs.
LEMMA FlattenApart ==
    ASSUME NEW cs, NEW S, Apart(cs, S), NEW gss, AllApart(cs, gss)
    PROVE  /\ Apart(FlattenSeq(gss), S)
           /\ \A g \in ToSet(FlattenSeq(gss)) : \E i \in 1..Len(cs) : g \in ToSet(gss[i])
<1> DEFINE n == Len(cs)
           gs == FlattenSeq(gss)
<1>1. /\ n \in Nat /\ gss \in Seq(Seq(Seq(Metrics))) /\ DOMAIN gss = 1..n
      /\ \A i \in 1..n : gss[i] \in Seq(Seq(Metrics))
  BY DEF Apart, AllApart
<1>2. /\ \A i, j \in 1..n : i # j => ToSet(cs[i]) \cap ToSet(cs[j]) = {}
      /\ S = UNION {ToSet(cs[i]) : i \in 1..n}
  BY DEF Apart
<1>3. ASSUME NEW i \in 1..n
      PROVE  /\ IsInjective(gss[i])
             /\ \A g \in ToSet(gss[i]) : g \in Seq(Metrics) /\ g # <<>> /\ IsInjective(g)
                                         /\ ToSet(g) \subseteq ToSet(cs[i]) /\ ToSet(g) # {}
             /\ \A g, h \in ToSet(gss[i]) : g # h => ToSet(g) \cap ToSet(h) = {}
             /\ ToSet(cs[i]) = UNION {ToSet(g) : g \in ToSet(gss[i])}
  <2>1. PICK hs : hs = gss[i]
    OBVIOUS
  <2>2. Apart(hs, ToSet(cs[i]))
    BY <2>1 DEF AllApart
  <2>3. /\ hs \in Seq(Seq(Metrics)) /\ ToSet(hs) = {hs[k] : k \in 1..Len(hs)}
        /\ \A k \in 1..Len(hs) : hs[k] \in Seq(Metrics) /\ hs[k] # <<>> /\ IsInjective(hs[k])
        /\ \A k, l \in 1..Len(hs) : k # l => ToSet(hs[k]) \cap ToSet(hs[l]) = {}
        /\ ToSet(cs[i]) = UNION {ToSet(hs[k]) : k \in 1..Len(hs)}
    <3>1. hs \in Seq(Seq(Metrics))
      BY <2>2 DEF Apart
    <3>2. DOMAIN hs = 1..Len(hs) /\ \A k \in 1..Len(hs) : hs[k] \in Seq(Metrics)
      BY <3>1
    <3>3. ToSet(hs) = {hs[k] : k \in 1..Len(hs)}
      BY <3>2 DEF ToSet
    <3> QED BY <2>2, <3>1, <3>2, <3>3 DEF Apart
  <2>4. IsInjective(hs)
    BY <2>2, ApartIs
  <2>5. \A g \in ToSet(hs) : g \in Seq(Metrics) /\ g # <<>> /\ IsInjective(g)
    BY <2>3
  <2>6. \A g \in ToSet(hs) : ToSet(g) # {}
    BY <2>5, FirstIn
  <2>7. ToSet(cs[i]) = UNION {ToSet(g) : g \in ToSet(hs)}
    BY <2>3
  <2>8. \A g \in ToSet(hs) : ToSet(g) \subseteq ToSet(cs[i])
    BY <2>7
  <2>9. \A g, h \in ToSet(hs) : g # h => ToSet(g) \cap ToSet(h) = {}
    BY <2>3
  <2> QED BY <2>1, <2>4, <2>5, <2>6, <2>7, <2>8, <2>9
<1>4. gs \in Seq(Seq(Metrics)) /\ ToSet(gs) = UNION {ToSet(s) : s \in ToSet(gss)}
  BY <1>1, FlattenIs
<1>5. ToSet(gss) = {gss[i] : i \in 1..n}
  BY <1>1 DEF ToSet
<1>6. \A g : g \in ToSet(gs) <=> \E i \in 1..n : g \in ToSet(gss[i])
  BY <1>4, <1>5
<1>7. IsInjective(gs)
  <2>1. \A i \in DOMAIN gss : IsInjective(gss[i])
    BY <1>1, <1>3
  <2>2. ASSUME NEW i \in 1..n, NEW j \in 1..n, i # j PROVE ToSet(gss[i]) \cap ToSet(gss[j]) = {}
    <3> SUFFICES ASSUME NEW g, g \in ToSet(gss[i]), g \in ToSet(gss[j]) PROVE FALSE
      OBVIOUS
    <3>1. ToSet(g) \subseteq ToSet(cs[i]) /\ ToSet(g) \subseteq ToSet(cs[j]) /\ ToSet(g) # {}
      BY <1>3
    <3>2. ToSet(cs[i]) \cap ToSet(cs[j]) = {}
      BY <1>2, <2>2
    <3> QED BY <3>1, <3>2
  <2> QED BY <1>1, <2>1, <2>2, FlattenInjective
<1>8. ASSUME NEW g \in ToSet(gs), NEW h \in ToSet(gs), g # h PROVE ToSet(g) \cap ToSet(h) = {}
  <2>1. PICK i \in 1..n : g \in ToSet(gss[i])
    BY <1>6
  <2>2. PICK j \in 1..n : h \in ToSet(gss[j])
    BY <1>6
  <2>3. CASE i = j
    BY <1>3, <1>8, <2>1, <2>2, <2>3
  <2>4. CASE i # j
    <3>1. ToSet(g) \subseteq ToSet(cs[i]) /\ ToSet(h) \subseteq ToSet(cs[j])
      BY <1>3, <2>1, <2>2
    <3>2. ToSet(cs[i]) \cap ToSet(cs[j]) = {}
      BY <1>2, <2>4
    <3> QED BY <3>1, <3>2
  <2> QED BY <2>3, <2>4
<1>9. S = UNION {ToSet(g) : g \in ToSet(gs)}
  <2>1. S = UNION {UNION {ToSet(g) : g \in ToSet(gss[i])} : i \in 1..n}
    BY <1>2, <1>3
  <2> QED BY <1>6, <2>1
<1> HIDE DEF gs
<1>10. DOMAIN gs = 1..Len(gs) /\ ToSet(gs) = {gs[k] : k \in 1..Len(gs)}
  <2>1. DOMAIN gs = 1..Len(gs)
    BY <1>4
  <2> QED BY <2>1 DEF ToSet
<1>11. \A k \in 1..Len(gs) : gs[k] # <<>> /\ IsInjective(gs[k])
  BY <1>3, <1>6, <1>10
<1>12. \A k, l \in 1..Len(gs) : k # l => ToSet(gs[k]) \cap ToSet(gs[l]) = {}
  <2>1. \A k, l \in 1..Len(gs) : k # l => gs[k] # gs[l]
    BY <1>7, <1>10 DEF IsInjective
  <2>2. \A k \in 1..Len(gs) : gs[k] \in ToSet(gs)
    BY <1>10
  <2> QED BY <1>8, <2>1, <2>2
<1>13. S = UNION {ToSet(gs[k]) : k \in 1..Len(gs)}
  BY <1>9, <1>10
<1>14. Apart(gs, S)
  BY <1>4, <1>11, <1>12, <1>13 DEF Apart
<1> QED BY <1>6, <1>14 DEF gs

-----------------------------------------------------------------------------
(* The candidates of a plan and the groups they become.                       *)

\* plan_bound_query goes through the metrics in their order.
Groups(r, f) ==
    /\ f[0] = <<>>
    /\ \A i \in 1..Len(r.metrics) : f[i] = Placed(f[i - 1], r.metrics[i], SamePath(r, f[i - 1], r.metrics[i]))
    /\ HasBindings(r) => Candidates(r) = f[Len(r.metrics)]

\* A metric joins the candidate that has its path, or begins one.
LEMMA CandidatesUnfold ==
    ASSUME NEW r, r.metrics \in Seq(Metrics)
    PROVE  \E f : Groups(r, f)
<1> DEFINE n == Len(r.metrics)
           X == Seq(Seq(Metrics))
           step == [p \in X \X (1..n) |-> Placed(p[1], r.metrics[p[2]], SamePath(r, p[1], r.metrics[p[2]]))]
           Solves(g, m) == g = [i \in 0..m |-> IF i = 0 THEN <<>> ELSE Placed(g[i - 1], r.metrics[i], SamePath(r, g[i - 1], r.metrics[i]))]
           grouped == CHOOSE g : Solves(g, n)
<1>1. n \in Nat /\ \A i \in 1..n : r.metrics[i] \in Metrics
  OBVIOUS
<1>2. \A s \in X, i \in 1..n : Placed(s, r.metrics[i], SamePath(r, s, r.metrics[i])) \in X
  <2> SUFFICES ASSUME NEW s \in X, NEW i \in 1..n PROVE Placed(s, r.metrics[i], SamePath(r, s, r.metrics[i])) \in X
    OBVIOUS
  <2>1. PICK m \in Metrics : m = r.metrics[i]
    BY <1>1
  <2>2. PICK fits : fits = SamePath(r, s, m)
    OBVIOUS
  <2>3. fits \in SUBSET (1..Len(s))
    BY <2>2 DEF SamePath
  <2>4. Adds(s, m, fits, Placed(s, m, fits))
    BY <2>3, PlacedIs
  <2> QED BY <2>1, <2>2, <2>4 DEF Adds
<1>3. step \in [X \X (1..n) -> X]
  BY <1>2
<1>4. \A s \in X, i \in 1..n : step[<<s, i>>] = Placed(s, r.metrics[i], SamePath(r, s, r.metrics[i]))
  OBVIOUS
<1>5. <<>> \in X
  OBVIOUS
<1>6. PICK f : Iterates(X, <<>>, n, step, f)
  <2> HIDE DEF step, n, X
  <2> QED BY <1>1, <1>3, <1>5, Recursion
<1>7. f \in [0..n -> X] /\ f[0] = <<>>
  BY <1>6 DEF Iterates
<1>8. \A i \in 1..n : f[i] = Placed(f[i - 1], r.metrics[i], SamePath(r, f[i - 1], r.metrics[i]))
  <2>1. \A i \in 1..n : i - 1 \in 0..n
    BY <1>1
  <2> HIDE DEF step, n, X
  <2> QED BY <1>4, <1>6, <1>7, <2>1 DEF Iterates
<1> HIDE DEF step, X
<1>9. Solves(f, n)
  <2> DEFINE h == [i \in 0..n |-> IF i = 0 THEN <<>> ELSE Placed(f[i - 1], r.metrics[i], SamePath(r, f[i - 1], r.metrics[i]))]
  <2>1. f = [i \in 0..n |-> f[i]]
    BY <1>7
  <2>2. \A i \in 0..n : i # 0 => i \in 1..n
    BY <1>1
  <2>3. \A i \in 0..n : h[i] = IF i = 0 THEN <<>> ELSE Placed(f[i - 1], r.metrics[i], SamePath(r, f[i - 1], r.metrics[i]))
    OBVIOUS
  <2>4. \A i \in 0..n : f[i] = h[i]
    <3> HIDE DEF h, n
    <3> QED BY <1>7, <1>8, <2>2, <2>3, Zenon
  <2> QED BY <2>1, <2>4
<1>10. Solves(grouped, n)
  <2> HIDE DEF Solves
  <2> QED BY <1>9, Zenon
<1>11. HasBindings(r) => Candidates(r) = grouped[n]
  BY Zenon DEF Candidates
<1> HIDE DEF grouped
<1>12. grouped[0] = <<>> /\ \A i \in 1..n : grouped[i] = Placed(grouped[i - 1], r.metrics[i], SamePath(r, grouped[i - 1], r.metrics[i]))
  <2> DEFINE h == [i \in 0..n |-> IF i = 0 THEN <<>> ELSE Placed(grouped[i - 1], r.metrics[i], SamePath(r, grouped[i - 1], r.metrics[i]))]
  <2>1. grouped = h
    BY <1>10
  <2>2. \A i \in 0..n : h[i] = IF i = 0 THEN <<>> ELSE Placed(grouped[i - 1], r.metrics[i], SamePath(r, grouped[i - 1], r.metrics[i]))
    OBVIOUS
  <2> HIDE DEF h
  <2>3. 0 \in 0..n /\ \A i \in 1..n : i \in 0..n /\ i # 0
    BY <1>1
  <2> QED BY <2>1, <2>2, <2>3, Zenon
<1> QED BY <1>11, <1>12 DEF Groups

\* compile_groups goes through the metrics of a candidate.
Splits(candidate, f) ==
    /\ f[0] = <<>>
    /\ \A i \in 1..Len(candidate) : f[i] = PlaceInFirst(f[i - 1], candidate[i])
    /\ Split(candidate) = f[Len(candidate)]

\* A metric joins the first partition that compiles with it, or begins one.
LEMMA SplitUnfolds ==
    ASSUME NEW candidate \in Seq(Metrics)
    PROVE  \E f : Splits(candidate, f)
<1> DEFINE n == Len(candidate)
           X == Seq(Seq(Metrics))
           step == [p \in X \X (1..n) |-> PlaceInFirst(p[1], candidate[p[2]])]
           Solves(g, m) == g = [i \in 0..m |-> IF i = 0 THEN <<>> ELSE PlaceInFirst(g[i - 1], candidate[i])]
           split == CHOOSE g : Solves(g, n)
<1>1. n \in Nat /\ \A i \in 1..n : candidate[i] \in Metrics
  OBVIOUS
<1>2. \A s \in X, i \in 1..n : PlaceInFirst(s, candidate[i]) \in X
  <2> SUFFICES ASSUME NEW s \in X, NEW i \in 1..n PROVE PlaceInFirst(s, candidate[i]) \in X
    OBVIOUS
  <2>1. PICK m \in Metrics : m = candidate[i]
    BY <1>1
  <2>2. PICK fits : fits = Fitting(s, m)
    OBVIOUS
  <2>3. fits \in SUBSET (1..Len(s))
    BY <2>2 DEF Fitting
  <2>4. Adds(s, m, fits, Placed(s, m, fits))
    BY <2>3, PlacedIs
  <2> QED BY <2>1, <2>2, <2>4 DEF Adds, PlaceInFirst
<1>3. step \in [X \X (1..n) -> X]
  BY <1>2
<1>4. \A s \in X, i \in 1..n : step[<<s, i>>] = PlaceInFirst(s, candidate[i])
  OBVIOUS
<1>5. <<>> \in X
  OBVIOUS
<1>6. PICK f : Iterates(X, <<>>, n, step, f)
  <2> HIDE DEF step, n, X
  <2> QED BY <1>1, <1>3, <1>5, Recursion
<1>7. f \in [0..n -> X] /\ f[0] = <<>>
  BY <1>6 DEF Iterates
<1>8. \A i \in 1..n : f[i] = PlaceInFirst(f[i - 1], candidate[i])
  <2>1. \A i \in 1..n : i - 1 \in 0..n
    BY <1>1
  <2> HIDE DEF step, n, X
  <2> QED BY <1>4, <1>6, <1>7, <2>1 DEF Iterates
<1> HIDE DEF step, X
<1>9. Solves(f, n)
  <2> DEFINE h == [i \in 0..n |-> IF i = 0 THEN <<>> ELSE PlaceInFirst(f[i - 1], candidate[i])]
  <2>1. f = [i \in 0..n |-> f[i]]
    BY <1>7
  <2>2. \A i \in 0..n : i # 0 => i \in 1..n
    BY <1>1
  <2>3. \A i \in 0..n : h[i] = IF i = 0 THEN <<>> ELSE PlaceInFirst(f[i - 1], candidate[i])
    OBVIOUS
  <2>4. \A i \in 0..n : f[i] = h[i]
    <3> HIDE DEF h, n
    <3> QED BY <1>7, <1>8, <2>2, <2>3, Zenon
  <2> QED BY <2>1, <2>4
<1>10. Solves(split, n)
  <2> HIDE DEF Solves
  <2> QED BY <1>9, Zenon
<1>11. Split(candidate) = split[n]
  BY Zenon DEF Split
<1> HIDE DEF split
<1>12. split[0] = <<>> /\ \A i \in 1..n : split[i] = PlaceInFirst(split[i - 1], candidate[i])
  <2> DEFINE h == [i \in 0..n |-> IF i = 0 THEN <<>> ELSE PlaceInFirst(split[i - 1], candidate[i])]
  <2>1. split = h
    BY <1>10
  <2>2. \A i \in 0..n : h[i] = IF i = 0 THEN <<>> ELSE PlaceInFirst(split[i - 1], candidate[i])
    OBVIOUS
  <2> HIDE DEF h
  <2>3. 0 \in 0..n /\ \A i \in 1..n : i \in 0..n /\ i # 0
    BY <1>1
  <2> QED BY <2>1, <2>2, <2>3, Zenon
<1> QED BY <1>11, <1>12 DEF Splits

\* The metrics of a candidate have one path, and no other candidate has it.
OnePath(r, cs) ==
    /\ \A i \in 1..Len(cs) : \A m \in ToSet(cs[i]) : Path(r, m) = Path(r, cs[i][1])
    /\ \A i, j \in 1..Len(cs) : i # j => Path(r, cs[i][1]) # Path(r, cs[j][1])

\* A metric is placed among those that have its path.
LEMMA OnePathGrows ==
    ASSUME NEW r, NEW cs, NEW S, Apart(cs, S), OnePath(r, cs), NEW m \in Metrics, NEW new,
           Adds(cs, m, SamePath(r, cs, m), new)
    PROVE  OnePath(r, new)
<1>0. Len(cs) \in Nat /\ DOMAIN cs = 1..Len(cs) /\ Len(new) \in Nat /\ DOMAIN new = 1..Len(new)
      /\ \A i \in 1..Len(cs) : cs[i] \in Seq(Metrics) /\ cs[i] # <<>>
  BY DEF Apart, Adds
<1>1. ASSUME SamePath(r, cs, m) = {}, DOMAIN new = 1..(Len(cs) + 1), new[Len(cs) + 1] = <<m>>,
             \A j \in 1..Len(cs) : new[j] = cs[j]
      PROVE  OnePath(r, new)
  <2>1. PICK p : p = Len(cs) + 1
    OBVIOUS
  <2>2. 1..Len(new) = (1..Len(cs)) \cup {p} /\ p \notin 1..Len(cs) /\ new[p] = <<m>>
    BY <1>0, <1>1, <2>1
  <2>3. ToSet(<<m>>) = {m} /\ <<m>>[1] = m
    BY DEF ToSet
  <2>4. \A i \in 1..Len(cs) : Path(r, cs[i][1]) # Path(r, m)
    BY <1>0, <1>1 DEF SamePath
  <2>5. \A i \in 1..Len(new) : \A k \in ToSet(new[i]) : Path(r, k) = Path(r, new[i][1])
    BY <1>1, <2>2, <2>3 DEF OnePath
  <2>6. \A i, j \in 1..Len(new) : i # j => Path(r, new[i][1]) # Path(r, new[j][1])
    <3>1. \A i \in 1..Len(new) : Path(r, new[i][1]) = IF i = p THEN Path(r, m) ELSE Path(r, cs[i][1])
      BY <1>1, <2>2, <2>3
    <3>2. \A i, j \in 1..Len(cs) : i # j => Path(r, cs[i][1]) # Path(r, cs[j][1])
      BY DEF OnePath
    <3> HIDE DEF OnePath
    <3> QED BY <2>2, <2>4, <3>1, <3>2
  <2> QED BY <2>5, <2>6 DEF OnePath
<1>2. ASSUME NEW i \in SamePath(r, cs, m), DOMAIN new = 1..Len(cs), new[i] = Append(cs[i], m),
             \A j \in 1..Len(cs) : j # i => new[j] = cs[j]
      PROVE  OnePath(r, new)
  <2>1. i \in 1..Len(cs) /\ cs[i] \in Seq(Metrics) /\ 1..Len(new) = 1..Len(cs) /\ Path(r, cs[i][1]) = Path(r, m)
    BY <1>0, <1>2 DEF SamePath
  <2>2. ToSet(new[i]) = ToSet(cs[i]) \cup {m}
    BY <1>2, <2>1, AppendIs
  <2>3. new[i][1] = cs[i][1]
    <3>1. cs[i] # <<>> /\ cs[i] \in Seq(Metrics)
      BY <1>0, <2>1
    <3>2. PICK s \in Seq(Metrics) : s = cs[i]
      BY <3>1
    <3>3. Append(s, m)[1] = s[1]
      BY <3>1, <3>2
    <3> QED BY <1>2, <3>2, <3>3, SMTT(30)
  <2>4. \A j \in 1..Len(cs) : new[j][1] = cs[j][1]
    BY <1>2, <2>3
  <2>5. ASSUME NEW j \in 1..Len(cs), NEW k \in ToSet(new[j]) PROVE Path(r, k) = Path(r, new[j][1])
    <3>1. k \in ToSet(cs[j]) \/ (j = i /\ k = m)
      BY <1>2, <2>2
    <3>2. \A l \in ToSet(cs[j]) : Path(r, l) = Path(r, cs[j][1])
      BY DEF OnePath
    <3> QED BY <2>1, <2>4, <3>1, <3>2
  <2>6. \A j, k \in 1..Len(cs) : j # k => Path(r, new[j][1]) # Path(r, new[k][1])
    BY <2>4 DEF OnePath
  <2> QED BY <2>1, <2>5, <2>6, SMTT(30) DEF OnePath
<1> QED BY <1>1, <1>2 DEF Adds

\* The candidates of a request with bindings are its metrics, path by path.
LEMMA CandidatesApart ==
    ASSUME NEW r, r.metrics \in Seq(Metrics), IsInjective(r.metrics), HasBindings(r)
    PROVE  Apart(Candidates(r), ToSet(r.metrics)) /\ OnePath(r, Candidates(r))
<1> DEFINE n == Len(r.metrics)
           M(k) == {r.metrics[i] : i \in 1..k}
<1>1. PICK f : Groups(r, f)
  BY CandidatesUnfold
<1>0. /\ n \in Nat /\ DOMAIN r.metrics = 1..n /\ \A i \in 1..n : r.metrics[i] \in Metrics
      /\ \A i, j \in 1..n : r.metrics[i] = r.metrics[j] => i = j
  BY DEF IsInjective
<1> DEFINE Good == {k \in 0..n : Apart(f[k], M(k)) /\ OnePath(r, f[k])}
<1>2. 0 \in Good
  <2>1. f[0] = <<>> /\ M(0) = {}
    BY <1>1 DEF Groups
  <2>2. Apart(<<>>, {}) /\ OnePath(r, <<>>)
    BY DEF Apart, OnePath
  <2>3. Apart(f[0], M(0)) /\ OnePath(r, f[0])
    BY <2>1, <2>2
  <2> HIDE DEF M
  <2> QED BY <1>0, <2>3
<1>3. ASSUME NEW k \in 0..n, k \in Good, k < n PROVE k + 1 \in Good
  <2>1. PICK p : p = k + 1
    OBVIOUS
  <2>2. p \in 1..n /\ p \in 0..n /\ p - 1 = k /\ 1..p = (1..k) \cup {p} /\ p \notin 1..k /\ 1..k \subseteq 1..n
    BY <1>0, <2>1, <1>3
  <2>3. PICK m : m = r.metrics[p]
    OBVIOUS
  <2>4. m \in Metrics \ M(k) /\ M(p) = M(k) \cup {m}
    BY <1>0, <2>2, <2>3
  <2>5. f[p] = Placed(f[k], m, SamePath(r, f[k], m))
    BY <1>1, <2>2, <2>3 DEF Groups
  <2>6. Apart(f[k], M(k)) /\ OnePath(r, f[k])
    BY <1>3
  <2> HIDE DEF M
  <2>7. f[k] \in Seq(Seq(Metrics)) /\ SamePath(r, f[k], m) \in SUBSET (1..Len(f[k]))
    BY <2>6 DEF Apart, SamePath
  <2>8. Adds(f[k], m, SamePath(r, f[k], m), f[p])
    BY <2>4, <2>5, <2>7, PlacedIs
  <2>9. Apart(f[p], M(k) \cup {m})
    BY <2>4, <2>6, <2>7, <2>8, PlacedApart
  <2>10. OnePath(r, f[p])
    BY <2>4, <2>6, <2>8, OnePathGrows
  <2>11. p \in Good
    BY <2>2, <2>4, <2>9, <2>10
  <2> QED BY <2>1, <2>11
<1>4. n \in Good
  <2> HIDE DEF Good
  <2> QED BY <1>0, <1>2, <1>3, Forward
<1>5. M(n) = ToSet(r.metrics)
  BY <1>0 DEF ToSet
<1>6. Apart(f[n], M(n)) /\ OnePath(r, f[n]) /\ Candidates(r) = f[n]
  BY <1>1, <1>4 DEF Groups
<1> HIDE DEF M
<1> QED BY <1>5, <1>6

\* Of the groups of a split one has one metric, or is compiled.
LEMMA SplitApart ==
    ASSUME NEW candidate \in Seq(Metrics), IsInjective(candidate)
    PROVE  /\ Apart(Split(candidate), ToSet(candidate))
           /\ \A i \in 1..Len(Split(candidate)) :
                Split(candidate)[i] = <<Split(candidate)[i][1]>> \/ Compiles(Split(candidate)[i])
<1> DEFINE n == Len(candidate)
           M(k) == {candidate[i] : i \in 1..k}
           Done(gs) == \A i \in 1..Len(gs) : gs[i] = <<gs[i][1]>> \/ Compiles(gs[i])
<1>1. PICK f : Splits(candidate, f)
  BY SplitUnfolds
<1>0. /\ n \in Nat /\ DOMAIN candidate = 1..n /\ \A i \in 1..n : candidate[i] \in Metrics
      /\ \A i, j \in 1..n : candidate[i] = candidate[j] => i = j
  BY DEF IsInjective
<1> DEFINE Good == {k \in 0..n : Apart(f[k], M(k)) /\ Done(f[k])}
<1>2. 0 \in Good
  <2>1. f[0] = <<>> /\ M(0) = {}
    BY <1>1 DEF Splits
  <2>2. Apart(<<>>, {}) /\ Done(<<>>)
    BY DEF Apart
  <2> HIDE DEF M, Done
  <2>3. Apart(f[0], M(0)) /\ Done(f[0])
    BY <2>1, <2>2
  <2> QED BY <1>0, <2>3
<1>3. ASSUME NEW k \in 0..n, k \in Good, k < n PROVE k + 1 \in Good
  <2>1. PICK p : p = k + 1
    OBVIOUS
  <2>2. p \in 1..n /\ p \in 0..n /\ p - 1 = k /\ 1..p = (1..k) \cup {p} /\ p \notin 1..k /\ 1..k \subseteq 1..n
    BY <1>0, <2>1, <1>3
  <2>3. PICK m : m = candidate[p]
    OBVIOUS
  <2>4. m \in Metrics \ M(k) /\ M(p) = M(k) \cup {m}
    BY <1>0, <2>2, <2>3
  <2>5. f[p] = Placed(f[k], m, Fitting(f[k], m))
    BY <1>1, <2>2, <2>3 DEF Splits, PlaceInFirst
  <2> HIDE DEF M
  <2>6. Apart(f[k], M(k)) /\ Done(f[k])
    BY <1>3
  <2>7. f[k] \in Seq(Seq(Metrics)) /\ Fitting(f[k], m) \in SUBSET (1..Len(f[k]))
    BY <2>6 DEF Apart, Fitting
  <2>8. Adds(f[k], m, Fitting(f[k], m), f[p])
    BY <2>4, <2>5, <2>7, PlacedIs
  <2>9. Apart(f[p], M(k) \cup {m})
    BY <2>4, <2>6, <2>7, <2>8, PlacedApart
  <2>10. Done(f[p])
    <3>0. Len(f[k]) \in Nat /\ f[p] \in Seq(Seq(Metrics))
      BY <2>7, <2>8 DEF Adds
    <3> SUFFICES ASSUME NEW i \in 1..Len(f[p]) PROVE f[p][i] = <<f[p][i][1]>> \/ Compiles(f[p][i])
      OBVIOUS
    <3>1. CASE i \in 1..Len(f[k]) /\ f[p][i] = f[k][i]
      BY <2>6, <3>1
    <3>2. CASE f[p][i] = <<m>>
      BY <3>2
    <3>3. CASE i \in Fitting(f[k], m) /\ f[p][i] = Append(f[k][i], m)
      BY <3>3 DEF Fitting
    <3>4. DOMAIN f[p] = 1..Len(f[p])
      BY <3>0
    <3> HIDE DEF Done, Good
    <3>5. ASSUME DOMAIN f[p] = 1..(Len(f[k]) + 1), f[p][Len(f[k]) + 1] = <<m>>,
                 \A j \in 1..Len(f[k]) : f[p][j] = f[k][j]
          PROVE  f[p][i] = <<m>> \/ (i \in 1..Len(f[k]) /\ f[p][i] = f[k][i])
      <4>1. i \in 1..Len(f[k]) \/ i = Len(f[k]) + 1
        BY <3>0, <3>4, <3>5
      <4> QED BY <3>5, <4>1
    <3>6. ASSUME NEW j \in Fitting(f[k], m), DOMAIN f[p] = 1..Len(f[k]), f[p][j] = Append(f[k][j], m),
                 \A l \in 1..Len(f[k]) : l # j => f[p][l] = f[k][l]
          PROVE  \/ i \in 1..Len(f[k]) /\ f[p][i] = f[k][i]
                 \/ i \in Fitting(f[k], m) /\ f[p][i] = Append(f[k][i], m)
      <4>1. i \in 1..Len(f[k])
        BY <3>4, <3>6
      <4> QED BY <3>6, <4>1
    <3> QED BY <2>8, <3>1, <3>2, <3>3, <3>5, <3>6 DEF Adds
  <2> HIDE DEF Done
  <2>11. p \in Good
    BY <2>2, <2>4, <2>9, <2>10
  <2> QED BY <2>1, <2>11
<1>4. n \in Good
  <2> HIDE DEF Good
  <2> QED BY <1>0, <1>2, <1>3, Forward
<1>5. M(n) = ToSet(candidate)
  BY <1>0 DEF ToSet
<1> HIDE DEF M
<1>6. Apart(f[n], M(n)) /\ Done(f[n]) /\ Split(candidate) = f[n]
  BY <1>1, <1>4 DEF Splits
<1> QED BY <1>5, <1>6

\* A candidate MetricFlow does not refuse becomes groups that it compiles, and
\* stays one group if it compiles.
LEMMA CompiledApart ==
    ASSUME NEW candidate \in Seq(Metrics), IsInjective(candidate), candidate # <<>>,
           ~Unplannable(candidate)
    PROVE  /\ Apart(CompiledGroups(candidate), ToSet(candidate))
           /\ \A g \in ToSet(CompiledGroups(candidate)) :
                Compiles(g) /\ (Compiles(candidate) => g = candidate)
<1>1. CASE Compiles(candidate)
  <2>1. CompiledGroups(candidate) = <<candidate>>
    BY <1>1 DEF CompiledGroups
  <2>2. ToSet(<<candidate>>) = {candidate}
    BY DEF ToSet
  <2>3. Apart(<<candidate>>, ToSet(candidate))
    BY DEF Apart
  <2> QED BY <1>1, <2>1, <2>2, <2>3
<1>2. CASE ~Compiles(candidate)
  <2>1. CompiledGroups(candidate) = Split(candidate)
    BY <1>2 DEF CompiledGroups
  <2>2. \A g \in ToSet(Split(candidate)) : Compiles(<<g[1]>>)
    BY <1>2 DEF Unplannable
  <2>3. PICK gs : gs = Split(candidate)
    OBVIOUS
  <2>4. Apart(gs, ToSet(candidate)) /\ \A i \in 1..Len(gs) : gs[i] = <<gs[i][1]>> \/ Compiles(gs[i])
    BY <2>3, SplitApart
  <2>5. ToSet(gs) = {gs[i] : i \in 1..Len(gs)}
    <3>1. gs \in Seq(Seq(Metrics))
      BY <2>4 DEF Apart
    <3>2. DOMAIN gs = 1..Len(gs)
      BY <3>1
    <3> QED BY <3>2 DEF ToSet
  <2>6. \A g \in ToSet(gs) : Compiles(g)
    BY <2>2, <2>3, <2>4, <2>5
  <2> QED BY <1>2, <2>1, <2>3, <2>4, <2>6
<1> QED BY <1>1, <1>2

\* What is planned is planned for the request, which is still there.
PlanIsOfRequest ==
    /\ CanPlan(request)
    /\ plan.bound <=> HasBindings(request)
    /\ plan.candidates = Candidates(request)
    /\ compilable \subseteq (SUBSET ToSet(request.metrics)) \ {{}}

RequestIsNormal ==
    /\ request.metrics \in Seq(Metrics) /\ IsInjective(request.metrics)
    /\ request.groupBy \in Seq(ToSet(request.groupBy))

Plannable == \A candidate \in ToSet(plan.candidates) : ~Unplannable(candidate)

\* The candidates are apart: without bindings there is one, of all metrics.
LEMMA PlannedApart ==
    ASSUME RequestIsNormal, PlanIsOfRequest, Plannable
    PROVE  /\ Apart(plan.candidates, ToSet(request.metrics))
           /\ plan.bound => OnePath(request, plan.candidates)
           /\ ~plan.bound => plan.candidates = <<request.metrics>> /\ Compiles(request.metrics)
<1>1. CASE plan.bound
  <2>1. Apart(Candidates(request), ToSet(request.metrics)) /\ OnePath(request, Candidates(request))
    BY <1>1, CandidatesApart DEF RequestIsNormal, PlanIsOfRequest
  <2> QED BY <1>1, <2>1 DEF PlanIsOfRequest
<1>2. CASE ~plan.bound
  <2>1. plan.candidates = <<request.metrics>>
    BY <1>2 DEF PlanIsOfRequest, Candidates
  <2>2. ToSet(<<request.metrics>>) = {request.metrics}
    BY DEF ToSet
  <2>3. Compiles(request.metrics)
    BY <1>2, <2>1, <2>2 DEF Plannable, Unplannable
  <2>4. request.metrics # <<>>
    <3>1. ToSet(<<>>) = {}
      BY DEF ToSet
    <3>2. ToSet(request.metrics) \in compilable
      BY <2>3 DEF Compiles
    <3>4. compilable \subseteq (SUBSET ToSet(request.metrics)) \ {{}}
      BY Zenon DEF PlanIsOfRequest
    <3>3. {} \notin compilable
      BY <3>4
    <3> QED BY <3>1, <3>2, <3>3
  <2>5. PICK ms \in Seq(Metrics) : ms = request.metrics
    BY DEF RequestIsNormal
  <2>6. Apart(<<ms>>, ToSet(ms))
    BY <2>4, <2>5 DEF Apart, RequestIsNormal
  <2> QED BY <1>2, <2>1, <2>3, <2>5, <2>6
<1> QED BY <1>1, <1>2

Compiled == [i \in DOMAIN plan.candidates |-> CompiledGroups(plan.candidates[i])]

\* What the candidates of a plan become is compiled and apart.
LEMMA CompiledAllApart ==
    ASSUME RequestIsNormal, PlanIsOfRequest, Plannable
    PROVE  /\ AllApart(plan.candidates, Compiled)
           /\ \A i \in 1..Len(plan.candidates) : \A g \in ToSet(Compiled[i]) :
                /\ Compiles(g) /\ ToSet(g) \subseteq ToSet(plan.candidates[i])
                /\ Compiles(plan.candidates[i]) => g = plan.candidates[i]
<1>1. PICK cs : cs = plan.candidates
  OBVIOUS
<1>2. Apart(cs, ToSet(request.metrics))
  BY <1>1, PlannedApart
<1>3. /\ cs \in Seq(Seq(Metrics)) /\ DOMAIN cs = 1..Len(cs) /\ Len(cs) \in Nat
      /\ \A i \in 1..Len(cs) : cs[i] \in Seq(Metrics) /\ cs[i] # <<>> /\ IsInjective(cs[i])
                               /\ cs[i] \in ToSet(cs)
  <2>1. cs \in Seq(Seq(Metrics))
    BY <1>2 DEF Apart
  <2>2. DOMAIN cs = 1..Len(cs) /\ Len(cs) \in Nat /\ \A i \in 1..Len(cs) : cs[i] \in Seq(Metrics)
    BY <2>1
  <2> QED BY <1>2, <2>1, <2>2 DEF Apart, ToSet
<1>4. DOMAIN Compiled = 1..Len(cs) /\ \A i \in 1..Len(cs) : Compiled[i] = CompiledGroups(cs[i])
  BY <1>1, <1>3 DEF Compiled
<1>5. ASSUME NEW i \in 1..Len(cs)
      PROVE  /\ Apart(Compiled[i], ToSet(cs[i]))
             /\ \A g \in ToSet(Compiled[i]) : Compiles(g) /\ (Compiles(cs[i]) => g = cs[i])
  <2>1. PICK c \in Seq(Metrics) : c = cs[i] /\ IsInjective(c) /\ c # <<>>
    BY <1>3
  <2>2. ~Unplannable(c)
    BY <1>1, <1>3, <2>1 DEF Plannable
  <2>3. Apart(CompiledGroups(c), ToSet(c))
    BY <2>1, <2>2, CompiledApart
  <2>4. \A g \in ToSet(CompiledGroups(c)) : Compiles(g) /\ (Compiles(c) => g = c)
    BY <2>1, <2>2, CompiledApart
  <2> QED BY <1>4, <2>1, <2>3, <2>4
<1>6. Compiled \in Seq(Seq(Seq(Metrics))) /\ Len(Compiled) = Len(cs)
  <2>1. \A i \in 1..Len(cs) : Compiled[i] \in Seq(Seq(Metrics))
    BY <1>5 DEF Apart
  <2>2. Compiled = [i \in 1..Len(cs) |-> Compiled[i]]
    BY <1>1, <1>3 DEF Compiled
  <2>3. PICK f : f = Compiled
    BY Zenon
  <2>4. PICK k \in Nat : k = Len(cs)
    BY <1>3
  <2>5. f \in [1..k -> Seq(Seq(Metrics))]
    BY <2>1, <2>2, <2>3, <2>4
  <2>6. PICK X : X = Seq(Seq(Metrics))
    OBVIOUS
  <2>7. f \in [1..k -> X]
    BY <2>5, <2>6
  <2>8. f \in Seq(X) /\ Len(f) = k
    BY <2>7
  <2> QED BY <2>3, <2>4, <2>6, <2>8
<1>7. ASSUME NEW i \in 1..Len(cs), NEW g \in ToSet(Compiled[i]) PROVE ToSet(g) \subseteq ToSet(cs[i])
  <2>1. PICK hs : hs = Compiled[i]
    OBVIOUS
  <2>2. Apart(hs, ToSet(cs[i]))
    BY <1>5, <2>1
  <2>3. hs \in Seq(Seq(Metrics))
    BY <2>2 DEF Apart
  <2>4. PICK k \in 1..Len(hs) : g = hs[k]
    BY <2>1, <2>3 DEF ToSet
  <2> QED BY <2>2, <2>4 DEF Apart
<1> QED BY <1>1, <1>5, <1>6, <1>7 DEF AllApart

\* Metrics have one path exactly if the same was asked of them.
LEMMA AskedIsPath ==
    ASSUME NEW m, NEW n PROVE Path(request, m) = Path(request, n) <=> Asked(m) = Asked(n)
<1> DEFINE D == DOMAIN request.groupBy
           P(k, i) == Path(request, k)[i]
           token(k, i) == Selection(request.groupBy[i], k).option[2]
           grain(k, i) == Selection(request.groupBy[i], k).grain
<1>1. \A k : Path(request, k) = [i \in D |-> <<token(k, i), token(k, i) \in TimeTokens, grain(k, i)>>]
  BY DEF Path, Dimension
<1>2. \A k : Asked(k) = [i \in D |-> <<token(k, i), grain(k, i)>>]
  BY DEF Asked, Selection
<1> HIDE DEF D, token, grain
<1>3. Path(request, m) = Path(request, n)
      <=> \A i \in D : token(m, i) = token(n, i) /\ grain(m, i) = grain(n, i)
  <2>1. \A i \in D : Path(request, m)[i] = <<token(m, i), token(m, i) \in TimeTokens, grain(m, i)>>
    BY <1>1
  <2>2. \A i \in D : Path(request, n)[i] = <<token(n, i), token(n, i) \in TimeTokens, grain(n, i)>>
    BY <1>1
  <2>3. ASSUME Path(request, m) = Path(request, n), NEW i \in D
        PROVE  token(m, i) = token(n, i) /\ grain(m, i) = grain(n, i)
    BY <2>1, <2>2, <2>3
  <2>4. ASSUME \A i \in D : token(m, i) = token(n, i) /\ grain(m, i) = grain(n, i)
        PROVE  Path(request, m) = Path(request, n)
    <3>1. \A i \in D : <<token(m, i), token(m, i) \in TimeTokens, grain(m, i)>>
                       = <<token(n, i), token(n, i) \in TimeTokens, grain(n, i)>>
      BY <2>4
    <3> QED BY <1>1, <3>1
  <2> QED BY <2>3, <2>4
<1>4. Asked(m) = Asked(n)
      <=> \A i \in D : token(m, i) = token(n, i) /\ grain(m, i) = grain(n, i)
  <2>1. \A i \in D : Asked(m)[i] = <<token(m, i), grain(m, i)>> /\ Asked(n)[i] = <<token(n, i), grain(n, i)>>
    BY <1>2
  <2>3. ASSUME Asked(m) = Asked(n), NEW i \in D
        PROVE  token(m, i) = token(n, i) /\ grain(m, i) = grain(n, i)
    BY <2>1, <2>3
  <2>4. ASSUME \A i \in D : token(m, i) = token(n, i) /\ grain(m, i) = grain(n, i)
        PROVE  Asked(m) = Asked(n)
    <3>1. \A i \in D : <<token(m, i), grain(m, i)>> = <<token(n, i), grain(n, i)>>
      BY <2>4
    <3> QED BY <1>2, <3>1
  <2> QED BY <2>3, <2>4
<1> QED BY <1>3, <1>4

\* A metric can be grouped by what was asked of it: its options say so.
LEMMA AskedIsReachable ==
    ASSUME CanPlan(request), NEW m \in ToSet(request.metrics), NEW i \in DOMAIN request.groupBy
    PROVE  Asked(m)[i][1] \in Reach[m] \cup {MetricTime}
<1> DEFINE item == request.groupBy[i]
           option == Selection(item, m).option
<1>1. Asked(m)[i][1] = option[2]
  BY DEF Asked, Selection
<1>2. option \in DOMAIN OptionsOf(request, item, m)
  BY DEF CanPlan, Selectable
<1>3. PICK metrics : /\ m \in ToSet(metrics)
                     /\ OptionsOf(request, item, m) = ResolvedDimensions(metrics)
  <2>1. m \in ToSet(<<m>>)
    BY DEF ToSet
  <2> QED BY <2>1 DEF OptionsOf
<1> HIDE DEF option
<1>4. option \in {metrics} \X AvailableTokens(metrics)
  BY <1>2, <1>3 DEF ResolvedDimensions
<1>5. option[2] \in AvailableTokens(metrics)
  BY <1>4
<1> QED BY <1>1, <1>3, <1>5 DEF AvailableTokens

\* Without bindings the same is asked of all metrics.
LEMMA AskedOfAll ==
    ASSUME ~HasBindings(request), NEW m, NEW n PROVE Asked(m) = Asked(n)
BY DEF HasBindings, Asked

\* So the groups of the statement are sound.
LEMMA CompileIsSound ==
    ASSUME RequestIsNormal, PlanIsOfRequest, Plannable
    PROVE  SoundGroups(FlattenSeq(Compiled)) /\ FlattenSeq(Compiled) \in Seq(Seq(Metrics))
<1> DEFINE S == ToSet(request.metrics)
           n == Len(plan.candidates)
<1>1. PICK gs : gs = FlattenSeq(Compiled)
  OBVIOUS
<1>2. Apart(gs, S) /\ \A g \in ToSet(gs) : \E i \in 1..n : g \in ToSet(Compiled[i])
  <2>1. Apart(plan.candidates, S) /\ AllApart(plan.candidates, Compiled)
    BY PlannedApart, CompiledAllApart
  <2> HIDE DEF S
  <2> QED BY <1>1, <2>1, FlattenApart
<1>3. IsInjective(FlattenSeq(gs)) /\ ToSet(FlattenSeq(gs)) = S
  BY <1>2, ApartIs
<1>4. \A i \in 1..n : \A g \in ToSet(Compiled[i]) :
        /\ Compiles(g) /\ ToSet(g) \subseteq ToSet(plan.candidates[i])
        /\ Compiles(plan.candidates[i]) => g = plan.candidates[i]
  BY CompiledAllApart
<1>5. \A i \in 1..n : ToSet(plan.candidates[i]) \subseteq S
  <2>1. Apart(plan.candidates, S)
    BY PlannedApart
  <2> QED BY <2>1 DEF Apart
<1>6. ASSUME NEW i \in 1..n, NEW m \in ToSet(plan.candidates[i]), NEW k \in S
      PROVE  k \in ToSet(plan.candidates[i]) <=> Asked(k) = Asked(m)
  <2>1. CASE plan.bound
    <3>1. PICK cs : cs = plan.candidates
      OBVIOUS
    <3>2. OnePath(request, cs) /\ Apart(cs, S)
      BY <2>1, <3>1, PlannedApart
    <3>3. PICK j \in 1..n : k \in ToSet(cs[j])
      BY <3>1, <3>2 DEF Apart
    <3>4. Path(request, m) = Path(request, cs[i][1]) /\ Path(request, k) = Path(request, cs[j][1])
      BY <3>1, <3>2, <3>3 DEF OnePath
    <3>5. k \in ToSet(cs[i]) => j = i
      BY <3>1, <3>2, <3>3 DEF Apart
    <3>6. j # i => Path(request, cs[i][1]) # Path(request, cs[j][1])
      BY <3>1, <3>2 DEF OnePath
    <3>7. k \in ToSet(cs[i]) <=> Path(request, k) = Path(request, m)
      BY <3>3, <3>4, <3>5, <3>6
    <3> QED BY <3>1, <3>7, AskedIsPath
  <2>2. CASE ~plan.bound
    <3>1. plan.candidates = <<request.metrics>> /\ ~HasBindings(request)
      BY <2>2, PlannedApart DEF PlanIsOfRequest
    <3>2. n = 1 /\ plan.candidates[1] = request.metrics
      BY <3>1
    <3>3. plan.candidates[i] = request.metrics
      BY <3>2
    <3> QED BY <3>1, <3>3, AskedOfAll
  <2> QED BY <2>1, <2>2
<1>7. ASSUME NEW g \in ToSet(gs)
      PROVE  /\ ToSet(g) \in compilable
             /\ \A m \in ToSet(g) :
                  /\ \A i \in DOMAIN request.groupBy : Asked(m)[i][1] \in Reach[m] \cup {MetricTime}
                  /\ \A k \in ToSet(g) : Asked(k) = Asked(m)
                  /\ LET alike == {k \in S : Asked(k) = Asked(m)}
                     IN  alike \in compilable => ToSet(g) = alike
  <2>1. PICK i \in 1..n : g \in ToSet(Compiled[i])
    BY <1>2
  <2>2. Compiles(g) /\ ToSet(g) \subseteq ToSet(plan.candidates[i])
        /\ (Compiles(plan.candidates[i]) => g = plan.candidates[i])
    BY <1>4, <2>1
  <2> SUFFICES ASSUME NEW m \in ToSet(g)
               PROVE  /\ \A j \in DOMAIN request.groupBy : Asked(m)[j][1] \in Reach[m] \cup {MetricTime}
                      /\ \A k \in ToSet(g) : Asked(k) = Asked(m)
                      /\ LET alike == {k \in S : Asked(k) = Asked(m)}
                         IN  alike \in compilable => ToSet(g) = alike
    BY <2>2 DEF Compiles
  <2>3. m \in ToSet(plan.candidates[i]) /\ m \in S
    BY <1>5, <2>2
  <2>4. \A j \in DOMAIN request.groupBy : Asked(m)[j][1] \in Reach[m] \cup {MetricTime}
    BY <2>3, AskedIsReachable DEF PlanIsOfRequest
  <2>5. \A k \in S : k \in ToSet(plan.candidates[i]) <=> Asked(k) = Asked(m)
    BY <1>6, <2>3
  <2>6. \A k \in ToSet(g) : Asked(k) = Asked(m)
    BY <1>5, <2>2, <2>5
  <2>7. {k \in S : Asked(k) = Asked(m)} = ToSet(plan.candidates[i])
    BY <1>5, <2>5
  <2>8. ToSet(plan.candidates[i]) \in compilable => ToSet(g) = ToSet(plan.candidates[i])
    BY <2>2 DEF Compiles
  <2> QED BY <2>4, <2>6, <2>7, <2>8
<1>8. SoundGroups(gs)
  <2>1. IsInjective(FlattenSeq(gs)) /\ ToSet(FlattenSeq(gs)) = ToSet(request.metrics)
    BY <1>3
  <2>2. ASSUME NEW g \in ToSet(gs)
        PROVE  /\ ToSet(g) \in compilable
               /\ \A m \in ToSet(g) :
                    /\ \A i \in DOMAIN request.groupBy : Asked(m)[i][1] \in Reach[m] \cup {MetricTime}
                    /\ \A k \in ToSet(g) : Asked(k) = Asked(m)
                    /\ LET alike == {k \in ToSet(FlattenSeq(gs)) : Asked(k) = Asked(m)}
                       IN  alike \in compilable => ToSet(g) = alike
    <3>1. ToSet(FlattenSeq(gs)) = S
      BY <1>3
    <3> HIDE DEF S
    <3> QED BY <1>7, <3>1
  <2> QED BY <2>1, <2>2, Zenon DEF SoundGroups
<1> QED BY <1>1, <1>2, <1>8 DEF Apart

-----------------------------------------------------------------------------
(* The statement and its answer.                                              *)

\* NULL joins NULL: the keys that are aligned are the same.
LEMMA AlignedIsSame ==
    ASSUME NEW D, NEW k \in [D -> Values], NEW l \in [D -> Values]
    PROVE  Aligned(k, l) <=> k = l
<1>1. Aligned(k, l) <=> \A i \in D : k[i] = l[i]
  BY DEF Aligned, SqlEquals
<1> QED BY <1>1

\* The results of n groups, with keys of columns D.
AreTables(D, n, tables) ==
    /\ n \in Nat /\ DOMAIN tables = 1..n /\ Len(tables) = n
    /\ \A i \in 1..n : DOMAIN tables[i] \subseteq [D -> Values]

\* The row of a key, with what the first i groups have for it.
FromOf(k, tables, i) == [j \in 1..i |-> IF k \in DOMAIN tables[j] THEN {k} ELSE {}]
RowOf(k, tables, i) == [key |-> k, from |-> FromOf(k, tables, i)]
RowsOf(K, tables, i) == {RowOf(k, tables, i) : k \in K}

\* One more group adds its own row for the key, or none.
LEMMA FromGrows ==
    ASSUME NEW k, NEW tables, NEW i \in Nat \ {0}
    PROVE  Append(FromOf(k, tables, i - 1), IF k \in DOMAIN tables[i] THEN {k} ELSE {})
           = FromOf(k, tables, i)
<1> DEFINE X == {{k}, {}}
           f == FromOf(k, tables, i - 1)
           g == FromOf(k, tables, i)
           x == IF k \in DOMAIN tables[i] THEN {k} ELSE {}
<1>1. f \in Seq(X) /\ Len(f) = i - 1 /\ \A j \in 1..(i - 1) : f[j] = g[j]
  BY DEF FromOf
<1>2. g \in Seq(X) /\ Len(g) = i /\ g[i] = x
  BY DEF FromOf
<1>3. x \in X
  OBVIOUS
<1> HIDE DEF f, g, x, X
<1>4. /\ Append(f, x) \in Seq(X) /\ Len(Append(f, x)) = i
      /\ \A j \in 1..i : Append(f, x)[j] = g[j]
  BY <1>1, <1>2, <1>3
<1>5. Append(f, x) = g
  BY <1>2, <1>4, SeqEqual
<1> QED BY <1>5 DEF f, g, x

\* One more group finds its own row for the key, or none.
LEMMA LeftJoinIs ==
    ASSUME NEW D, NEW n, NEW tables, AreTables(D, n, tables), NEW i \in 1..n,
           NEW K \in SUBSET [D -> Values]
    PROVE  LeftJoin(RowsOf(K, tables, i - 1), tables[i]) = RowsOf(K, tables, i)
<1> DEFINE table == tables[i]
           Of(row) == LET matches == {l \in DOMAIN table : Aligned(row.key, l)}
                      IN  {[key |-> row.key, from |-> Append(row.from, found)] :
                               found \in IF matches = {} THEN {{}} ELSE {{l} : l \in matches}}
<1>0. n \in Nat /\ i \in Nat \ {0} /\ DOMAIN table \subseteq [D -> Values]
  BY DEF AreTables
<1>1. ASSUME NEW k \in K PROVE Of(RowOf(k, tables, i - 1)) = {RowOf(k, tables, i)}
  <2> DEFINE row == RowOf(k, tables, i - 1)
             matches == {l \in DOMAIN table : Aligned(k, l)}
             found == IF k \in DOMAIN table THEN {k} ELSE {}
  <2>1. \A l \in DOMAIN table : Aligned(k, l) <=> k = l
    <3>1. k \in [D -> Values]
      OBVIOUS
    <3> QED BY <1>0, <3>1, AlignedIsSame
  <2>2. matches = found
    BY <2>1
  <2>3. (IF matches = {} THEN {{}} ELSE {{l} : l \in matches}) = {found}
    BY <2>2
  <2>4. row.key = k /\ row.from = FromOf(k, tables, i - 1)
    BY DEF RowOf
  <2>5. Append(row.from, found) = FromOf(k, tables, i)
    <3>1. Append(FromOf(k, tables, i - 1), IF k \in DOMAIN tables[i] THEN {k} ELSE {}) = FromOf(k, tables, i)
      BY <1>0, FromGrows
    <3> QED BY <2>4, <3>1
  <2>6. Of(row) = {[key |-> row.key, from |-> Append(row.from, f)] :
                       f \in IF matches = {} THEN {{}} ELSE {{l} : l \in matches}}
    BY <2>4
  <2> HIDE DEF row, matches, found, Of
  <2>7. Of(row) = {[key |-> k, from |-> Append(row.from, found)]}
    BY <2>3, <2>4, <2>6
  <2> QED BY <2>5, <2>7 DEF RowOf, row
<1>2. LeftJoin(RowsOf(K, tables, i - 1), table) = UNION {Of(row) : row \in RowsOf(K, tables, i - 1)}
  BY DEF LeftJoin
<1> HIDE DEF Of, table
<1>3. UNION {Of(row) : row \in RowsOf(K, tables, i - 1)} = RowsOf(K, tables, i)
  BY <1>1 DEF RowsOf
<1> QED BY <1>2, <1>3 DEF table

\* The statement has one row for each key that any group has.
LEMMA JoinedIs ==
    ASSUME NEW D, NEW n, NEW tables, AreTables(D, n, tables), NEW K,
           K = UNION {DOMAIN tables[i] : i \in DOMAIN tables}
    PROVE  Joined(tables) = RowsOf(K, tables, n)
<1>0. n \in Nat /\ DOMAIN tables = 1..n /\ Len(tables) = n /\ K \in SUBSET [D -> Values]
  BY DEF AreTables
<1>1. CASE n = 1
  <2>1. DOMAIN tables = {1}
    BY <1>0, <1>1
  <2>2. K = DOMAIN tables[1]
    BY <2>1
  <2>3. ASSUME NEW k \in K PROVE <<{k}>> = FromOf(k, tables, 1)
    <3> DEFINE f == FromOf(k, tables, 1)
    <3>1. f \in Seq({{k}}) /\ Len(f) = 1 /\ f[1] = {k}
      BY <2>2 DEF FromOf
    <3>2. <<{k}>> \in Seq({{k}}) /\ Len(<<{k}>>) = 1 /\ <<{k}>>[1] = {k}
      OBVIOUS
    <3> HIDE DEF f
    <3>3. <<{k}>> = f
      BY <3>1, <3>2, SeqEqual
    <3> QED BY <3>3 DEF f
  <2>4. Joined(tables) = {[key |-> k, from |-> <<{k}>>] : k \in K}
    BY <1>0, <1>1, <2>2 DEF Joined
  <2> QED BY <1>1, <2>3, <2>4 DEF RowsOf, RowOf
<1>2. CASE n # 1
  <2> DEFINE Start == {[key |-> k, from |-> <<>>] : k \in UNION {DOMAIN tables[j] : j \in DOMAIN tables}}
             Solves(f, m) == f = [i \in 0..m |-> IF i = 0 THEN Start ELSE LeftJoin(f[i - 1], tables[i])]
             rows == [i \in 0..n |-> RowsOf(K, tables, i)]
             joined == CHOOSE f : Solves(f, n)
  <2>1. Start = RowsOf(K, tables, 0)
    <3>1. \A k \in K : FromOf(k, tables, 0) = <<>>
      <4> TAKE k \in K
      <4>1. FromOf(k, tables, 0) \in Seq({{k}, {}}) /\ Len(FromOf(k, tables, 0)) = 0
        BY DEF FromOf
      <4> QED BY <4>1, EmptySeq
    <3> QED BY <3>1 DEF RowsOf, RowOf
  <2>2. \A i \in 1..n : rows[i] = LeftJoin(rows[i - 1], tables[i])
    <3> TAKE i \in 1..n
    <3>1. i \in 0..n /\ i - 1 \in 0..n
      BY <1>0
    <3> QED BY <1>0, <3>1, LeftJoinIs
  <2> HIDE DEF Start
  <2>3. Solves(rows, n)
    <3> DEFINE h == [i \in 0..n |-> IF i = 0 THEN Start ELSE LeftJoin(rows[i - 1], tables[i])]
    <3>1. rows[0] = Start
      BY <1>0, <2>1
    <3>2. DOMAIN rows = 0..n /\ rows = [i \in 0..n |-> rows[i]]
      OBVIOUS
    <3> HIDE DEF rows
    <3>3. \A i \in 0..n : rows[i] = h[i]
      <4> TAKE i \in 0..n
      <4>1. i = 0 \/ (i \in 1..n /\ i # 0)
        BY <1>0
      <4> QED BY <2>2, <3>1, <4>1
    <3>4. rows = h
      BY <3>2, <3>3
    <3> QED BY <3>4
  <2>4. Solves(joined, n)
    <3> HIDE DEF Solves, rows
    <3> QED BY <2>3, Zenon
  <2>5. Joined(tables) = joined[n]
    BY <1>0, <1>2, Zenon DEF Joined, Start
  <2> HIDE DEF joined
  <2>6. joined[0] = Start /\ \A i \in 1..n : joined[i] = LeftJoin(joined[i - 1], tables[i])
    <3> DEFINE h == [i \in 0..n |-> IF i = 0 THEN Start ELSE LeftJoin(joined[i - 1], tables[i])]
    <3>1. joined = h
      BY <2>4
    <3>2. \A i \in 0..n : h[i] = IF i = 0 THEN Start ELSE LeftJoin(joined[i - 1], tables[i])
      OBVIOUS
    <3> HIDE DEF h
    <3>3. 0 \in 0..n /\ \A i \in 1..n : i \in 0..n /\ i # 0
      BY <1>0
    <3> QED BY <3>1, <3>2, <3>3, Zenon
  <2> DEFINE Good == {i \in 0..n : joined[i] = RowsOf(K, tables, i)}
  <2>7. 0 \in Good
    BY <1>0, <2>1, <2>6
  <2>8. ASSUME NEW i \in 0..n, i \in Good, i < n PROVE i + 1 \in Good
    <3>1. i + 1 \in 1..n /\ (i + 1) - 1 = i /\ i + 1 \in 0..n
      BY <1>0, <2>8
    <3>2. joined[i + 1] = LeftJoin(RowsOf(K, tables, i), tables[i + 1])
      BY <2>6, <2>8, <3>1
    <3>3. LeftJoin(RowsOf(K, tables, (i + 1) - 1), tables[i + 1]) = RowsOf(K, tables, i + 1)
      <4> DEFINE p == i + 1
      <4>1. p \in 1..n /\ K \in SUBSET [D -> Values]
        BY <1>0, <3>1
      <4> HIDE DEF p
      <4>2. LeftJoin(RowsOf(K, tables, p - 1), tables[p]) = RowsOf(K, tables, p)
        BY <4>1, LeftJoinIs
      <4> QED BY <4>2 DEF p
    <3> QED BY <3>1, <3>2, <3>3
  <2>9. n \in Good
    <3> HIDE DEF Good
    <3> QED BY <1>0, <2>7, <2>8, Forward
  <2> QED BY <2>5, <2>9
<1> QED BY <1>1, <1>2

\* The metrics of the groups, and the keys that any of them has.
Selected == UNION {ToSet(g) : g \in ToSet(groups)}

\* The tables of the groups hold what their metrics have.
TablesHold(has, tables) ==
    /\ AreTables(DOMAIN plan.columns, Len(groups), tables)
    /\ \A i \in 1..Len(groups) : \A m \in ToSet(groups[i]) :
         /\ m \in Selected /\ has[m] \subseteq DOMAIN tables[i]
         /\ \A k \in DOMAIN tables[i] : tables[i][k][m] = IF k \in has[m] THEN k ELSE Null
    /\ UNION {DOMAIN tables[i] : i \in DOMAIN tables} = UNION {has[m] : m \in DOMAIN has}

\* They hold what Table makes of them.
LEMMA TablesAre ==
    ASSUME NEW G, groups \in Seq(G), NEW has \in [Selected -> SUBSET Keys], NEW given,
           given = [i \in DOMAIN groups |-> Table(groups[i], has)]
    PROVE  TablesHold(has, given)
<1> DEFINE n == Len(groups)
           tables == [i \in DOMAIN groups |-> Table(groups[i], has)]
<1>1. n \in Nat /\ DOMAIN groups = 1..n /\ DOMAIN tables = 1..n /\ Len(tables) = n
  OBVIOUS
<1>2. \A i \in 1..n : groups[i] \in ToSet(groups)
  BY <1>1 DEF ToSet
<1>3. \A i \in 1..n : \A m \in ToSet(groups[i]) : m \in Selected
  BY <1>2 DEF Selected
<1>4. ASSUME NEW i \in 1..n
      PROVE  /\ DOMAIN tables[i] = UNION {has[m] : m \in ToSet(groups[i])}
             /\ \A m \in ToSet(groups[i]) : \A k \in DOMAIN tables[i] :
                    tables[i][k][m] = IF k \in has[m] THEN k ELSE Null
  <2>1. tables[i] = Table(groups[i], has)
    BY <1>1
  <2> HIDE DEF tables
  <2> QED BY <2>1 DEF Table
<1> HIDE DEF tables
<1>5. ASSUME NEW i \in 1..n PROVE DOMAIN tables[i] \subseteq [DOMAIN plan.columns -> Values]
  <2>1. \A m \in ToSet(groups[i]) : has[m] \subseteq Keys
    BY <1>3
  <2> QED BY <1>4, <2>1 DEF Keys
<1>6. AreTables(DOMAIN plan.columns, n, tables)
  BY <1>1, <1>5 DEF AreTables
<1>7. \A i \in 1..n : \A m \in ToSet(groups[i]) :
        m \in Selected /\ has[m] \subseteq DOMAIN tables[i]
  BY <1>3, <1>4
<1>8. ASSUME NEW k, NEW i \in DOMAIN tables, k \in DOMAIN tables[i]
      PROVE  \E m \in DOMAIN has : k \in has[m]
  <2>1. PICK m \in ToSet(groups[i]) : k \in has[m]
    BY <1>1, <1>4, <1>8
  <2> QED BY <1>1, <1>3, <2>1
<1>9. ASSUME NEW m \in DOMAIN has, NEW k \in has[m]
      PROVE  \E i \in DOMAIN tables : k \in DOMAIN tables[i]
  <2>1. PICK g \in ToSet(groups) : m \in ToSet(g)
    BY DEF Selected
  <2>2. PICK i \in 1..n : g = groups[i]
    BY <1>1, <2>1 DEF ToSet
  <2> QED BY <1>1, <1>7, <2>1, <2>2
<1>10. UNION {DOMAIN tables[i] : i \in DOMAIN tables} = UNION {has[m] : m \in DOMAIN has}
  BY <1>8, <1>9
<1>11. given = tables
  BY DEF tables
<1> QED BY <1>4, <1>6, <1>7, <1>10, <1>11 DEF TablesHold

\* Each metric is projected from the last group that has it: what it has for the key.
LEMMA ProjectedIs ==
    ASSUME NEW G, groups \in Seq(G), NEW has \in [Selected -> SUBSET Keys], NEW tables,
           tables = [i \in DOMAIN groups |-> Table(groups[i], has)], NEW k
    PROVE  LET row == RowOf(k, tables, Len(groups)) IN
           /\ Projected(row, tables).key = k
           /\ \A m \in Selected :
                Projected(row, tables).cells[m] = IF k \in has[m] THEN k ELSE Null
<1> DEFINE n == Len(groups)
           row == RowOf(k, tables, n)
<1>1. n \in Nat /\ DOMAIN groups = 1..n
  OBVIOUS
<1>2. row.key = k /\ \A i \in 1..n : row.from[i] = IF k \in DOMAIN tables[i] THEN {k} ELSE {}
  BY DEF RowOf, FromOf
<1>3. Projected(row, tables).key = k
  BY <1>2 DEF Projected
<1>4. \A i \in 1..n : \A m \in ToSet(groups[i]) :
          /\ has[m] \subseteq DOMAIN tables[i]
          /\ \A l \in DOMAIN tables[i] : tables[i][l][m] = IF l \in has[m] THEN l ELSE Null
  <2>1. TablesHold(has, tables)
    BY TablesAre
  <2> QED BY <2>1 DEF TablesHold
<1> HIDE DEF row
<1>5. ASSUME NEW m \in Selected
      PROVE  Projected(row, tables).cells[m] = IF k \in has[m] THEN k ELSE Null
  <2> DEFINE S == {j \in DOMAIN groups : m \in ToSet(groups[j])}
             i == Max(S)
  <2>1. i \in S
    <3>1. PICK g \in ToSet(groups) : m \in ToSet(g)
      BY DEF Selected
    <3>2. PICK j \in 1..n : g = groups[j]
      BY <1>1, <3>1 DEF ToSet
    <3>3. S # {}
      BY <1>1, <3>1, <3>2
    <3>4. S \in SUBSET (0..n)
      BY <1>1
    <3> HIDE DEF S
    <3> QED BY <1>1, <3>3, <3>4, MaxIn
  <2>2. Projected(row, tables).cells[m] =
            IF row.from[i] = {} THEN Null ELSE tables[i][CHOOSE l \in row.from[i] : TRUE][m]
    <3>1. m \in UNION {ToSet(g) : g \in ToSet(groups)}
      BY DEF Selected
    <3> QED BY <3>1 DEF Projected
  <2>3. i \in 1..n /\ m \in ToSet(groups[i])
    BY <1>1, <2>1
  <2> HIDE DEF i
  <2>4. CASE k \in DOMAIN tables[i]
    <3>1. row.from[i] = {k}
      BY <1>2, <2>3, <2>4
    <3>2. (CHOOSE l \in {k} : TRUE) = k
      OBVIOUS
    <3>3. Projected(row, tables).cells[m] = tables[i][k][m]
      BY <2>2, <3>1, <3>2
    <3> QED BY <1>4, <2>3, <2>4, <3>3
  <2>5. CASE k \notin DOMAIN tables[i]
    <3>1. row.from[i] = {}
      BY <1>2, <2>3, <2>5
    <3>2. k \notin has[m]
      BY <1>4, <2>3, <2>5
    <3> QED BY <2>2, <3>1, <3>2
  <2> QED BY <2>4, <2>5
<1> QED BY <1>3, <1>5 DEF row

\* What a row of the statement becomes in the answer.
Answered(row, tables) == <<row.from, Projected(row, tables)>>

\* The answer has a row for each key, up to the limit, with what each metric has.
LEMMA MergeAnswers ==
    ASSUME NEW G, groups \in Seq(G), IsFiniteSet(Keys), Merge
    PROVE  AnswersAreWhole'
<1>1. PICK has \in [Selected -> SUBSET Keys] :
        LET tables == [i \in DOMAIN groups |-> Table(groups[i], has)]
            joined == Joined(tables)
            fetched == Least(RowLimit + 1, Cardinality(joined))
        IN  /\ held' = has
            /\ \E rows \in kSubset(Least(RowLimit, fetched), joined) :
                 answer' = [rows |-> {<<row.from, Projected(row, tables)>> : row \in rows},
                            truncated |-> fetched > RowLimit]
  BY DEF Merge, Selected
<1> DEFINE n == Len(groups)
           given == [i \in DOMAIN groups |-> Table(groups[i], has)]
           K == UNION {has[m] : m \in DOMAIN has}
<1>2. PICK tables : tables = given
  OBVIOUS
<1>3. /\ AreTables(DOMAIN plan.columns, n, tables)
      /\ UNION {DOMAIN tables[i] : i \in DOMAIN tables} = K
  <2>1. TablesHold(has, tables)
    BY <1>2, TablesAre
  <2> QED BY <2>1 DEF TablesHold
<1>4. Joined(tables) = RowsOf(K, tables, n)
  <2> HIDE DEF K, n
  <2> QED BY <1>3, JoinedIs
<1>5. PICK fetched : fetched = Least(RowLimit + 1, Cardinality(RowsOf(K, tables, n)))
  OBVIOUS
<1>6. held' = has
  BY <1>1
<1>7. PICK rows \in kSubset(Least(RowLimit, fetched), RowsOf(K, tables, n)) :
        answer' = [rows |-> {Answered(row, tables) : row \in rows}, truncated |-> fetched > RowLimit]
  <2> HIDE DEF K, n
  <2> QED BY <1>1, <1>2, <1>4, <1>5 DEF Answered
<1>8. /\ \A k \in K : /\ Projected(RowOf(k, tables, n), tables).key = k
                      /\ \A m \in Selected : Projected(RowOf(k, tables, n), tables).cells[m]
                                             = IF k \in has[m] THEN k ELSE Null
  BY <1>2, ProjectedIs
<1>9. IsFiniteSet(K)
  <2>1. K \in SUBSET Keys
    OBVIOUS
  <2> QED BY <2>1, FS_Subset
<1> HIDE DEF K, n, given
<1>10. \A k \in K : RowOf(k, tables, n).key = k
  BY DEF RowOf
<1>11. /\ IsFiniteSet(RowsOf(K, tables, n))
       /\ Cardinality(RowsOf(K, tables, n)) = Cardinality(K)
  <2> DEFINE f == [k \in K |-> RowOf(k, tables, n)]
  <2>1. /\ f \in [K -> RowsOf(K, tables, n)]
        /\ \A t \in RowsOf(K, tables, n) : \E k \in K : f[k] = t
    BY DEF RowsOf
  <2>2. \A a, b \in K : f[a] = f[b] => a = b
    BY <1>10
  <2> HIDE DEF f
  <2> QED BY <1>9, <2>1, <2>2, AsLarge
<1>12. PICK c \in Nat : c = Cardinality(K)
  BY <1>9, FS_CardinalityType
<1>13. /\ rows \subseteq RowsOf(K, tables, n) /\ IsFiniteSet(rows)
       /\ Cardinality(rows) = Least(RowLimit, Least(RowLimit + 1, c))
       /\ fetched = Least(RowLimit + 1, c)
  <2>1. rows \in SUBSET RowsOf(K, tables, n) /\ Cardinality(rows) = Least(RowLimit, fetched)
    BY <1>7 DEF kSubset
  <2> QED BY <1>5, <1>11, <1>12, <2>1, FS_Subset
<1>14. Cardinality(rows) = Least(RowLimit, c) /\ (fetched > RowLimit <=> c > RowLimit)
  BY <1>13, ValueAssumption DEF Least
<1>15. \A row \in rows : \E k \in K : row = RowOf(k, tables, n)
  BY <1>13 DEF RowsOf
<1>16. \A row \in rows : Answered(row, tables)[2].key = row.key
  BY <1>8, <1>10, <1>15 DEF Answered
<1>17. \A a, b \in rows : a.key = b.key => a = b
  BY <1>10, <1>15
<1> DEFINE answers == {Answered(row, tables) : row \in rows}
           keysOf == {row.key : row \in {r[2] : r \in answers}}
<1>18. Cardinality(answers) = Cardinality(rows)
  <2> DEFINE f == [row \in rows |-> Answered(row, tables)]
  <2>1. f \in [rows -> answers] /\ \A t \in answers : \E row \in rows : f[row] = t
    OBVIOUS
  <2>2. \A a, b \in rows : f[a] = f[b] => a = b
    BY <1>16, <1>17
  <2> HIDE DEF f, answers
  <2> QED BY <1>13, <2>1, <2>2, AsLarge
<1>19. Cardinality(keysOf) = Cardinality(rows)
  <2> DEFINE f == [row \in rows |-> row.key]
  <2>1. \A row \in rows : row.key \in keysOf
    BY <1>16
  <2>2. \A t \in keysOf : \E row \in rows : row.key = t
    BY <1>16
  <2>3. f \in [rows -> keysOf] /\ \A t \in keysOf : \E row \in rows : f[row] = t
    BY <2>1, <2>2
  <2>4. \A a, b \in rows : f[a] = f[b] => a = b
    BY <1>17
  <2> HIDE DEF f, answers, keysOf
  <2> QED BY <1>13, <2>3, <2>4, AsLarge
<1>20. ASSUME NEW r \in answers
       PROVE  /\ r[2].key \in K
              /\ \A m \in Selected : r[2].cells[m] = IF r[2].key \in has[m] THEN r[2].key ELSE Null
  <2>1. PICK row \in rows : r = Answered(row, tables)
    OBVIOUS
  <2>2. PICK k \in K : row = RowOf(k, tables, n)
    BY <1>15
  <2>3. r[2] = Projected(RowOf(k, tables, n), tables)
    BY <2>1, <2>2 DEF Answered
  <2> QED BY <1>8, <2>3
<1>21. /\ answer'.rows = answers /\ answer'.truncated = (fetched > RowLimit) /\ DOMAIN has = Selected
  BY <1>7
<1> HIDE DEF answers
<1>22. ASSUME NEW row \in {r[2] : r \in answer'.rows}
       PROVE  /\ row.key \in K
              /\ \A m \in DOMAIN held' : row.cells[m] = IF row.key \in held'[m] THEN row.key ELSE Null
  <2>1. PICK r \in answers : row = r[2]
    BY <1>21
  <2> QED BY <1>6, <1>20, <1>21, <2>1
<1>24. Cardinality({row.key : row \in {r[2] : r \in answer'.rows}}) = Cardinality(answer'.rows)
  BY <1>18, <1>19, <1>21
<1>25. Cardinality(answer'.rows) = Least(RowLimit, Cardinality(K))
  BY <1>12, <1>14, <1>18, <1>21
<1>26. answer'.truncated <=> Cardinality(K) > RowLimit
  BY <1>12, <1>14, <1>21
<1>23. K = UNION {held'[m] : m \in DOMAIN held'}
  BY <1>6 DEF K
<1> QED BY <1>22, <1>23, <1>24, <1>25, <1>26 DEF AnswersAreWhole

-----------------------------------------------------------------------------
(* The inductive invariant of a query, and its theorems.                      *)

\* The columns are numbered.
ColumnsAreListed == \E n \in Nat : DOMAIN plan.columns = 1..n

QueryInductive ==
    /\ RequestIsNormal
    /\ stage = "planned" => PlanIsOfRequest
    /\ ColumnsAreListed
    /\ groups \in Seq(Seq(Metrics))
    /\ AnswersAreWhole

NoRows == RequestIsNormal /\ ColumnsAreListed /\ groups \in Seq(Seq(Metrics))

\* The invariant holds at first.
LEMMA QueryBegins == QueryInit => QueryInductive
<1> SUFFICES ASSUME QueryInit PROVE QueryInductive
  OBVIOUS
<1>1. request.metrics = <<>> /\ request.groupBy = <<>>
  BY DEF QueryInit, NoRequest
<1>2. RequestIsNormal
  BY <1>1 DEF RequestIsNormal, IsInjective
<1>3. ColumnsAreListed
  <2>1. DOMAIN plan.columns = 1..0 /\ 0 \in Nat
    BY DEF QueryInit, NoPlan
  <2> QED BY <2>1 DEF ColumnsAreListed
<1>4. groups \in Seq(Seq(Metrics)) /\ stage = "requested"
  BY DEF QueryInit
<1> QED BY <1>2, <1>3, <1>4 DEF QueryInductive, AnswersAreWhole

\* A request is normalised, whatever the client sends.
LEMMA RequestStep == ASSUME QueryInductive, Request PROVE QueryInductive'
<1>1. PICK r \in Queries : request' = [r EXCEPT !.metrics = Normalized(r.metrics)]
  BY DEF Request
<1>2. r.groupBy \in Seq(ToSet(r.groupBy))
      /\ r = [metrics |-> r.metrics, groupBy |-> r.groupBy, filter |-> r.filter, order |-> r.order]
  BY QueryAssumption
<1>3. request'.metrics = Normalized(r.metrics) /\ request'.groupBy = r.groupBy
  BY <1>1, <1>2
<1>4. RequestIsNormal'
  BY <1>2, <1>3, NormalizedIs DEF RequestIsNormal
<1> QED BY <1>4 DEF Request, QueryInductive, ColumnsAreListed, AnswersAreWhole

\* What is planned is for this request.
LEMMA PlanStep == ASSUME QueryInductive, Plan PROVE QueryInductive'
<1>0. RequestIsNormal /\ ColumnsAreListed /\ groups \in Seq(Seq(Metrics)) /\ UNCHANGED groups
  BY DEF QueryInductive, Plan
<1>1. CASE CanPlan(request)
  <2>1. /\ stage' = "planned" /\ UNCHANGED request
        /\ plan' = [bound |-> HasBindings(request), candidates |-> Candidates(request),
                    columns |-> Columns(request, Last(request.metrics)), order |-> request.order]
        /\ compilable' \subseteq (SUBSET ToSet(request.metrics)) \ {{}}
    BY <1>1 DEF Plan
  <2>2. PlanIsOfRequest'
    <3>1. CanPlan(request)' /\ Candidates(request)' = Candidates(request)
          /\ HasBindings(request)' = HasBindings(request) /\ ToSet(request.metrics)' = ToSet(request.metrics)
      BY <1>1, <2>1
    <3>2. plan'.candidates = Candidates(request) /\ plan'.bound = HasBindings(request)
      BY <2>1
    <3> QED BY <2>1, <3>1, <3>2 DEF PlanIsOfRequest
  <2>3. ColumnsAreListed'
    <3>1. DOMAIN plan'.columns = DOMAIN request.groupBy
      BY <2>1 DEF Columns
    <3>2. PICK s : s = request.groupBy
      OBVIOUS
    <3>3. PICK X : s \in Seq(X)
      BY <1>0, <3>2 DEF RequestIsNormal
    <3>4. Len(s) \in Nat /\ DOMAIN s = 1..Len(s)
      BY <3>3
    <3> QED BY <3>1, <3>2, <3>4 DEF ColumnsAreListed
  <2> QED BY <1>0, <2>1, <2>2, <2>3 DEF QueryInductive, RequestIsNormal, AnswersAreWhole
<1>2. CASE ~CanPlan(request)
  <2>1. stage' = "refused" /\ request' = NoRequest /\ UNCHANGED plan
    BY <1>2 DEF Plan
  <2>2. RequestIsNormal'
    BY <2>1 DEF RequestIsNormal, IsInjective, NoRequest
  <2> QED BY <1>0, <2>1, <2>2 DEF QueryInductive, ColumnsAreListed, AnswersAreWhole
<1> QED BY <1>1, <1>2

\* A compilation that ends in groups had a plannable plan.
LEMMA CompileGroups ==
    ASSUME Compile
    PROVE  \/ stage' = "refused" /\ UNCHANGED groups
           \/ stage' = "compiled" /\ Plannable /\ groups' = FlattenSeq(Compiled)
BY DEF Compile, Plannable, Compiled

\* The request and the plan are dropped, the groups are known.
LEMMA CompileStep == ASSUME QueryInductive, Compile PROVE QueryInductive'
<1>1. /\ stage = "planned" /\ request' = NoRequest
      /\ plan' = [NoPlan EXCEPT !.columns = plan.columns]
  BY DEF Compile
<1>2. RequestIsNormal'
  BY <1>1 DEF RequestIsNormal, IsInjective, NoRequest
<1>3. ColumnsAreListed'
  BY <1>1 DEF QueryInductive, ColumnsAreListed, NoPlan
<1>4. groups' \in Seq(Seq(Metrics))
  BY <1>1, CompileGroups, CompileIsSound DEF QueryInductive
<1>5. stage' \in {"refused", "compiled"}
  BY CompileGroups
<1> QED BY <1>2, <1>3, <1>4, <1>5 DEF QueryInductive, AnswersAreWhole

\* The finitely many keys are merged.
LEMMA MergeStep == ASSUME QueryInductive, Merge PROVE QueryInductive'
<1>1. stage' = "answered" /\ UNCHANGED <<request, plan, groups>>
  BY DEF Merge
<1>2. IsFiniteSet(Keys)
  <2>1. PICK n \in Nat : DOMAIN plan.columns = 1..n
    BY DEF QueryInductive, ColumnsAreListed
  <2>2. IsFiniteSet([1..n -> Values])
    BY ValueAssumption, FiniteFunctions
  <2> QED BY <2>1, <2>2 DEF Keys
<1>3. AnswersAreWhole'
  BY <1>2, MergeAnswers DEF QueryInductive
<1> QED BY <1>1, <1>3 DEF QueryInductive, RequestIsNormal, ColumnsAreListed

\* The invariant: a request is normal, a plan is the plan of its request, and an
\* answer is whole.
THEOREM QueryInductiveHolds== QuerySpec => []QueryInductive
<1>1. ASSUME QueryInductive, UNCHANGED queryVars PROVE QueryInductive'
  <2>1. UNCHANGED <<stage, request, plan, compilable, groups, held, answer>>
    BY <1>1 DEF queryVars
  <2>2. CanPlan(request)' = CanPlan(request) /\ Candidates(request)' = Candidates(request)
        /\ HasBindings(request)' = HasBindings(request) /\ ToSet(request.metrics)' = ToSet(request.metrics)
    BY <2>1
  <2>3. PlanIsOfRequest' = PlanIsOfRequest
    BY <2>1, <2>2 DEF PlanIsOfRequest
  <2>4. RequestIsNormal' = RequestIsNormal /\ ColumnsAreListed' = ColumnsAreListed
    BY <2>1 DEF RequestIsNormal, ColumnsAreListed
  <2>5. AnswersAreWhole' = AnswersAreWhole
    BY <2>1 DEF AnswersAreWhole
  <2> QED BY <1>1, <2>1, <2>3, <2>4, <2>5 DEF QueryInductive
<1>2. QueryInductive /\ [QueryNext]_queryVars => QueryInductive'
  BY <1>1, RequestStep, PlanStep, CompileStep, MergeStep DEF QueryNext
<1> QED BY <1>2, QueryBegins, PTL DEF QuerySpec

\* The merged statement answers what each metric would answer alone, also where
\* the key is NULL, only one group has it, or the answer is truncated.
THEOREM WholeAnswers == QuerySpec => []AnswersAreWhole
BY QueryInductiveHolds, PTL DEF QueryInductive

\* However MetricFlow refuses, each metric is in one statement, along its own path,
\* with all that share it if they compile together.
THEOREM SoundCompilation == QuerySpec => GroupsAreSound
<1>1. QueryInductive /\ [QueryNext]_queryVars
      => [stage = "planned" /\ stage' = "compiled" => SoundGroups(groups')]_queryVars
  <2> SUFFICES ASSUME QueryInductive, QueryNext, stage = "planned", stage' = "compiled"
               PROVE  SoundGroups(groups')
    OBVIOUS
  <2>1. Compile
    BY DEF QueryNext, Request, Plan, Merge
  <2>2. Plannable /\ groups' = FlattenSeq(Compiled)
    BY <2>1, CompileGroups
  <2>3. SoundGroups(FlattenSeq(Compiled))
    BY <2>2, CompileIsSound DEF QueryInductive
  <2> QED BY <2>2, <2>3
<1> QED BY <1>1, QueryInductiveHolds, PTL DEF QuerySpec, GroupsAreSound
=============================================================================
