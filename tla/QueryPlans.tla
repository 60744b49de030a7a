------------------------------ MODULE QueryPlans ------------------------------
(* A metric query on one sealed build: the options of application/            *)
(* query_plan.py, the plan of application/bound_query_plan.py, and the        *)
(* compilation and the one SQL statement of engines/bound_queries.py.         *)
(*                                                                            *)
(* A token names a dimension with its path through the model.  An option id   *)
(* is the hash of the build, the metrics it was offered for and a token; here *)
(* it is the pair of the last two.  The name of an unbound output column is   *)
(* its token, with the grain if there is one.                                 *)
(*                                                                            *)
(* MetricFlow plans what it can: which metrics it compiles into one statement *)
(* is any set of sets.  A statement it does compile returns one row for each  *)
(* key that any of its metrics has; NULL is a key like any other.             *)
EXTENDS Integers, SequencesExt, FiniteSetsExt

CONSTANTS
    MetricOrder,   \* the metrics of the build, in the order of their names
    Reach,         \* Reach[m]: tokens metric m can be grouped by
    TimeTokens,    \* the tokens of time dimensions
    MetricTime,    \* the token of metric_time
    Explained,     \* <<metrics, token, grain>> MetricFlow explains
    Queries,       \* the requests clients send
    Values,        \* the values of a dimension, NULL among them
    RowLimit,      \* limit of a request
    Null

VARIABLES
    stage,         \* requested, planned, compiled, answered or refused
    request,       \* the normalised request, until its statement is compiled
    plan,          \* the candidate groups and the output columns
    compilable,    \* the sets of metrics MetricFlow compiles together
    groups,        \* the compiled groups
    held,          \* held[m]: the keys for which metric m has a value
    answer         \* rows and result_truncated

queryVars == <<stage, request, plan, compilable, groups, held, answer>>

Metrics == ToSet(MetricOrder)

\* A build names a metric once; what a dimension has in the warehouse is finite.
ASSUME MetricAssumption == MetricOrder \in Seq(Metrics) /\ IsInjective(MetricOrder)
ASSUME QueryAssumption ==
    \A r \in Queries :
        /\ r = [metrics |-> r.metrics, groupBy |-> r.groupBy, filter |-> r.filter, order |-> r.order]
        /\ r.metrics \in Seq(Metrics)
        /\ r.groupBy \in Seq(ToSet(r.groupBy))
ASSUME ValueAssumption == IsFiniteSet(Values) /\ RowLimit \in Nat

NoRequest == [metrics |-> <<>>, groupBy |-> <<>>, filter |-> Null, order |-> Null]
NoPlan == [bound |-> FALSE, candidates |-> <<>>, columns |-> <<>>, order |-> Null]
NoAnswer == [rows |-> {}, truncated |-> FALSE]

--------------------------------------------------------------------------------
(* Options.                                                                   *)

\* normalize_query: the metrics in the order of their names, each once.
Normalized(metrics) ==
    LET named[i \in 0..Len(MetricOrder)] ==
            IF i = 0 THEN <<>>
            ELSE IF MetricOrder[i] \in ToSet(metrics) THEN Append(named[i - 1], MetricOrder[i])
            ELSE named[i - 1]
    IN named[Len(MetricOrder)]

\* The grains of a time dimension that hold for all the metrics together.
VerifiedGrains(metrics, token) ==
    {e[3] : e \in {e \in Explained : e[1] = ToSet(metrics) /\ e[2] = token}}

\* metric_time is offered if any grain of it is, also when MetricFlow does not
\* list it.
AvailableTokens(metrics) ==
    {t \in UNION {Reach[m] : m \in ToSet(metrics)} :
        \A m \in ToSet(metrics) : t \in Reach[m]}
    \cup {t \in {MetricTime} : VerifiedGrains(metrics, t) # {}}

\* The options a client is offered for these metrics.
ResolvedDimensions(metrics) ==
    [id \in {metrics} \X AvailableTokens(metrics) |->
        [token |-> id[2], time |-> id[2] \in TimeTokens,
         grains |-> IF id[2] \in TimeTokens THEN VerifiedGrains(metrics, id[2]) ELSE {}]]

--------------------------------------------------------------------------------
(* The plan.                                                                  *)

IsBound(item) == "name" \in DOMAIN item
HasBindings(r) == \E i \in DOMAIN r.groupBy : IsBound(r.groupBy[i])

\* A binding speaks of the options of its own metric, an unbound item of those
\* of all the metrics.
OptionsOf(r, item, m) ==
    IF IsBound(item) THEN ResolvedDimensions(<<m>>) ELSE ResolvedDimensions(r.metrics)

Selection(item, m) == IF IsBound(item) THEN item.bindings[m] ELSE item

\* Only a query with bindings insists on the grain of a time dimension.
Selectable(r, item, m) ==
    LET selected == Selection(item, m)
        options  == OptionsOf(r, item, m)
    IN  /\ selected.option \in DOMAIN options
        /\ selected.grain # Null => selected.grain \in options[selected.option].grains
        /\ HasBindings(r) /\ options[selected.option].time => selected.grain # Null

\* The dimension that metric m is grouped by for an item.
Dimension(item, m) ==
    LET selected == Selection(item, m)
    IN  [token |-> selected.option[2], grain |-> selected.grain,
         time |-> selected.option[2] \in TimeTokens,
         name |-> IF IsBound(item) THEN item.name
                  ELSE <<selected.option[2], selected.grain>>]

Columns(r, m) == [i \in DOMAIN r.groupBy |-> Dimension(r.groupBy[i], m).name]
Types(r, m) ==
    [i \in DOMAIN r.groupBy |->
        [time |-> Dimension(r.groupBy[i], m).time, grain |-> Dimension(r.groupBy[i], m).grain]]

\* The last item that has the field is the one that is ordered by.
OrderFields(r) ==
    ToSet(r.metrics) \cup
    {IF IsBound(item) THEN item.name ELSE item.option : item \in ToSet(r.groupBy)}

CanPlan(r) ==
    /\ \A m \in ToSet(r.metrics), i \in DOMAIN r.groupBy : Selectable(r, r.groupBy[i], m)
    /\ r.filter # Null => r.filter \in DOMAIN ResolvedDimensions(r.metrics)
    /\ r.order # Null => r.order \in OrderFields(r)
    /\ HasBindings(r) =>
         \A m \in ToSet(r.metrics) :
            /\ IsInjective(Columns(r, m))
            /\ ToSet(Columns(r, m)) \cap ToSet(r.metrics) = {}
            /\ Types(r, m) = Types(r, Last(r.metrics))

\* The signature of a candidate group.
Path(r, m) ==
    [i \in DOMAIN r.groupBy |->
        LET d == Dimension(r.groupBy[i], m) IN <<d.token, d.time, d.grain>>]

\* A metric joins the first of the partitions it fits, or begins one.
Placed(partitions, m, fits) ==
    IF fits = {} THEN Append(partitions, <<m>>)
    ELSE [partitions EXCEPT ![Min(fits)] = Append(@, m)]

\* The metrics with one path are one candidate; candidates come in the order of
\* their first metrics.
SamePath(r, candidates, m) ==
    {i \in DOMAIN candidates : Path(r, candidates[i][1]) = Path(r, m)}

Candidates(r) ==
    LET grouped[i \in 0..Len(r.metrics)] ==
            IF i = 0 THEN <<>>
            ELSE Placed(grouped[i - 1], r.metrics[i], SamePath(r, grouped[i - 1], r.metrics[i]))
    IN  IF HasBindings(r) THEN grouped[Len(r.metrics)] ELSE <<r.metrics>>

Request ==
    /\ stage = "requested"
    /\ request = NoRequest
    /\ \E r \in Queries : request' = [r EXCEPT !.metrics = Normalized(r.metrics)]
    /\ UNCHANGED <<stage, plan, compilable, groups, held, answer>>

Plan ==
    /\ stage = "requested"
    /\ request # NoRequest
    /\ IF CanPlan(request)
       THEN /\ stage' = "planned"
            /\ plan' = [bound |-> HasBindings(request), candidates |-> Candidates(request),
                        columns |-> Columns(request, Last(request.metrics)),
                        order |-> request.order]
            /\ compilable' \in SUBSET ((SUBSET ToSet(request.metrics)) \ {{}})
            /\ UNCHANGED request
       ELSE /\ stage' = "refused"
            /\ request' = NoRequest
            /\ UNCHANGED <<plan, compilable>>
    /\ UNCHANGED <<groups, held, answer>>

--------------------------------------------------------------------------------
(* compile_groups.                                                            *)

Compiles(metrics) == ToSet(metrics) \in compilable

Fitting(partitions, m) ==
    {i \in DOMAIN partitions : Compiles(Append(partitions[i], m))}

\* Fault: the metric goes on to the partitions that follow.
PlaceInAll(partitions, m) ==
    LET fits == Fitting(partitions, m)
    IN  IF fits = {} THEN Append(partitions, <<m>>)
        ELSE [i \in DOMAIN partitions |->
                IF i \in fits THEN Append(partitions[i], m) ELSE partitions[i]]

\* A metric joins the first partition that still compiles with it.
PlaceInFirst(partitions, m) == Placed(partitions, m, Fitting(partitions, m))

Split(candidate) ==
    LET split[i \in 0..Len(candidate)] ==
            IF i = 0 THEN <<>> ELSE PlaceInFirst(split[i - 1], candidate[i])
    IN  split[Len(candidate)]

CompiledGroups(candidate) ==
    IF Compiles(candidate) THEN <<candidate>> ELSE Split(candidate)

\* MetricFlow refuses the only metric of a candidate, or one that no partition
\* takes; a query without bindings is never split.
Unplannable(candidate) ==
    /\ ~Compiles(candidate)
    /\ \/ ~plan.bound
       \/ Len(candidate) = 1
       \/ \E g \in ToSet(Split(candidate)) : ~Compiles(<<g[1]>>)

Compile ==
    /\ stage = "planned"
    /\ IF \E candidate \in ToSet(plan.candidates) : Unplannable(candidate)
       THEN stage' = "refused" /\ UNCHANGED groups
       ELSE /\ stage' = "compiled"
            /\ groups' = FlattenSeq([i \in DOMAIN plan.candidates |->
                                        CompiledGroups(plan.candidates[i])])
    /\ request' = NoRequest
    /\ plan' = [NoPlan EXCEPT !.columns = plan.columns]
    /\ compilable' = {}
    /\ UNCHANGED <<held, answer>>

--------------------------------------------------------------------------------
(* merge_sql and serialize_rows.                                              *)

Keys == [DOMAIN plan.columns -> Values]

\* The result of one compiled group.
Table(group, has) ==
    [k \in UNION {has[m] : m \in ToSet(group)} |->
        [m \in ToSet(group) |-> IF k \in has[m] THEN k ELSE Null]]

SqlEquals(a, b) == a # Null /\ b # Null /\ a = b

\* Fault: the join compares with = alone.
AlignedPlainly(k, l) == \A i \in DOMAIN k : SqlEquals(k[i], l[i])

\* The predicate of the join.
Aligned(k, l) ==
    \A i \in DOMAIN k : SqlEquals(k[i], l[i]) \/ (k[i] = Null /\ l[i] = Null)

\* LEFT JOIN of one more group: from[i] is the row of group i, if one matches.
LeftJoin(rows, table) ==
    UNION {LET matches == {l \in DOMAIN table : Aligned(row.key, l)}
           IN  {[key |-> row.key, from |-> Append(row.from, found)] :
                    found \in IF matches = {} THEN {{}} ELSE {{l} : l \in matches}}
           : row \in rows}

\* One group is selected as it is; more are joined to the union of their keys.
Joined(tables) ==
    IF Len(tables) = 1
    THEN {[key |-> k, from |-> <<{k}>>] : k \in DOMAIN tables[1]}
    ELSE LET joined[i \in 0..Len(tables)] ==
                 IF i = 0 THEN {[key |-> k, from |-> <<>>] :
                                    k \in UNION {DOMAIN tables[j] : j \in DOMAIN tables}}
                 ELSE LeftJoin(joined[i - 1], tables[i])
         IN  joined[Len(tables)]

\* The columns of the statement: its key, and each metric from its own group.
Projected(row, tables) ==
    [key |-> row.key,
     cells |-> [m \in UNION {ToSet(g) : g \in ToSet(groups)} |->
        LET i == Max({j \in DOMAIN groups : m \in ToSet(groups[j])})
        IN  IF row.from[i] = {} THEN Null
            ELSE tables[i][CHOOSE l \in row.from[i] : TRUE][m]]]

Least(a, b) == IF a < b THEN a ELSE b

\* LIMIT limit + 1 tells whether there are more rows; ORDER BY says which they
\* are, and any may be.
Merge ==
    /\ stage = "compiled"
    /\ \E has \in [UNION {ToSet(g) : g \in ToSet(groups)} -> SUBSET Keys] :
         LET tables == [i \in DOMAIN groups |-> Table(groups[i], has)]
             joined == Joined(tables)
             fetched == Least(RowLimit + 1, Cardinality(joined))
         IN  /\ held' = has
             /\ \E rows \in kSubset(Least(RowLimit, fetched), joined) :
                  answer' = [rows |-> {<<row.from, Projected(row, tables)>> : row \in rows},
                             truncated |-> fetched > RowLimit]
    /\ stage' = "answered"
    /\ UNCHANGED <<request, plan, compilable, groups>>

QueryInit ==
    /\ stage = "requested"
    /\ request = NoRequest
    /\ plan = NoPlan
    /\ compilable = {}
    /\ groups = <<>>
    /\ held = <<>>
    /\ answer = NoAnswer

QueryNext == Request \/ Plan \/ Compile \/ Merge

QuerySpec == QueryInit /\ [][QueryNext]_queryVars

--------------------------------------------------------------------------------
(* Properties.                                                                *)

\* What the client asked of metric m: for each column the path it chose from the
\* options of m, or of all the metrics, and the grain.
Asked(m) ==
    [i \in DOMAIN request.groupBy |->
        LET selected == IF IsBound(request.groupBy[i])
                        THEN request.groupBy[i].bindings[m] ELSE request.groupBy[i]
        IN  <<selected.option[2], selected.grain>>]

SoundGroups(gs) ==
    LET all == FlattenSeq(gs)
    IN  /\ IsInjective(all)
        /\ ToSet(all) = ToSet(request.metrics)
        /\ \A g \in ToSet(gs) :
             /\ ToSet(g) \in compilable
             /\ \A m \in ToSet(g) :
                  /\ \A i \in DOMAIN request.groupBy :
                        Asked(m)[i][1] \in Reach[m] \cup {MetricTime}
                  /\ \A n \in ToSet(g) : Asked(n) = Asked(m)
                  /\ LET alike == {n \in ToSet(all) : Asked(n) = Asked(m)}
                     IN  alike \in compilable => ToSet(g) = alike

\* However MetricFlow's refusals split the metrics of a query, each metric is in
\* exactly one statement; a statement compiles, takes all its metrics along the
\* path each of them asked for and can go, and the metrics that share a path are
\* in one statement if they compile together.
GroupsAreSound ==
    [][stage = "planned" /\ stage' = "compiled" => SoundGroups(groups')]_queryVars

\* The merged statement is the full outer join of what each metric would answer
\* alone: a key is in one row, with the value of every metric that has one there,
\* also when the key or a part of it is NULL, when only one group has it, and in
\* a truncated answer; and the answer is called truncated exactly if it is.
AnswersAreWhole ==
    stage = "answered" =>
        LET rows == {r[2] : r \in answer.rows}
            keys == UNION {held[m] : m \in DOMAIN held}
        IN  /\ \A row \in rows :
                 /\ row.key \in keys
                 /\ \A m \in DOMAIN held :
                       row.cells[m] = IF row.key \in held[m] THEN row.key ELSE Null
            /\ Cardinality({row.key : row \in rows}) = Cardinality(answer.rows)
            /\ Cardinality(answer.rows) = Least(RowLimit, Cardinality(keys))
            /\ answer.truncated <=> Cardinality(keys) > RowLimit
================================================================================
