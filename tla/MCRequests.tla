----------------------------- MODULE MCRequests -----------------------------
(* Instances for TLC of what the API does with a request.  For             *)
(* BuildAcceptance, five requests that differ in one respect each, and two *)
(* instances of which the second is behind.  For QueryPlans, queries of    *)
(* three metrics with their bindings, right and wrong.  A query reads one  *)
(* sealed build and shares no state with acceptance, so that the one moves *)
(* while the other is where it began.                                      *)
EXTENDS BuildAcceptance, QueryPlans

CONSTANTS c1, c2, i1, i2, rA, rSameKey, rRetarget, rReversion, rOther,
          sA, sRetarget, sReversion, sOther,
          m1, m2, m3, country, region, day, ordered, time, month, x, y

MCKeyOf == rA :> "k1" @@ rSameKey :> "k1" @@ rRetarget :> "k2" @@ rReversion :> "k3" @@ rOther :> "k4"
MCCommitOf == rA :> None @@ rSameKey :> None @@ rRetarget :> None @@ rReversion :> None
              @@ rOther :> "b"
MCSnapshotOf == rA :> sA @@ rSameKey :> sA @@ rRetarget :> sRetarget
                @@ rReversion :> sReversion @@ rOther :> sOther
MCEnvironmentOf == sA :> "e1" @@ sRetarget :> "e2" @@ sReversion :> "e1" @@ sOther :> "e1"
MCVersionOf == sA :> 1 @@ sRetarget :> 1 @@ sReversion :> 1 @@ sOther :> 2
MCTargetOf == sA :> "t1" @@ sRetarget :> "t1" @@ sReversion :> "t2" @@ sOther :> "t2"
MCVerifies == i1 :> {"t1", "t2"} @@ i2 :> {"t2"}
MCFilters == {Requests, {rA, rOther}}
CallSymmetry == Permutations(Calls)

-----------------------------------------------------------------------------

MCMetricOrder == <<m1, m2, m3>>
MCReach == m1 :> {country, region, ordered} @@ m2 :> {country, region} @@ m3 :> {country, ordered}
MCExplained ==
    {<<S, time, day>> : S \in SUBSET Metrics} \cup {<<S, ordered, day>> : S \in SUBSET {m1, m3}}
    \cup {<<{m1}, ordered, month>>}

\* Options of the metric, of another one, and with and without a grain.
Select(ids, t, g) == [option |-> <<ids, t>>, grain |-> g]
Selections(m) ==
    {Select(<<m>>, t, Null) : t \in {country, region, ordered}}
    \cup {Select(<<m>>, t, day) : t \in {ordered, time}} \cup {Select(<<m1>>, region, Null)}
Bound(name, s) == [name |-> name, bindings |-> s]
OneEach == {Bound(x, s) : s \in {s \in [Metrics -> UNION {Selections(m) : m \in Metrics}] :
                                  \A m \in Metrics : s[m] \in Selections(m)}}
Seconds == {Select(MCMetricOrder, country, Null), Select(MCMetricOrder, time, day),
            Bound(y, [m \in Metrics |-> Select(<<m>>, country, Null)])}
Asking(items, filter, order) ==
    [metrics |-> MCMetricOrder, groupBy |-> items, filter |-> filter, order |-> order]
MCQueries ==
    {Asking(<<i>>, Null, o) : i \in OneEach, o \in {x, y}}
    \cup {Asking(<<i>>, <<MCMetricOrder, region>>, x) : i \in OneEach}
    \cup {Asking(<<i, j>>, <<MCMetricOrder, country>>, Null) : i \in OneEach, j \in Seconds}
    \cup {[metrics |-> <<m3, m1, m3>>, groupBy |-> <<Select(<<m1, m3>>, t, g)>>,
           filter |-> Null, order |-> <<<<m1, m3>>, t>>] :
              t \in {country, ordered, region}, g \in {Null, day, month}}

RequestsInit == AcceptanceInit /\ QueryInit

RequestsNext ==
    \/ QueryInit /\ UNCHANGED queryVars /\ AcceptanceNext
    \/ AcceptanceInit /\ UNCHANGED acceptanceVars /\ QueryNext

RequestsSpec == RequestsInit /\ [][RequestsNext]_<<acceptanceVars, queryVars>>
=============================================================================
