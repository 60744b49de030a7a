\* Two requests in progress, at most three builds, one of them executed; and queries of three metrics.
SPECIFICATION RequestsSpec
CONSTANTS
    c1 = c1
    c2 = c2
    i1 = i1
    i2 = i2
    rA = rA
    rSameKey = rSameKey
    rRetarget = rRetarget
    rReversion = rReversion
    rOther = rOther
    sA = sA
    sRetarget = sRetarget
    sReversion = sReversion
    sOther = sOther
    Calls = {c1, c2}
    Requests = {rA, rSameKey, rRetarget, rReversion, rOther}
    KeyOf <- MCKeyOf
    CommitOf <- MCCommitOf
    SnapshotOf <- MCSnapshotOf
    EnvironmentOf <- MCEnvironmentOf
    VersionOf <- MCVersionOf
    TargetOf <- MCTargetOf
    Instances = {i1, i2}
    Verifies <- MCVerifies
    Followed = {rA}
    Heads = {"a", "b"}
    Filters <- MCFilters
    Limit = 1
    MaxAttempts = 2
    MaxBuilds = 3
    None = None
    m1 = m1
    m2 = m2
    m3 = m3
    country = country
    region = region
    day = day
    ordered = ordered
    time = time
    month = month
    x = x
    y = y
    MetricOrder <- MCMetricOrder
    Reach <- MCReach
    TimeTokens = {ordered, time}
    MetricTime = time
    Explained <- MCExplained
    Queries <- MCQueries
    Values = {1, Null}
    RowLimit = 2
    Null = Null
SYMMETRY CallSymmetry
INVARIANTS
    AcceptanceTypeOK
    RowsAgree
    InputIsPinned
    RetryKeepsCommit
    HistoryIsWhole
    AnswersAreWhole
PROPERTIES
    RetryIsAnswered
    GroupsAreSound
CHECK_DEADLOCK FALSE
