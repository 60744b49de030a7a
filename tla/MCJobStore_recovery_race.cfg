\* One job whose heartbeat is in flight while recovery selects and updates.
SPECIFICATION Spec
CONSTANTS
    j1 = j1
    j2 = j2
    p1 = p1
    t1 = t1
    Jobs = {j1}
    Projects = {p1}
    ProjectOf <- OneProject
    Targets = {t1}
    TargetOf <- OneTarget
    WriteJobs = {}
    NeverRetry = {}
    MaxAttempts = 2
    Sources = {s1}
    None = None
PROPERTIES
    RecoverySparesLiveLeases
CHECK_DEADLOCK FALSE
