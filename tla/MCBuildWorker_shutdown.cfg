\* One job whose worker shuts down while it prepares.
SPECIFICATION WorkerSpec
CONSTANTS
    j1 = j1
    j2 = j2
    p1 = p1
    t1 = t1
    i1 = i1
    i2 = i2
    w1 = w1
    w2 = w2
    Jobs = {j1}
    Projects = {p1}
    ProjectOf <- OneProject
    Targets = {t1}
    TargetOf <- OneTarget
    WriteJobs = {}
    NeverRetry = {}
    MaxAttempts = 2
    Sources = {s1}
    None = None
    Instances = {i1}
    Slots = {w1}
    InstanceOf <- OneHost
    MaxRestarts = 1
INVARIANTS
    UnknownOutcomeMeansStarted
CHECK_DEADLOCK FALSE
