\* One slot that may be held up by the target of the other job.
SPECIFICATION FairWorkerSpec
CONSTANTS
    j1 = j1
    j2 = j2
    p1 = p1
    t1 = t1
    i1 = i1
    i2 = i2
    w1 = w1
    w2 = w2
    Jobs = {j1, j2}
    Projects = {p1}
    ProjectOf <- OneProject
    Targets = {t1}
    TargetOf <- OneTarget
    WriteJobs = {}
    NeverRetry = {}
    MaxAttempts = 1
    Sources = {s1}
    None = None
    Instances = {i1}
    Slots = {w1}
    InstanceOf <- OneHost
    MaxRestarts = 1
PROPERTIES
    EveryBuildEnds
CHECK_DEADLOCK FALSE
