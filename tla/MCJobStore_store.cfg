\* Two jobs on one physical target; j1 also takes the write lock of its project, j2 is never retried.
SPECIFICATION Spec
CONSTANTS
    j1 = j1
    j2 = j2
    p1 = p1
    t1 = t1
    Jobs = {j1, j2}
    Projects = {p1}
    ProjectOf <- OneProject
    Targets = {t1}
    TargetOf <- OneTarget
    WriteJobs = {j1}
    NeverRetry = {j2}
    MaxAttempts = 3
    Sources = {s1}
    None = None
INVARIANTS
    OneExecution
    NoRerunAfterExternal
    BusyUntilStopProven
PROPERTIES
    TargetNotStolen
    ImplementsLifecycle
CHECK_DEADLOCK FALSE
