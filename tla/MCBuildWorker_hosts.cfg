\* Two processes with one slot each, two jobs on one physical target, a retry, two crashes or shutdowns.
SPECIFICATION WorkerSpec
CONSTANTS
    j1 = j1
    j2 = j2
    p1 = p1
    t1 = t1
    i1 = i1
    i2 = i2
    w1 = w1
    w2 = w2
    Jobs = {j1, j2}
    Projects = {p1}
    ProjectOf <- OneProject
    Targets = {t1}
    TargetOf <- OneTarget
    WriteJobs = {}
    NeverRetry = {}
    MaxAttempts = 2
    Sources = {s1}
    None = None
    Instances = {i1, i2}
    Slots = {w1, w2}
    InstanceOf <- OneSlotEach
    MaxRestarts = 2
CONSTRAINT FewExecutions
SYMMETRY HostSymmetry
INVARIANTS
    WorkerTypeOK
    NoOverlappingWrites
    StopEvidenceIsTrue
    WritesAreVisible
CHECK_DEADLOCK FALSE
