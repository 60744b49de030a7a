\* Two attempts of one job in two processes, and in the first another build and a query.
SPECIFICATION BarrierSpec
CONSTANTS
    b1 = b1
    b2 = b2
    b3 = b3
    q1 = q1
    p1 = p1
    p2 = p2
    j1 = j1
    j2 = j2
    j3 = j3
    Builds = {b1, b2, b3}
    Queries = {q1}
    Cancellable = {b1, b3}
    Processes = {p1, p2}
    ProcessOf <- MCProcessOf
    Jobs = {j1, j2, j3}
    JobOf <- MCJobOf
    None = None
INVARIANTS
    BarrierTypeOK
    EnginesAreIsolated
    FilesOutliveThreads
PROPERTIES
    CallsEnd
CHECK_DEADLOCK FALSE
