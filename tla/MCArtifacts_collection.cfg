\* A collector whose limit covers every set.
SPECIFICATION FairArtifactSpec
CONSTANTS
    Jobs = {j1}
    Projects = {j1}
    ProjectOf <- OwnProject
    Targets = {}
    TargetOf <- NoTarget
    WriteJobs = {}
    NeverRetry = {}
    MaxAttempts = 2
    Sources = {1, 2, 3}
    None = None
    GcLimit = 3
INVARIANTS
    InputsAreWhole
    ResultsHaveProvenance
PROPERTIES
    LiveOutputsKept
    PublishedStays
    LeftoversCollected
CHECK_DEADLOCK FALSE
