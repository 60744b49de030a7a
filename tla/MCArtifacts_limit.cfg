\* A collector whose limit is smaller than the number of sets in use.
SPECIFICATION FairArtifactSpec
CONSTANTS
    Jobs = {j1}
    Projects = {j1}
    ProjectOf <- OwnProject
    Targets = {}
    TargetOf <- NoTarget
    WriteJobs = {}
    NeverRetry = {}
    MaxAttempts = 1
    Sources = {1, 2}
    None = None
    GcLimit = 1
PROPERTIES
    UploadsCollected
CHECK_DEADLOCK FALSE
