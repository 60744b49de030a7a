\* One reconciler, and a poller that comes in between.
SPECIFICATION FairDeploymentSpec
CONSTANTS
    c1 = c1
    c2 = c2
    r1 = r1
    r2 = r2
    g1 = g1
    g2 = g2
    Commits = {c1}
    Ancestry <- NoStep
    Reconcilers = {r1}
    Pollers = {g1}
    MaxGeneration = 2
    MaxVersion = 50
    MaxNoise = 3
    None = None
PROPERTIES
    FinishedIntentsSettle
CHECK_DEADLOCK FALSE
