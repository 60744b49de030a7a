\* Two reconcilers, two intents, a branch that moves between two commits and away.
SPECIFICATION DeploymentSpec
CONSTANTS
    c1 = c1
    c2 = c2
    r1 = r1
    r2 = r2
    g1 = g1
    g2 = g2
    Commits = {c1, c2}
    Ancestry <- OneStep
    Reconcilers = {r1, r2}
    Pollers = {}
    MaxGeneration = 2
    MaxVersion = 4
    MaxNoise = 3
    None = None
SYMMETRY ReconcilerSymmetry
INVARIANTS
    DeploymentTypeOK
    TargetIsConsistent
    DeployedWasHead
    StaleForCause
PROPERTIES
    ImplementsPointer
    ObservationsMoveForward
CHECK_DEADLOCK FALSE
