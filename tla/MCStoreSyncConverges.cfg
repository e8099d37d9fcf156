\* Liveness, so no symmetry: a lost socket or a hibernation.
CONSTANTS
    a = a
    b = b
    c = c
    Replicas <- MCReplicas
    Edits <- MCEdits
    SNAPSHOTS_KEPT = 2
    MaxEdits = 2
    MaxLog = 9
    Failures = {"drop", "wake"}
    MaxFailures = 1
SPECIFICATION FairSpec
INVARIANTS
    InOrder
PROPERTIES
    Convergence
\* Nothing is left to do once every bounded event has happened.
CHECK_DEADLOCK FALSE
