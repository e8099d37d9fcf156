\* Three replicas and no failure: a snapshot holds an edit that is not logged yet.
CONSTANTS
    a = a
    b = b
    c = c
    Replicas <- MCThree
    Edits <- MCEdits
    SNAPSHOTS_KEPT = 2
    MaxEdits = 3
    MaxLog = 9
    Failures = {}
    MaxFailures = 0
SPECIFICATION Spec
SYMMETRY MCThreeSymmetry
INVARIANTS
    CausallyComplete
\* Nothing is left to do once every bounded event has happened.
CHECK_DEADLOCK FALSE
