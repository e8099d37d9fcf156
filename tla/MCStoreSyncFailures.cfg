\* One failure of any kind at any moment.  A replica that cannot apply an entry
\* re-sends for ever, so the log is bounded.
CONSTANTS
    a = a
    b = b
    c = c
    Replicas <- MCReplicas
    Edits <- MCEdits
    SNAPSHOTS_KEPT = 2
    MaxEdits = 2
    MaxLog = 5
    Failures = {"crash", "drop", "wake", "storage", "unapplyable"}
    MaxFailures = 1
SPECIFICATION Spec
SYMMETRY MCSymmetry
INVARIANTS
    CursorsHonest
    NoWriteLost
    SnapshotCovers
PROPERTIES
    ImplementsReplicatedLog
\* Nothing is left to do once every bounded event has happened.
CHECK_DEADLOCK FALSE
