\* Two local edits and one remote one, one refused commit, one restart and
\* one lost answer: every order of these against every step of a commit.
CONSTANTS
    l1 = l1
    l2 = l2
    r1 = r1
    LocalEdits <- MCLocalEdits
    RemoteEdits <- MCRemoteEdits
    Edits <- MCEdits
    SNAPSHOT_FOLD_THRESHOLD = 2
    MaxCrashes = 1
    MaxFailures = 1
    MaxDrops = 1
SPECIFICATION Spec
SYMMETRY MCSymmetry
INVARIANTS
    MirrorSound
    AcksHonest
    NothingStranded
    PortsFoldAlike
PROPERTIES
    DurableNeverShrinks
\* A closed or discarded store, and one with nothing left to save, is at rest.
CHECK_DEADLOCK FALSE
