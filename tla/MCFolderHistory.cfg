SPECIFICATION Spec
CONSTANTS
    Tabs = {t1, t2}
    Paths = {p, q}
    Nobody = Nobody
    MaxSaves = 2
    MaxRequests = 2
    MaxFaults = 1
SYMMETRY Symmetry
\* A folder without work, once the bounded saves and requests are used up, is at rest.
CHECK_DEADLOCK FALSE
INVARIANTS
    DirtyIsMine
    CheckpointsAreMine
    NoSaveLost
    EverySaveCommitted
