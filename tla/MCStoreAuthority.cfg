CONSTANTS
    Sockets = {k1, k2}
    Adapters = {"durable", "bun"}
    Lease = 2
    MaxTime = 4
    MaxHead = 3
    MaxSleeps = 2
    MaxFailures = 1
SPECIFICATION FairSpec
INVARIANTS
    NeitherDeafNorLeaked
    AttachmentNeverAhead
PROPERTIES
    NothingPastDeadline
    EverySocketEnds
\* The clock and the log are bounded; a stopped process is at rest.
CHECK_DEADLOCK FALSE
