\* Four dials and four submissions: late callbacks of up to three abandoned
\* sockets, and a watchdog interval that spans two submissions.
CONSTANTS
    MaxDials = 4
    MaxSubmissions = 4
SPECIFICATION FairSpec
INVARIANTS
    OneLiveSocket
    EndedForGood
PROPERTIES
    StalledMeansSilent
    NoSilentStall
\* A disposed driver is at rest.
CHECK_DEADLOCK FALSE
