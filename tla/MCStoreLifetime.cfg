CONSTANTS
    MaxOpeners = 2
    Kinds = {"local", "personal"}
    Hosts = {"store", "parts"}
    MaxGeneration = 2
    MaxEdits = 2
    MaxFaults = 2
SPECIFICATION FairSpec
INVARIANTS
    Exclusive
    RetiredIsGone
    CleanCloseSaves
    QuietAfterEnd
PROPERTIES
    ClosingSettles
\* A closed address is at rest once the bounded openings are used up.
CHECK_DEADLOCK FALSE
