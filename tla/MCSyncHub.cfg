CONSTANTS
    Peers = {c1, c2}
    NoPeer = NoPeer
    Chunks = 2
    SnapshotFloor = 1
    MaxMessages = 3
    MaxFailures = 1
SPECIFICATION Spec
SYMMETRY PeerSymmetry
INVARIANTS
    Contiguous
    NothingAfterRetired
    NoStrandedMessage
\* A retired hub, and one whose peers sent their bounded messages, is at rest.
CHECK_DEADLOCK FALSE
