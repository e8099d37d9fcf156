\* One store: at most 3 positions per generation, 3 generations, and two
\* activations held at once, so that two of them can race.
CONSTANTS
    e1 = e1
    e2 = e2
    op1 = op1
    op2 = op2
    Edits <- MCEdits
    Inputs <- MCInputs
    Operations <- MCOperations
    SNAPSHOTS_KEPT = 2
    MaxHead = 3
    MaxGeneration = 3
    MaxPrepared = 2
SPECIFICATION Spec
SYMMETRY MCSymmetry
INVARIANTS
    LogSound
    CaptureComplete
    OneGeneration
PROPERTIES
    ActivationFresh
