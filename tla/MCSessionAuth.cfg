CONSTANTS
    Alice = {a1, a2}
    Bob = {b1}
    MaxAttempts = 2
    MaxFailures = 1
    MaxRequests = 1
    MaxWrites = 2
SPECIFICATION AuthSpec
INVARIANTS
    StorageAgrees
    NoTokenForgotten
    RefusalIsCurrent
\* A disposed client, and one whose bounded attempts are used up, is at rest.
CHECK_DEADLOCK FALSE
