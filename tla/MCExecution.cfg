SPECIFICATION Spec
CONSTANTS
    t1 = t1
    t2 = t2
    t3 = t3
    b = b
    None = None
    Tasks = {t1, t2}
    Key <- MCKey
    Bundles = {b}
    MaxSize = 1
    Jobs = {j1, j2}
    Shared = TRUE
SYMMETRY MCSymmetry
INVARIANTS
    TypeOK
    SubmittedOnce
    FlushedIsSubmitted
    JoinedHasEnded
    GetIsTruthful
    PayloadInPlace
    InterruptCancels
PROPERTIES
    ImplementsRemoteCalls
CHECK_DEADLOCK FALSE
