SPECIFICATION Spec
CONSTANTS
    Image = {A, B}
    None = None
    Erased = Erased
    Torn = Torn
    NumBlocks = 3
    PerRequest = 2
    MaxRetries = 1
    MaxAttempts = 2
    Digests = {TRUE}
    MaxOffers = 2
    MaxFaults = 2
INVARIANTS
    ImageIsWhole
    ResumesBehindNoGap
PROPERTIES
    CondemnedIsErased
    JobEnds
CHECK_DEADLOCK FALSE
