CONSTANTS
    ImageBytes = 16
    Sector = 2
    MaxWrites = 6
    MaxBytes = 12
    MaxForeign = 1
    MaxSourceExtents = 5
    MaxReservations = 5
    MaxFreeRanges = 6
    MaxRelocations = 2
    HeaderWords = 40
    FrameWords = 4
    Values = {1, 3}
    Chunks = {1, 3, 16}
    Originals <- MCOriginals
    Jobs <- MCJobs
    Policies <- MCPolicies
    EnvelopeLimits <- MCEnvelopeLimits
SPECIFICATION Spec
INVARIANTS
    MaskShowsTheOriginal
    InterruptedGroupIsRecognized
    RestoreUndoesEveryPhase
    RestartKeepsThePlan
