CONSTANTS
    Volume = 16
    Cluster = 2
    Heap = 2
    MaxSourceExtents = 4
    MaxReservations = 2
    MaxFreeRanges = 6
    MaxRelocations = 3
    MaxWrites = 4
    MaxPaths = 5
    ReadChunks = {1, 3, 8}
    Drafts <- MCDrafts
SPECIFICATION Spec
INVARIANTS
    SourceIntactUntilActivation
    PayloadSurvives
    TargetIsRepresentable
