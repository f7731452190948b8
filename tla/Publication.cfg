CONSTANTS
    p1 = p1
    p2 = p2
    out = out
    esc = esc
    NoPath = NoPath
    Free = Free
    Foreign = Foreign
    Exports = {p1, p2}
    Paths = {out, esc}
    Out <- OutSame
    Esc <- EscOfFirst
    Relocated = {}
    Chunks = 1
    MovedChunks = {}
    Described = {1}
    SyncOutcomes = {"synchronized", "unsupported"}
    MaxEdits = 0
    MaxFaults = 2
SPECIFICATION Spec
INVARIANTS
    NothingPartialPublished
    SidecarFirst
    SuccessIsDurable
PROPERTIES
    NoClobber
CHECK_DEADLOCK FALSE
