CONSTANTS
    p1 = p1
    p2 = p2
    out = out
    esc = esc
    NoPath = NoPath
    Free = Free
    Foreign = Foreign
    Exports = {p1}
    Paths = {out, esc}
    Out <- OutOne
    Esc <- EscOne
    Relocated = {p1}
    Chunks = 2
    MovedChunks = {1}
    Described = {1}
    SyncOutcomes = {"synchronized"}
    MaxEdits = 5
    MaxFaults = 0
SPECIFICATION Spec
INVARIANTS
    EvidenceIsTrue
CHECK_DEADLOCK FALSE
