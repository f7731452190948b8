CONSTANTS
    plain = plain
    rich = rich
    out = out
    esc = esc
    NoPath = NoPath
    MaxJobs = 3
    MaxEdits = 2
    Images = {plain, rich}
    Sidecars = {esc}
    Outputs = {out}
    EscrowOf <- MCEscrowOf
    Volume <- MCVolume
    Convertible <- MCConvertible
    Genuine <- MCGenuine
SPECIFICATION Spec
INVARIANTS
    ExportsWhatWasPreviewed
    VerifiedIsShown
    NeverClosesOverWork
    CancelledPublishesNothing
PROPERTIES
    ClosesInTheEnd
CHECK_DEADLOCK FALSE
