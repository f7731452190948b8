CONSTANTS
    None = None
    Unavailable = Unavailable
    MaxDirectoryEntries = 20
    MaxPreservationBytes = 40
    MaxExtents = 10
    MaxLabel = 32
    MaxNameUnits = 5
    MaxSuffix = 11
    MaxEdits = 1
    PinnedIds = {256, 257}
    NtfsSources <- MCNtfsSources
    ExfatSources <- MCExfatSources
    Moments <- MCMoments
SPECIFICATION Spec
INVARIANTS
    RoundTripIsLossless
    DescriptorsSurvive
    ExfatRoundTripIsLossless
    DestinationIsExfat
    CalendarRoundTrips
