CONSTANTS
    UnitCount = 6
    MandatoryUnits = 4
    Lower <- MCLower
    CaseOffset = 2
    MaxNameUnits = 3
    Forbidden <- MCForbidden
    EntryBytes = 16384
    UnitsPerName = 2
    MaxSecondaries = 6
    InventoryLimits <- MCLimits
    Refused = Refused
    None = None
    Meta1 = Meta1
    Meta2 = Meta2
    Jobs <- MCJobs
    Sizes <- MCSizes
    Tables <- MCTables
SPECIFICATION Spec
INVARIANTS
    WrittenVolumeIsRead
    DamageIsNoticed
    DraftCanBeFinalized
    GeometryIsReadable
    TablesDecode
CHECK_DEADLOCK FALSE
