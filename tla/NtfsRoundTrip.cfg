CONSTANTS
  Zeroed = Zeroed
  Garbage = Garbage
  Invalid = Invalid
  NoReference = NoReference
  NoNumber = NoNumber
  Outside = Outside
  Partial = Partial
  NoList = NoList
  NoRun = NoRun
  NoValue = NoValue
  NotCaptured = NotCaptured
  Nothing = Nothing
  MaxResident = 512
  FormatTime = formatTime
  MaxExtensionRecords = 16
  MaxRecords = 1000
  MaxIndexBlocks = 100
  SymbolUnits <- MCSymbolUnits
  Upcase <- MCUpcase
  Jobs <- MCJobs
  ForeignMfts <- MCForeign
  MoveTargets = {3, 195, 210, 253}
SPECIFICATION Spec
INVARIANTS WrittenNtfsIsRead NtfsDamageIsNoticed MftMappingIsExact
