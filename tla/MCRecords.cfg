SPECIFICATION RecordsSpec
CONSTANTS
  MaxSlot = 2
  MaxEntries = 3
  MaxRuns = 2
  MaxTroubles = 2
  MaxFrames = 3
  CsvSlots <- MCCsvSlots
  MaxRows = 2
CHECK_DEADLOCK FALSE
INVARIANTS
  RowsAreOnce
  ReceivedIsKept
  TestsAreLogged
  UnsealedForCause
PROPERTIES
  EvidenceStays
