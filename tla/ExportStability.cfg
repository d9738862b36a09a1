CONSTANTS
  Ids = {1, 2, 3, 4}
  MaxTime = 3
  MaxQueryLimit = 2
  ExportLimit = 4
  ExportWindows <- MCExportWindows
  MaxPagesPerTick = 2
SPECIFICATION ReadersSpec
INVARIANT ExportStable
CHECK_DEADLOCK FALSE
