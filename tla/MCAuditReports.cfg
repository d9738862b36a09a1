CONSTANTS
  Ids = {1, 2, 3, 4}
  MaxTime = 3
  MaxQueryLimit = 3
  Failed = {2}
  Keys <- MCKeys
  ReportWindows <- MCReportWindows
  Buckets = {0, 1, 9}
  Tops = {1, 2}
  Hour = 2
  DefaultBucket = 2
  MaxBucket = 3
  MaxBuckets = 4
SPECIFICATION ReportSpec
INVARIANTS PageFitsTotal DashboardOffByLateRows 
CHECK_DEADLOCK FALSE
