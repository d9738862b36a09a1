CONSTANTS
  Setups <- MCSetups
  Requests <- MCRequests
  Verbs = {"", "HEAD", "POST", "OPTIONS"}
  Values <- MCValues
  Absent = Absent
  Malformed = Malformed
  Overflow = Overflow
  Largest = 63
  maxCount = 4
  defaultCount = 2
  maxDelayMS = 2
  maxBodyKB = 3
  defaultSizeKB = 2
  KiB = 1024
  maxRows = 4
  defaultRows = 3
  maxDurationMS = 3
  defaultDurationMS = 1
  slowMaxMS = 3
  sizedMax = 9
  buffer = 4
  alphabet = 3
  loremMaxWords = 4
  loremDefaultWords = 2
  Raw <- MCRaw
  Codes <- MCCodes
  MaxInt = 63
  maxTotal = 7
  maxPageSize = 4
  defaultTotal = 5
  defaultPageSize = 2
  Positions <- MCPositions
  Sizes <- MCSizes
  Totals <- MCTotals
SPECIFICATION ESpec
INVARIANTS AuditNamesTheRoute CatalogueIsServed ResponseIsWhole WalkShowsEveryItem ServedIffInDataset
CHECK_DEADLOCK FALSE
