CONSTANTS
  Callers = {p1, p2}
  fileKey = fileKey
  dbKey = dbKey
  otherKey = otherKey
  FileKeys = {fileKey}
  DBKeys = {dbKey}
  NoKey = NoKey
  Blank = Blank
  Requests <- MCRequests
  MaxConns = 2
  OIDCEnabled = TRUE
  AllowAnonymous = TRUE
SPECIFICATION FairSpec
PROPERTIES MatchedKeyIsAnswered
CHECK_DEADLOCK FALSE
