CONSTANTS
  Callers = {p1, p2}
  fileKey = fileKey
  dbKey = dbKey
  otherKey = otherKey
  FileKeys = {fileKey}
  DBKeys = {dbKey}
  NoKey = NoKey
  Blank = Blank
  Requests <- MCRequests
  MaxConns = 3
  OIDCEnabled = TRUE
  AllowAnonymous = TRUE
SPECIFICATION FairSpec
INVARIANTS  RevokedKeyRefused LiveKeyNeverInvalid
PROPERTIES MatchedKeyIsAnswered
CHECK_DEADLOCK FALSE
