CONSTANTS
  Events = {e1, e2, e3, e4}
  Closers = {c1, c2}
  BufferSize = 2
  NoEvent = NoEvent
SPECIFICATION FairSpec
INVARIANTS DropsAreCounted HandedOverInOrder WrittenInOrder CloseWaitsForAccepted
PROPERTIES CloseReturns ImplementsAuditLog
CHECK_DEADLOCK FALSE
