CONSTANTS
  Events = {r1, r2}
  Closers = {main}
  Main = main
  BufferSize = 1
  NoEvent = NoEvent
  MaxSignals = 2
SPECIFICATION LSpec
INVARIANT PreShutdownDelayHonoured
CHECK_DEADLOCK FALSE
