CONSTANTS
  Events = {r1, r2}
  Closers = {main}
  Main = main
  BufferSize = 1
  NoEvent = NoEvent
  MaxSignals = 2
  Configs <- MCConfigs
  NoConfig = NoConfig
  MinSecret = 2
SPECIFICATION SFairSpec
INVARIANTS CleanExitLosesNothing PoolOutlivesWorker ExitSettlesAccepted NotReadyBeforeRefusing
PROPERTIES BuildHonoursConfig 
CHECK_DEADLOCK FALSE
