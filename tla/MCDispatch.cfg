CONSTANTS
  Procs = {p1, p2}
  Routes <- MCRoutes
  WireRequests <- MCWireRequests
  TryItRequests <- MCTryItRequests
  MaxRequests = 3
  MaxPayloadBytes = 2
  replayMaxBodyBytes = 2
  ChunkBytes = 2
SYMMETRY Symmetry
SPECIFICATION Spec
INVARIANTS ReplaysAreFlat ReplayIsAuthenticated EventComesWithPayload ReplayReadsTheSame 
CHECK_DEADLOCK FALSE
