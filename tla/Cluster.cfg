SPECIFICATION Spec
CHECK_DEADLOCK FALSE
CONSTANTS
  Conns = {c1, c2}
  Trusted = {c1}
  NumTests = 3
  MaxStops = 2
  CmdCap = 1
  Threads = 2
INVARIANTS StopFindsTest FinishedMeansReady
PROPERTIES TestReported GoneUnregistered
