SPECIFICATION Spec
CHECK_DEADLOCK FALSE
CONSTANTS
  Conns = {c1}
  Trusted = {c1}
  NumTests = 2
  MaxStops = 0
  CmdCap = 2
  Threads = 2
INVARIANT EveryTestStoppable
