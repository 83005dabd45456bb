SPECIFICATION Spec
CONSTANTS
  NumWorkers = 1
  Limits = {}
  MaxDispatch = 4
  MaxPauses = 0
INVARIANT RunOrTracked
