SPECIFICATION Spec
CONSTANTS
  MaxWorkers = 2
  Stages <- UpDown
  Duration = 2
  Iterations = 2
  IterBound = 2
  MaxToggles = 0
INVARIANTS NobodyLeft AllStages
