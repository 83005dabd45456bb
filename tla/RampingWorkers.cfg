SPECIFICATION Spec
CONSTANTS
  MaxWorkers = 3
  Stages <- UpDownUp
  Duration = 4
  Iterations <- NoLimit
  IterBound = 2
  MaxToggles = 1
PROPERTY EverybodyEnds
