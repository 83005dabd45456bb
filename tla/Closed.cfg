SPECIFICATION Spec
CONSTANTS
  Workers = {w1, w2}
  Limits = {0, 2}
  IterBound = 4
  MaxToggles = 2
INVARIANTS Overdraw PoolDrained
PROPERTY ScenarioCompletes
