SPECIFICATION Spec
CONSTANTS
  Workers = {w1, w2}
  Limits = {2}
  IterBound = 4
  MaxToggles = 0
INVARIANTS FixedTotal ExactlyIterations
