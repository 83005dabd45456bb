SPECIFICATION Spec
CONSTANTS
  NumWorkers = 2
  Limits = {3}
  MaxDispatch = 5
  MaxPauses = 1
INVARIANTS Accounting InOrder NobodyLeftInGrace
PROPERTY ScenarioCompletes
