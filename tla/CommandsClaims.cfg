SPECIFICATION Spec
CONSTANTS
  Parts = {"statistics", "run"}
  None = None
  Unset = Unset
  MaxStages = 3
  MaxDur = 3
  MaxTarget = 3
  Metrics <- TestMetrics
  Criteria <- TestCriteria
  MaxMetrics = 3
  Shards = 2
  HistMax = 60000
  MaxLogs = 1
  MaxPacket = 3
  QuickRuns = TRUE
  MaxEdits = 4
  Clients = {c1, c2, c3}
CHECK_DEADLOCK FALSE
INVARIANTS ScenarioSeesRequests FailedRateIsOfRequests GaugeIsLast SummaryVisible ArtifactsOnFailure FlagsEnforced TerminalRestored SavedOnce SetupCleanedUp
