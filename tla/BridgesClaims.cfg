SPECIFICATION CallSpec
CONSTANTS
  Kinds = {"mqtt", "ws", "sse", "csv", "log", "browser"}
  None = None
  Capacity = 1
  SendCapacity = 1
  MaxMessages = 2
  MaxOpens = 1
  MaxRetries = 2
  Events = 2
  Lines = 2
  MaxFrames = 3
  MaxConnects = 2
  Crew <- TwoScenarios
  Carriers = {c1, c2}
  Yields = FALSE
  Stride = 4
  MaxIds = 4
  MaxTries = 3
  Filter = "login"
  MaxPages = 2
  MaxPolls = 1
CHECK_DEADLOCK FALSE
INVARIANTS ReconnectsAfterDrop EventsComplete CsvShared OnlyMatchingLogs
PROPERTIES SendReturns ThreadsExit ResponseSeen
