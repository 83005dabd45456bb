SPECIFICATION ScriptSpec
CONSTANTS
  Kinds = {"array"}
  None = None
  Capacity = 1
  SendCapacity = 1
  MaxMessages = 2
  MaxOpens = 1
  MaxRetries = 2
  Events = 2
  Lines = 2
  MaxFrames = 3
  MaxConnects = 2
  Crew <- TwoScenarios
  Carriers = {c1, c2}
  Yields = TRUE
  Stride = 4
  MaxIds = 4
  MaxTries = 3
  Filter = "login"
  MaxPages = 2
  MaxPolls = 1
CHECK_DEADLOCK FALSE
PROPERTY DataComes
