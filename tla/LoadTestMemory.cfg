SPECIFICATION Spec
CONSTANTS
  Main = 0
  Producers = {0, 1}
  MaxWorkers = 1
  NumAggregators = 1
  NumShards = 1
  ChannelCap = 1
  MaxPerProducer = 0
  Remote = FALSE
  BatchSize = 2
  MemorySafe = TRUE
  StageSchedule <- OneWorker
  MaxIterations = 0
  IterBound = 0
  GraceTicks = 1
  Commands <- PauseAndRamp
  MaxCommands = 1
  MaxPause = 1
PROPERTIES ThrottledAboveWarn CriticalShedsWorkers
