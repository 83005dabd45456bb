SPECIFICATION Spec
CONSTANTS
  Main = 0
  Producers = {0, 1}
  MaxWorkers = 1
  NumAggregators = 1
  NumShards = 2
  ChannelCap = 1
  MaxPerProducer = 4
  Remote = TRUE
  BatchSize = 2
  MemorySafe = FALSE
  StageSchedule <- OneWorker
  MaxIterations = 2
  IterBound = 2
  GraceTicks = 1
  Commands <- PauseAndStop
  MaxCommands = 2
  MaxPause = 1
INVARIANT OneIterationPerPause
PROPERTIES ImplementsPipeline StopEndsRun
