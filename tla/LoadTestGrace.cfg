SPECIFICATION Spec
CONSTANTS
  Main = 0
  Producers = {0, 1}
  MaxWorkers = 1
  NumAggregators = 1
  NumShards = 1
  ChannelCap = 1
  MaxPerProducer = 2
  Remote = FALSE
  BatchSize = 2
  MemorySafe = FALSE
  StageSchedule <- OneWorker
  MaxIterations = 0
  IterBound = 1
  GraceTicks = 1
  Commands <- StopOnly
  MaxCommands = 1
  MaxPause = 1
INVARIANTS GracefulStopWaits
