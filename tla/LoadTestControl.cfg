SPECIFICATION Spec
CONSTANTS
  Main = 0
  Producers = {0, 1, 2, 3}
  MaxWorkers = 3
  NumAggregators = 1
  NumShards = 1
  ChannelCap = 1
  MaxPerProducer = 0
  Remote = FALSE
  BatchSize = 2
  MemorySafe = TRUE
  StageSchedule <- OneWorker
  MaxIterations = 0
  IterBound = 0
  GraceTicks = 1
  Commands <- Interactive
  MaxCommands = 2
  MaxPause = 1
INVARIANT NoOrphans
PROPERTY RampReached
