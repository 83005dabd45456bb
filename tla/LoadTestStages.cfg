SPECIFICATION Spec
CONSTANTS
  Main = 0
  Producers = {0, 1, 2}
  MaxWorkers = 2
  NumAggregators = 1
  NumShards = 1
  ChannelCap = 1
  MaxPerProducer = 2
  Remote = FALSE
  BatchSize = 2
  MemorySafe = FALSE
  StageSchedule <- UpAndDown
  MaxIterations = 0
  IterBound = 1
  GraceTicks = 1
  Commands <- NoCommands
  MaxCommands = 0
  MaxPause = 1
INVARIANTS StagesFollowed
PROPERTY AggregatorsEnd
