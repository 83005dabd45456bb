SPECIFICATION PipeSpec
CONSTANTS
  Producers = {main, p1}
  Main = main
  NumAggregators = 2
  NumShards = 2
  ChannelCap = 2
  MaxPerProducer = 2
  Remote = TRUE
  BatchSize = 2
INVARIANTS Conservation CountedOnce ReportSound
PROPERTY ImplementsLedger
