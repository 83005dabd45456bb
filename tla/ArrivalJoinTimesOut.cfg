SPECIFICATION HangingSpec
CONSTANTS
  NumWorkers = 1
  Limits = {2}
  MaxDispatch = 2
  MaxPauses = 0
PROPERTY JoinTimesOut
