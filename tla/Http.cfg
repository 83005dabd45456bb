SPECIFICATION FairSpec
CONSTANTS
  Workers = {w1}
  Carriers = {c1}
  Hosts = {top, sub, other}
  Site = top
  Members = {top, sub}
  Names = {a}
  MaxRedirects = 1
  Retries = 1
  MaxIterations = 1
  HasDefaults = TRUE
  SegmentWorkers = {w1}
  None = None
  Open = Open
INVARIANTS RedirectsFollowed RetriedWhileUnanswered SentWhereSet
PROPERTY RequestReturns
