SPECIFICATION Spec
CONSTANTS
  Workers = {w1, w2}
  Carriers = {c1}
  Hosts = {h1}
  Site = h1
  Members = {h1}
  Names = {a, b}
  MaxRedirects = 0
  Retries = 1
  MaxIterations = 2
  HasDefaults = FALSE
  SegmentWorkers = {w1}
  None = None
  Open = Open
INVARIANTS JarIsOwn SegmentIsOwn SleepIsOwn TypeFitsBody
PROPERTIES EveryCookieStored
