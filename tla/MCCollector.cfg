CONSTANTS
  NumGpus = 2
  Capacity = 3
  Mode = "NvmlDirect"
  Readings <- MCReadings
  ReadTimes = {0, 1}
  PostTimes = {0, 3}
  ScrapeWindow = 4
  LastBatch = 2
  Word64 = 1000
  None = None
SPECIFICATION Spec
INVARIANT RingIsTheNewest
INVARIANT WindowIsComplete
INVARIANT DiagnosisIsJustified
INVARIANT ScrapeShowsTheNewest
INVARIANT HotSamplesAreAnnounced
CHECK_DEADLOCK FALSE
