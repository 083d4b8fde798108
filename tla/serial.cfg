SPECIFICATION Spec
CONSTANTS
  s1 = s1
  p1 = p1
  p2 = p2
  good = good
  other = other
  bad = bad
  stuck = stuck
  short = short
  None = None
  Sources = {s1}
  Samples = {good, bad, short}
  WellSized <- MCWellSized
  Degenerate <- MCDegenerate
  FailedBy <- MCFailedBy
  MaxSeq = 3
  PersistentThreshold = 2
  Lookback = 2
  TimesReadable = FALSE
  SummaryLimit = 6
  EventPage = 2
  Procs = {p1}
  Ops = {"register", "ingest", "isolate", "seal", "confirm", "close"}
  Faults = {"crash", "error"}
  MaxBatch = 1
  MaxSnaps = 0
INVARIANTS
  OpenEventNewest
  RunEvidence
  PersistentDegrades
PROPERTIES
  ClosedIsFinal
