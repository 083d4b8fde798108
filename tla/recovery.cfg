SPECIFICATION Spec
CONSTANTS
  s1 = s1
  p1 = p1
  p2 = p2
  good = good
  other = other
  bad = bad
  stuck = stuck
  short = short
  None = None
  Sources = {s1}
  Samples = {good, stuck}
  WellSized <- MCWellSized
  Degenerate <- MCDegenerate
  FailedBy <- MCFailedBy
  MaxSeq = 2
  PersistentThreshold = 1
  Lookback = 2
  TimesReadable = FALSE
  SummaryLimit = 6
  EventPage = 2
  Procs = {p1, p2}
  Ops = {"register", "ingest", "recover", "seal", "analysis"}
  Faults = {"crash", "error"}
  MaxBatch = 1
  MaxSnaps = 0
SYMMETRY ProcSymmetry
INVARIANTS
  RecoveryBaselineValid
  BaselineCounted
PROPERTIES
  SealUndoneByStaleReads
