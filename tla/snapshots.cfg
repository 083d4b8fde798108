SPECIFICATION Spec
CONSTANTS
  s1 = s1
  p1 = p1
  p2 = p2
  good = good
  other = other
  bad = bad
  stuck = stuck
  short = short
  None = None
  Sources = {s1}
  Samples = {good, bad}
  WellSized <- MCWellSized
  Degenerate <- MCDegenerate
  FailedBy <- MCFailedBy
  MaxSeq = 1
  PersistentThreshold = 2
  Lookback = 2
  TimesReadable = FALSE
  SummaryLimit = 6
  EventPage = 2
  Procs = {p1, p2}
  Ops = {"register", "ingest", "draft", "publish", "supersede"}
  Faults = {"crash", "error"}
  MaxBatch = 1
  MaxSnaps = 2
SYMMETRY ProcSymmetry
CHECK_DEADLOCK FALSE
INVARIANTS
  EvidenceChain
