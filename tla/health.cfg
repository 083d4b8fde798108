SPECIFICATION HealthSpec
CONSTANTS
  Inputs <- MCInputs
CHECK_DEADLOCK FALSE
INVARIANTS
  LoopsExact
  DegenerateFails
  DominanceDecides
