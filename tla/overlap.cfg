\* Runs and analyses at the same time, interrupted anywhere.
SPECIFICATION Spec
CONSTANTS
  Builds <- MCBuilds
  Cases <- MCCases
  I386Builds <- MCI386Builds
  I386Case <- MCI386Case
  Overlap = TRUE
  MaxRuns = 2
INVARIANTS
  CapturesWhole
  IndexIsBacked
  EvidenceIsAnnounced
