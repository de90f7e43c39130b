\* What test_plan.md says of i386_run_index.json.
SPECIFICATION Spec
CONSTANTS
  Builds <- MCBuilds
  Cases <- NoCases
  I386Builds <- MCI386Builds
  I386Case <- MCI386Case
  Overlap = FALSE
  MaxRuns = 3
INVARIANTS
  I386EvidenceIsIndexed
