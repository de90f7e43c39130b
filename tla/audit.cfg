\* Runs and analyses one after the other, interrupted anywhere.
SPECIFICATION Spec
CONSTANTS
  Builds <- MCBuilds
  Cases <- MCCases
  I386Builds <- MCI386Builds
  I386Case <- MCI386Case
  Overlap = FALSE
  MaxRuns = 3
INVARIANTS
  TypeOK
  PublishedIsOneRun
  PublishedIsHealthy
