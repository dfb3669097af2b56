SPECIFICATION Spec
CONSTANTS
  b1 = b1
  b2 = b2
  r1 = r1
  r2 = r2
  t1 = t1
  p1 = p1
  Builds <- MCBuilds
  Runs <- MCRuns
  Tests <- MCTests
  Repls <- MCRepls
  Sessions <- MCSessions
  MaxVersion = 1
  Rounds = 2
INVARIANTS
  RunsWhatItRead
  NothingLeft
PROPERTY BuildReportsTruth
CHECK_DEADLOCK FALSE
