CONSTANTS
  Externals = 2
  Commands <- TwoAndOne
  Retries = 2
  MaxTools = 2
SPECIFICATION FairSpec
CHECK_DEADLOCK FALSE
INVARIANTS ResultIsTrue ReportIsComplete InterruptCounts
PROPERTIES Terminates
