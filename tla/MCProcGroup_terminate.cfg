CONSTANTS
  Leader = leader
  Kids = {k1, k2}
SPECIFICATION FairSpec
CHECK_DEADLOCK FALSE
INVARIANTS NoWriterLeft
PROPERTIES Returns PromptReturnIsSpared
