SPECIFICATION FallbackSpec
CONSTANTS
  None = None
  PerPage = 2
  MaxPages = 2
  MaxChanges = 1
  MaxHeaderEntries = 3
  MaxExecCandidates = 2
  MaxDeclaredBytes = 4
  MaxEntryBytes = 2
  Damaged <- MCDamaged
  NewReleases <- MCNewReleases
  NewData <- MCNewData
CHECK_DEADLOCK FALSE
INVARIANTS UnpackableFailsClosed
