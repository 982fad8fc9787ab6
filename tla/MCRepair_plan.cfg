SPECIFICATION MCSpec
CONSTANTS
  e1 = e1
  e2 = e2
  c1 = c1
  c2 = c2
  c3 = c3
  Entry = {e1, e2}
  Container = {c1, c2, c3}
  None = None
  NoId = NoId
  MaxFaults = 1
  Docs <- MCDocs
  Strange <- MCStrange
  Versions <- MCVersions
  Sha <- MCSha
INVARIANTS EvidenceIsNamed PlannedRecoverySucceeds RefusalIsDiagnosed WrittenLoadsBack
PROPERTIES EvidenceIsKept RestoreIsExact BackupIsPrevious RecoveryConverges
