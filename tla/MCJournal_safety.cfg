SPECIFICATION Spec
CONSTANTS
  Path = {live, manifest}
  External = {live}
  Content = {c1, c2}
  Absent = Absent
  TxId = {t1, t2}
  None = None
  MaxFaults = 3
SYMMETRY Symmetry
INVARIANTS
  PendingIsLoadable
  DecisionAfterData
  AlwaysClassifiable
  JournalOutlivesDoubt
  ReadableIsConverged
PROPERTIES
  NoDriftOverwritten
