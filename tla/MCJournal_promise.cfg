SPECIFICATION FairSpec
CONSTANTS
  Path = {live, manifest}
  External = {}
  Content = {c1, c2}
  Absent = Absent
  TxId = {t1, t2}
  None = None
  MaxFaults = 3
PROPERTIES
  AtomicSpec
  DoubtIsResolved
