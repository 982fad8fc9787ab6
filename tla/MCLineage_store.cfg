CONSTANTS
  Tag = {v1, v2, v3}
  Sha = {s1, s2}
  Original = original
  None = none
  Empty = empty
  Depths = {1, 2}
  MaxEvents = 4
  MaxFaults = 1
  MaxForeign = 2
  MaxRetags = 1
SPECIFICATION Spec
SYMMETRY Interchangeable
INVARIANTS HistoryNeverWedges LiveIsActive UpgradeReversible PruneExact
PROPERTIES PruneFailsClosed UndoSpec
