SPECIFICATION MCSpec
SYMMETRY Symmetry
CONSTANTS
  Name = {1, 2}
  Process = {p1, p2}
  None = None
  go = go
  goNew = goNew
  script = script
  owned = owned
  Bin = {go, goNew, script, owned}
  Version <- MCVersion
  Traced = {go, goNew}
  Owned = {owned}
  Homes <- MCHomes
  Edited <- MCEdited
  Sentinel <- MCSentinel
  Commands <- MCCommands
  Releases <- MCReleases
  MaxStarts = 2
  MaxCrashes = 1
  MaxChanges = 1
CHECK_DEADLOCK FALSE
INVARIANTS NotFrozen
