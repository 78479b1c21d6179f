SPECIFICATION MCSpec
CONSTANTS
  Owner = owner
  Writer = {ana}
  Author = ana
  File = {f, g}
  Content = {absent, x}
  Absent = absent
  MaxSends = 3
  MaxResends = 1
  MaxCommits = 4
  MaxCrashes = 1
  MaxEdits = 1
INVARIANTS StoreSound WorkspaceSound
PROPERTIES HistorySound RefsCatchUp
CHECK_DEADLOCK FALSE
