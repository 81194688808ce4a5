CONSTANTS
  w1 = w1
  w2 = w2
  a1 = a1
  n1 = n1
  NoData = NoData
  Failure = Failure
  Workspaces = {w1, w2}
  Names = {n1}
  Admins = {a1}
  Registered = {w1, w2}
  NoWorkspace = NoWorkspace
  NoRow = NoRow
  NoTarget = NoTarget
  MaxSaves = 1
  MaxForeign = 1
SPECIFICATION Spec
INVARIANT MigrationTargetIsAskedFor
CHECK_DEADLOCK FALSE
