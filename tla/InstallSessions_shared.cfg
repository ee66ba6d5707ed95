SPECIFICATION FairSpec
CONSTANTS
  app = app
  None = None
  Proc = {p1, p2}
  D = 6
  Project = {app}
  Requests <- MCShared
  MaxScopes = 5
  MaxSessions = 3
  MaxCrashes = 2
CHECK_DEADLOCK FALSE
INVARIANT DirtyIsFound
INVARIANT PointerLeads
INVARIANT CopyIsCurrent
INVARIANT OpenedClean
INVARIANT PriorExportsLocked
PROPERTY OnlyHolderWrites
PROPERTY OpenEnds
