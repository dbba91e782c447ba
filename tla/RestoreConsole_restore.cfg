SPECIFICATION FairSpec
CONSTANTS
  Snapshots = {s1}
  NoSnapshot = none
  MaxJobs = 2
  MaxCrashes = 1
  Consoles = {c1}
INVARIANTS
  PendingDialogIsItsOwn
PROPERTIES
  ActiveSnapshotKept
  CutoverIsCommitted
  CutoverIsShown
CHECK_DEADLOCK FALSE
