SPECIFICATION FairSpec
CONSTANTS
  Sites = {s1}
  Nodes = {n1}
  Origins = {o1}
  Editors = {e1}
  Operations = {"agent", "create", "certificate", "update", "publish", "delete", "crash", "concurrent_edits"}
  InitialStatus = "active"
  MaxConfigVersion = 2
  MaxVersion = 2
  MaxLate = 0
INVARIANTS
  CleanupMeansApplied
PROPERTIES
  
  DeletionResultIsFinal
  TasksEnd
