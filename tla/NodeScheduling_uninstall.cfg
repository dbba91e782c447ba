SPECIFICATION Spec
CONSTANTS
  Sites = {s1}
  Nodes = {n1, n2}
  ProbedSites = {}
  Operations = {"update", "publish", "status", "monitoring", "uninstall", "cancel", "force", "upgrade", "delete"}
  FailLimit = 2
  SuccessLimit = 2
  AbnormalLimit = 1
  MaxChanges = 6
SYMMETRY Symmetry
INVARIANTS
  UninstallingServesNothing
CHECK_DEADLOCK FALSE
