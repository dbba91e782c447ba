SPECIFICATION Spec
CONSTANTS
  Sites = {s1}
  Nodes = {n1}
  Origins = {o1}
  Editors = {e1}
  Operations = {"agent", "create", "certificate", "invalidate", "publish", "rebuild", "apply_failure", "edge_crash", "upgrade", "late", "status"}
  InitialStatus = "pending"
  MaxConfigVersion = 3
  MaxVersion = 2
  MaxLate = 1
SYMMETRY Symmetry
INVARIANTS
  AppliedMeansLoaded
  NeverAheadOfEdge
  ConfirmedMeansApplied
  NoUpgradeDuringConfirmation
