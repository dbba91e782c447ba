SPECIFICATION Spec
CONSTANTS
  Sites = {s1, s2}
  Nodes = {n1}
  Origins = {o1}
  Editors = {e1}
  Operations = {"create", "certificate", "update", "publish", "rebuild"}
  InitialStatus = "active"
  MaxConfigVersion = 3
  MaxVersion = 2
  MaxLate = 0
SYMMETRY Symmetry
INVARIANTS
  SnapshotsAreDesired
