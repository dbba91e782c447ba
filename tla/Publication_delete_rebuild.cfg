SPECIFICATION Spec
CONSTANTS
  Sites = {s1}
  Nodes = {n1}
  Origins = {o1}
  Editors = {e1}
  Operations = {"agent", "create", "certificate", "publish", "delete", "rebuild"}
  InitialStatus = "active"
  MaxConfigVersion = 2
  MaxVersion = 4
  MaxLate = 0
SYMMETRY Symmetry
INVARIANTS
  DeletedMeansNotDesired
