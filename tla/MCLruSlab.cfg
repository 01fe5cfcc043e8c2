CONSTANTS
  Keys = {k1, k2, k3, k4, k5}
  Vals = {v1, v2}
  Times = {1}
  Cap = 4
  None = None
SPECIFICATION Spec
SYMMETRY Symmetry
INVARIANTS BothWaysAgree MapMatchesNodes
PROPERTIES ImplementsRecencyList
