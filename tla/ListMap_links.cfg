CONSTANTS
  k1 = k1
  k2 = k2
  k3 = k3
  v1 = v1
  v2 = v2
  v3 = v3
  c1 = c1
  c2 = c2
  c3 = c3
  c4 = c4
  Keys <- ThreeKeys
  Values <- ThreeValues
  Cells <- FourCells
  NoKey = NoKey
  NULL = NULL
SPECIFICATION Spec
SYMMETRY Alike
INVARIANTS
  Linked
  CursorLive
PROPERTIES
  ImplementsOrderedMap
