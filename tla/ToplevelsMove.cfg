CONSTANTS
  Window = {w1, w2}
  Layer = {l1}
  WorkspaceCount = 2
  Nobody = Nobody
SPECIFICATION Spec
SYMMETRY Symmetry
PROPERTY MoveRefocusesShown
