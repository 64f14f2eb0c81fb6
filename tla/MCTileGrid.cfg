CONSTANTS
  Window = {w1, w2, w3, w4, w5}
  OrderValue = {0, 1}
  Steps <- ManySteps
SPECIFICATION Spec
SYMMETRY Symmetry
INVARIANTS KeysDistinct MovesAreInsertions
PROPERTY LayoutRestoresRules
