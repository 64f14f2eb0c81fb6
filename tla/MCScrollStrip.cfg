CONSTANTS
  Window = {w1, w2, w3, w4}
  OutputCount = 2
  Steps <- SomeSteps
  Nobody = Nobody
SPECIFICATION Spec
SYMMETRY Symmetry
INVARIANT StripShown
PROPERTIES HeadsStayUsed EnterShowsFocused
