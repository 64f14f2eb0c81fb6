CONSTANTS
  Far = 2
  Cells <- Corners
  Origin = 0
  SentBound = 2
  NoRestore = NoRestore
SPECIFICATION Spec
PROPERTY UnmaximizeRestores
