CONSTANTS
  Far = 2
  Cells <- Corners
  Origin = 0
  SentBound = 1
  NoRestore = NoRestore
SPECIFICATION FrameSpec
INVARIANT FrameComes
PROPERTIES AstrayByTakeover Settles
