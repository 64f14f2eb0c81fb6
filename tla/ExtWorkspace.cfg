CONSTANTS
  Panel = {p1}
  WorkspaceCount = 3
  None = None
  QueueBound = 8
  RequestBound = 2
SPECIFICATION Spec
INVARIANTS OneShown RequestsFindHandles
PROPERTIES CatchesUp ImplementsView
