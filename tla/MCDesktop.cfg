CONSTANTS
  Window = {w1, w2}
  Layer = {l1}
  WorkspaceCount = 2
  Nobody = Nobody
SPECIFICATION DeskSpec
SYMMETRY Symmetry
INVARIANTS DeskTypeOK FocusedOnTop FocusedIsLive KeyboardFollowsFocus ShownExactly GrabHasWindow NothingDangles FocusedIsTold
PROPERTIES MinimizedUntilActivated SwitchFocusesShown OnlyFocusedMoves DisturbedOnlyByGrab MoveEndsArranged
