CONSTANTS
  Mouse = {m1, m2}
  Finger = {f1, f2}
  NoFinger = NoFinger
  Keyboard = {k1, k2}
  Key = {x, y}
  Client = {c1, c2}
  screen = screen
  panel = panel
  pen1 = pen1
  Output = {screen, panel}
  Input = {pen1, touch1}
  Touch = {touch1}
  RuleSet <- RuleSets
  Nested = TRUE
  Surface = {a, b}
  Nothing = Nothing
SPECIFICATION SeatSpec
INVARIANTS PressesEnd DragIsHeld TouchOwned NoStuckKeys MapsFollowRules ActiveIsPointed
