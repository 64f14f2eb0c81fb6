CONSTANTS
  Mouse = {m1, m2}
  Finger = {f1, f2}
  NoFinger = NoFinger
SPECIFICATION Spec
SYMMETRY Symmetry
INVARIANT TouchPressEnds
