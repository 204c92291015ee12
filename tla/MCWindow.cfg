CONSTANTS
  Handlers = {h1, h2}
  Members = {m1, m2, m3}
  Window = 2
  MaxTime = 6
  MayFail = TRUE
  None = None
SPECIFICATION Spec
SYMMETRY Symmetry
INVARIANTS NoEarlyLoss
PROPERTIES ImplementsWindow
CHECK_DEADLOCK FALSE
