CONSTANTS
  Orders = {o1}
  Handlers = {h1, h2}
  Ops = {"create", "notify"}
  MayAbort = FALSE
  NoOrder = NoOrder
SPECIFICATION Spec
INVARIANTS OneKeyPerOrder
CHECK_DEADLOCK FALSE
