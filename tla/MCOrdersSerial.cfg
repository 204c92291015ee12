CONSTANTS
  Orders = {o1, o2}
  Handlers = {h1}
  Ops = {"create", "notify", "markPaid", "poll", "list", "misPay"}
  MayAbort = TRUE
  NoOrder = NoOrder
SPECIFICATION Spec
INVARIANTS OneKeyPerOrder
PROPERTIES ImplementsSale
CHECK_DEADLOCK FALSE
