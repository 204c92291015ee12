CONSTANTS
  Orders = {o1, o2}
  Handlers = {h1, h2}
  Ops = {"create", "notify", "markPaid", "poll", "list", "misPay"}
  MayAbort = TRUE
  NoOrder = NoOrder
SPECIFICATION FairSpec
INVARIANTS DeliveredAtomically KeysBoundedByRacers
PROPERTIES DeliveryIsFinal PaidIsDelivered
CHECK_DEADLOCK FALSE
