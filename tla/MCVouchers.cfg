CONSTANTS
  Vouchers = {v1, v2}
  Users = {ann, bob, free}
  Handlers = {h1, h2}
  MaxDebits = 4
  DebitCost = 2
  ann = ann
  bob = bob
  free = free
  v1 = v1
  v2 = v2
  Unlimited = Unlimited
  NoAccount = NoAccount
  None = None
  Amount <- MCAmount
  StartBalance <- MCBalance
SPECIFICATION Spec
SYMMETRY Symmetry
INVARIANTS TypeOK RedemptionsBounded NoCreditLost
CHECK_DEADLOCK FALSE
