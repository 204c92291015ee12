CONSTANTS
  Requests = {r1, r2, r3}
  Tokens = {tOwn, tGold}
  Kinds = {"plain"}
  Costs = {0, 1, 2}
  Faults = {}
  MaxRetries = 1
  MaxInFlight = 2
  alice = alice
  gold = gold
  tGold = tGold
  tOwn = tOwn
  tAnon = tAnon
  Users = {alice}
  Groups = {gold}
  NoUser = NoUser
  NoGroup = NoGroup
  Unlimited = Unlimited
  OwnerOf <- MCOwnerOf
  GroupOf <- MCGroupOf
  Quota <- MCQuota
  StartBalance <- MCBalance
  PackageLimit <- MCLimit
SPECIFICATION Spec
SYMMETRY Symmetry
INVARIANTS OvershootBounded
