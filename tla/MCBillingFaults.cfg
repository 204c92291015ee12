CONSTANTS
  Requests = {r1, r2}
  Tokens = {tGold, tOwn}
  Kinds = {"plain", "stream"}
  Costs = {0, 2}
  Faults = {"db", "redis", "crash"}
  MaxRetries = 3
  MaxInFlight = 2
  alice = alice
  gold = gold
  tGold = tGold
  tOwn = tOwn
  tAnon = tAnon
  Users = {alice}
  Groups = {gold}
  NoUser = NoUser
  NoGroup = NoGroup
  Unlimited = Unlimited
  OwnerOf <- MCOwnerOf
  GroupOf <- MCGroupOf
  Quota <- MCQuota
  StartBalance <- MCBalance
  PackageLimit <- MCLimit
SPECIFICATION Spec
SYMMETRY Symmetry
INVARIANTS TypeOK ChargedOnceIffLogged AccountPaysOnceOrPackage LedgersAgree
