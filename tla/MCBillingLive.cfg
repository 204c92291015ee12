CONSTANTS
  Requests = {r1, r2}
  Tokens = {tGold}
  Kinds = {"plain", "convert"}
  Costs = {0, 1}
  Faults = {"db"}
  MaxRetries = 2
  MaxInFlight = 1
  alice = alice
  gold = gold
  tGold = tGold
  tOwn = tOwn
  tAnon = tAnon
  Users = {alice}
  Groups = {gold}
  NoUser = NoUser
  NoGroup = NoGroup
  Unlimited = Unlimited
  OwnerOf <- MCOwnerOf
  GroupOf <- MCGroupOf
  Quota <- MCQuota
  StartBalance <- MCBalance
  PackageLimit <- MCLimit
SPECIFICATION FairSpec
PROPERTIES AnsweredIsLogged 
