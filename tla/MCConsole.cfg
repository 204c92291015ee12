SPECIFICATION Spec
CONSTANTS
  Mounted = {"dashboard", "session", "channels", "orders", "logs", "parsing", "chat", "prices",
             "form", "rules", "groupChannels", "groupPrices"}
  IsAdmin = TRUE
  Days = {"today"}
  FirstDays = "today"
  Users = {"ann"}
  Anyone = ""
  Orders = {"desc"}
  FirstOrder = "desc"
  Figures = {"usage"}
  Vouchers = {"v"}
  MaxLoads = 3
  MaxPage = 2
  Tabs = {"t1", "t2"}
  RoleOf <- MCRoleOf
  MaxSignIns = 2
  MaxVisits = 1
  Channels = {"A", "B"}
  Models = {"m", "n"}
  MaxCalls = 3
  MaxEdits = 1
  OrderPages = {1, 2}
  OrderFilters = {"all", "paid"}
  FirstFilter = "all"
  PaidOrders = {"o1"}
  MaxOrderFetches = 4
  LogPages = {1, 2}
  LogFilters = {"today", "all"}
  Today = "today"
  Rows = {"r1"}
  MaxLogFetches = 3
  Pieces = {"x", "y"}
  Indexes = {0, 1}
  Finishes = {"stop", "length", "tool_calls"}
  MaxLines = 4
  ChatKeys = {"k1", "k2"}
  NoKey = ""
  MaxSends = 2
  MaxPieces = 2
  MaxSelects = 3
  MaxSubmits = 2
  MaxRowId = 3
  Groups = {"g1", "g2"}
  FirstGroups = {"g1", "g2"}
  GroupChannels = {"c1"}
  Rules = {"r1", "r2"}
  GroupPrices = {"p1"}
  Settings = {"s1"}
  FirstSetting = "s1"
  MaxGroupCalls = 3
  Upstream <- MCUpstream
  FirstRows <- MCFirstRows
  Forms <- MCForms
  Texts <- MCTexts
  ModelsOfKey <- MCModelsOfKey
  PriceModels <- MCPriceModels
  FirstPrices <- MCFirstPrices
  PriceForms <- MCPriceForms
  FirstHas <- MCFirstHas
INVARIANTS ConsoleTypeOK OneIdentity RedeemedIsShown PagesComeToRest  NoMixedAnswers
PROPERTIES ImplementsLatest DashboardLoadingEnds  SavesKeepTheRest DoneMeansGone
CHECK_DEADLOCK FALSE
