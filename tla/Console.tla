---------------------------------- MODULE Console ----------------------------------
(***************************************************************************)
(* The pages of the console.  A page is mounted by itself and shares no state *)
(* with the others but the identity (ConsoleSession, which has all tabs of    *)
(* the browser): what is mounted is chosen at the start, the variables of the *)
(* other pages stay as they are.                                             *)
(***************************************************************************)
EXTENDS DashboardPage, ConsoleSession

CONSTANTS
  Mounted,      \* the pages to explore
  Channels, Models, Upstream, FirstRows, Texts, Forms, MaxCalls, MaxEdits,
  OrderPages, OrderFilters, FirstFilter, PaidOrders, MaxOrderFetches,
  LogPages, LogFilters, Today, Rows, MaxLogFetches,
  Pieces, Indexes, Finishes, MaxLines,
  ChatKeys, NoKey, ModelsOfKey, MaxSends, MaxPieces, MaxSelects,
  PriceModels, FirstPrices, PriceForms, MaxSubmits, MaxRowId,
  Groups, FirstGroups, GroupChannels, Rules, GroupPrices, FirstHas,
  Settings, FirstSetting, MaxGroupCalls

ASSUME MaxAssumption ==
  /\ MaxSends \in Nat /\ MaxPieces \in Nat /\ MaxLines \in Nat /\ MaxSelects \in Nat
  /\ MaxVisits \in Nat /\ MaxSignIns \in Nat \ {0}
  /\ MaxOrderFetches \in Nat \ {0} /\ MaxLogFetches \in Nat \ {0}
  /\ MaxCalls \in Nat /\ MaxEdits \in Nat /\ MaxSubmits \in Nat /\ MaxGroupCalls \in Nat

\* The server knows three roles.
ASSUME RolesAssumption == \A u \in DOMAIN RoleOf : RoleOf[u] \in Roles

\* Tables open at their first page.
ASSUME FirstPageAssumption ==
  1 \in OrderPages /\ 1 \in LogPages /\ FirstFilter \in OrderFilters /\ Today \in LogFilters

\* An answer without a reason to finish is none that has one.
ASSUME FinishAssumption == "none" \notin Finishes

ASSUME UpstreamAssumption == \A c \in Channels : Upstream[c] \subseteq Models

ASSUME FirstRowsAssumption ==
  /\ FirstRows = [c \in Channels |-> FirstRows[c]]
  /\ \A c \in Channels :
       FirstRows[c] = [f \in {"conf", "key", "mapping", "models"} |-> FirstRows[c][f]]

VARIABLES
  mounted,
  rows, listed, drawer, dialog, candidates, cache, seq, calls, sent, edits,
  page, filter, rowsOf, fetches, fetched, failed, marks, paid, markResult,
  typed, pager, listedOf, logCalls, asked, logsLoading, lastFailed,
  messages, expanded, messageCalls, stored,
  lines, whole,
  key, chosen, offered, modelLoads, selects, history, streams, sends, sending,
  priceTable, lastId, data, priceLoads, open, editing, priceMode, chains, submitted, notice,
  groupTable, has, groupList, spinning, groupForm, dialogs, allChannels, groupCalls, groupSent

Ch == INSTANCE ChannelsPage
Ord == INSTANCE OrdersTab WITH Orders <- PaidOrders, MaxFetches <- MaxOrderFetches
Log == INSTANCE LogsPage WITH MaxFetches <- MaxLogFetches
Parse == INSTANCE LogParsing
Chat == INSTANCE ChatPage
Price == INSTANCE PricesPage
Group == INSTANCE GroupsPage

\* The rows of the price table have the units that its column lists (models.py 276), and
\* every unit has a field in the form.
ASSUME FirstPricesAssumption ==
  /\ IsFiniteSet(FirstPrices) /\ FirstPrices \subseteq Price!PriceRows
  /\ PriceForms \subseteq [Price!Units -> Int]

ASSUME FirstHasAssumption ==
  /\ FirstSetting \in Settings /\ DOMAIN FirstHas = Group!Dialogs
  /\ \A d \in Group!Dialogs : FirstHas[d] \in [Groups -> SUBSET Group!Items[d]]

-----------------------------------------------------------------------------
channelVars == <<rows, listed, drawer, dialog, candidates, cache, seq, calls, sent, edits>>
ordersVars == <<page, filter, rowsOf, fetches, fetched, failed, marks, paid, markResult>>
logsVars == <<typed, pager, listedOf, logCalls, asked, logsLoading, lastFailed, messages,
              expanded, messageCalls, stored>>
parseVars == <<lines, whole>>
chatVars == <<key, chosen, offered, modelLoads, selects, history, streams, sends, sending>>
priceVars == <<priceTable, lastId, data, priceLoads, open, editing, priceMode, chains,
               submitted, notice>>

groupVars == <<groupTable, has, groupList, spinning, groupForm, dialogs, allChannels,
               groupCalls, groupSent>>

otherVars == <<channelVars, ordersVars, logsVars, parseVars, chatVars, priceVars,
               groupVars>>

Init ==
  /\ mounted \in Mounted
  /\ DashInit /\ SessionInit
  /\ Ch!ChannelsInit /\ Ord!OrdersInit /\ Log!LogsInit /\ Parse!ParseInit
  /\ Chat!ChatInit /\ Price!PriceInit /\ Group!GroupsInit

Next ==
  /\ UNCHANGED mounted
  /\ \/ mounted = "dashboard" /\ DashNext /\ UNCHANGED <<sessionVars, otherVars>>
     \/ mounted = "session" /\ SessionNext /\ UNCHANGED <<dashVars, otherVars>>
     \/ /\ UNCHANGED <<dashVars, sessionVars>>
        /\ \/ mounted = "channels" /\ Ch!ChannelsNext
              /\ UNCHANGED <<ordersVars, logsVars, parseVars, chatVars, priceVars, groupVars>>
           \/ mounted = "orders" /\ Ord!OrdersNext
              /\ UNCHANGED <<channelVars, logsVars, parseVars, chatVars, priceVars, groupVars>>
           \/ mounted = "logs" /\ Log!LogsNext
              /\ UNCHANGED <<channelVars, ordersVars, parseVars, chatVars, priceVars, groupVars>>
           \/ mounted = "parsing" /\ Parse!ParseNext
              /\ UNCHANGED <<channelVars, ordersVars, logsVars, chatVars, priceVars, groupVars>>
           \/ mounted = "chat" /\ Chat!ChatNext
              /\ UNCHANGED <<channelVars, ordersVars, logsVars, parseVars, priceVars, groupVars>>
           \/ mounted = "prices" /\ Price!PriceNext
              /\ UNCHANGED <<channelVars, ordersVars, logsVars, parseVars, chatVars, groupVars>>
           \/ mounted \in Group!Parts /\ Group!GroupsNextOf({mounted})
              /\ UNCHANGED <<channelVars, ordersVars, logsVars, parseVars, chatVars, priceVars>>

consoleVars == <<mounted, dashVars, sessionVars, otherVars>>

\* Calls are answered or fail, and the effects and guards of a mounted page run.
Spec ==
  /\ Init /\ [][Next]_consoleVars
  /\ WF_dashVars(mounted = "dashboard" /\ LoadStep)
  /\ \A t \in Tabs : WF_sessionVars(mounted = "session" /\ TabStep(t))

-----------------------------------------------------------------------------
(* Properties of the pages. *)

\* The variables of every page have their types.
ConsoleTypeOK ==
  /\ DashTypeOK /\ SessionTypeOK
  /\ Ch!ChannelsTypeOK /\ Ord!OrdersTypeOK /\ Log!LogsTypeOK /\ Parse!ParseTypeOK
  /\ Chat!ChatTypeOK /\ Price!PriceTypeOK /\ Group!GroupsTypeOK

\* DashboardPage: a load that is shown as under way ends.
DashboardLoadingEnds == []<>(mounted = "dashboard" => ~loading)

\* ChannelsPage: the drawer and the model dialog do not undo each other's saves.
SavesKeepTheRest == Ch!SavesKeepTheRest

\* A page with nothing on its way is at rest: in OrdersTab and LogsPage the pager is at
\* the page whose rows are shown, in GroupsPage no spinner turns, no button is locked.
PagesComeToRest ==
  Ord!PagerIsAtTheRows /\ Log!LogPagerIsAtTheRows /\ Group!DialogsComeToRest

\* LogParsing: a stream is read like the same answer in one piece.
StreamReadsLikeMessage == Parse!StreamReadsLikeMessage

\* ChatPage: no bubble mixes two answers.
NoMixedAnswers == Chat!NoMixedAnswers

\* PricesPage: success is only reported when every row that had to go is gone.
DoneMeansGone == Price!DoneMeansGone
=============================================================================
