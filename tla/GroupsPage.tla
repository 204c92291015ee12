---------------------------------- MODULE GroupsPage ----------------------------------
(***************************************************************************)
(* The Groups page of the console: the table and the form of a group, and      *)
(* three dialogs that manage what belongs to one group: its rate-limit rules,  *)
(* its channels and its prices.  A dialog is opened over whatever rows it      *)
(* showed last, and every answer is put into the dialog as it is by then:       *)
(* nothing relates an answer to the group in the title.                       *)
(*                                                                          *)
(* Priority, multiplier and visibility of a group are one value.  A form of a  *)
(* dialog is either filled in or blank; the rule form always holds a valid     *)
(* rule.  The unit that goes with the price mode is left out.                 *)
(*                                                                          *)
(* Sources: pages/Groups/index.tsx and the routes of admin/router.py.         *)
(***************************************************************************)
EXTENDS Integers, FiniteSets

CONSTANTS
  Groups,         \* the groups there may be
  FirstGroups,    \* those there are at first
  GroupChannels, Rules, GroupPrices,   \* what a group may have: ids
  FirstHas,       \* what they have at first: dialog -> group -> ids
  Settings,       \* what the form of a group may say
  FirstSetting,   \* the initial values of the form
  MaxGroupCalls   \* bound: calls of the page, not counting the reads that follow a write

VARIABLES
  groupTable,  \* server: the settings of every group, or Absent
  has,         \* server: dialog -> group -> its rows
  groupList,   \* data: the groups as last read
  spinning,    \* loading
  groupForm,   \* the form: closed, or the group it edits (or NewGroup), name and settings
  dialogs,     \* dialog -> open, managing...Group, rows, its spinner, its button, its form
  allChannels, \* the channels that may be added
  groupCalls,  \* calls on their way, with the server's answer once there is one
  groupSent    \* calls so far

groupVars == <<groupTable, has, groupList, spinning, groupForm, dialogs, allChannels,
               groupCalls, groupSent>>

Dialogs == {"rules", "groupChannels", "groupPrices"}
Items == [rules |-> Rules, groupChannels |-> GroupChannels, groupPrices |-> GroupPrices]
Absent == "absent"
NewGroup == "new group"
NoForm == [of |-> Absent, name |-> Absent, setting |-> Absent]
Blank == "blank"
Filled == "filled"

NoGroups == [g \in Groups |-> Absent]

\* The form of a dialog when it is reset.
FirstEntry(d) == IF d = "rules" THEN Filled ELSE Blank

Unused(step, d) ==
  CHOOSE n \in 1..(Cardinality(groupCalls) + 1) :
    \A c \in groupCalls : c.step = step /\ c.dialog = d => c.no # n

Call(step, d, g, item) ==
  [step |-> step, dialog |-> d, group |-> g, item |-> item, no |-> Unused(step, d),
   status |-> "sent", rows |-> {}, table |-> NoGroups]

PageCall(step, g, item) == Call(step, "page", g, item)

Send(c) ==
  /\ groupSent < MaxGroupCalls
  /\ groupSent' = groupSent + 1
  /\ groupCalls' = groupCalls \cup {c}

GroupsInit ==
  /\ groupTable = [g \in Groups |-> IF g \in FirstGroups THEN FirstSetting ELSE Absent]
  /\ has = FirstHas
  /\ groupList = NoGroups /\ spinning = TRUE
  /\ groupForm = NoForm
  /\ dialogs = [d \in Dialogs |-> [open |-> FALSE, group |-> Absent, rows |-> {},
                                   spins |-> FALSE, adding |-> FALSE, entry |-> FirstEntry(d)]]
  /\ allChannels = {}
  /\ groupCalls = {[step |-> "list", dialog |-> "page", group |-> Absent, item |-> Absent,
                    no |-> 1, status |-> "sent", rows |-> {}, table |-> NoGroups]}
  /\ groupSent = 0

-----------------------------------------------------------------------------
(* The table and the form of a group. *)

\* The form or a dialog covers the page.
Covered == groupForm # NoForm \/ \E d \in Dialogs : dialogs[d].open

\* fetchData, on the way out of the handler that calls it.
ThenFetchData(c) ==
  /\ spinning' = TRUE
  /\ groupCalls' = (groupCalls \ {c}) \cup {PageCall("list", Absent, Absent)}

HandleOpen(g) ==
  /\ ~Covered
  /\ groupForm' = IF g = NewGroup
                  THEN [of |-> NewGroup, name |-> Blank, setting |-> FirstSetting]
                  ELSE [of |-> g, name |-> g, setting |-> groupList[g]]
  /\ UNCHANGED <<groupTable, has, groupList, spinning, dialogs, allChannels, groupCalls, groupSent>>

\* The name of a group that is there cannot be edited.
FillForm(name, setting) ==
  /\ groupForm # NoForm
  /\ groupForm.of # NewGroup => name = groupForm.name
  /\ groupForm' = [groupForm EXCEPT !.name = name, !.setting = setting]
  /\ UNCHANGED <<groupTable, has, groupList, spinning, dialogs, allChannels, groupCalls, groupSent>>

CloseForm ==
  /\ groupForm # NoForm
  /\ groupForm' = NoForm
  /\ UNCHANGED <<groupTable, has, groupList, spinning, dialogs, allChannels, groupCalls, groupSent>>

\* The button does not wait for the answer.
HandleSubmit ==
  /\ groupForm # NoForm /\ groupForm.name # Blank
  /\ Send(PageCall(IF groupForm.of = NewGroup THEN "create" ELSE "update",
                   groupForm.name, groupForm.setting))
  /\ UNCHANGED <<groupTable, has, groupList, spinning, groupForm, dialogs, allChannels>>

\* The form that is open by now closes.
Submitted(c) ==
  /\ c.step \in {"create", "update"} /\ c.status = "ok"
  /\ groupForm' = NoForm
  /\ ThenFetchData(c)
  /\ UNCHANGED <<groupTable, has, groupList, dialogs, allChannels, groupSent>>

HandleDelete(g) ==
  /\ ~Covered
  /\ Send(PageCall("delete", g, Absent))
  /\ UNCHANGED <<groupTable, has, groupList, spinning, groupForm, dialogs, allChannels>>

Deleted(c) ==
  /\ c.step = "delete" /\ c.dialog = "page" /\ c.status = "ok"
  /\ ThenFetchData(c)
  /\ UNCHANGED <<groupTable, has, groupList, groupForm, dialogs, allChannels, groupSent>>

ListLoaded(c) ==
  /\ c.step = "list" /\ c.status = "ok"
  /\ groupList' = c.table
  /\ spinning' = FALSE
  /\ groupCalls' = groupCalls \ {c}
  /\ UNCHANGED <<groupTable, has, groupForm, dialogs, allChannels, groupSent>>

-----------------------------------------------------------------------------
(* The dialogs. *)

\* The rows of the group managed last stay until the answer is there.
OpenDialog(d, g) ==
  /\ ~Covered
  /\ dialogs' = [dialogs EXCEPT ![d].open = TRUE, ![d].group = g, ![d].spins = TRUE,
                                ![d].entry = FirstEntry(d)]
  /\ Send(Call("load", d, g, Absent))
  /\ UNCHANGED <<groupTable, has, groupList, spinning, groupForm, allChannels>>

HandleOpenRules(g) == OpenDialog("rules", g)
OpenChannelModal(g) == OpenDialog("groupChannels", g)
HandleOpenPrices(g) == OpenDialog("groupPrices", g)

CloseDialog(d) ==
  /\ dialogs[d].open
  /\ dialogs' = [dialogs EXCEPT ![d].open = FALSE]
  /\ UNCHANGED <<groupTable, has, groupList, spinning, groupForm, allChannels, groupCalls, groupSent>>

\* A blank form sends nothing.
Add(d) ==
  /\ dialogs[d].open /\ ~dialogs[d].adding /\ dialogs[d].entry # Blank
  /\ dialogs' = [dialogs EXCEPT ![d].adding = TRUE]
  /\ Send(Call("add", d, dialogs[d].group, dialogs[d].entry))
  /\ UNCHANGED <<groupTable, has, groupList, spinning, groupForm, allChannels>>

Remove(d, item) ==
  /\ dialogs[d].open /\ item \in dialogs[d].rows
  /\ Send(Call("delete", d, dialogs[d].group, item))
  /\ UNCHANGED <<groupTable, has, groupList, spinning, groupForm, dialogs, allChannels>>

\* The rows are read again for the group the call was about.
ThenLoad(c, d, dialog) ==
  /\ dialogs' = [dialogs EXCEPT ![d] = [dialog EXCEPT !.spins = TRUE]]
  /\ groupCalls' = (groupCalls \ {c}) \cup {Call("load", d, c.group, Absent)}
  /\ UNCHANGED <<groupTable, has, groupList, spinning, groupForm, allChannels, groupSent>>

Added(d, c) ==
  /\ c.step = "add" /\ c.dialog = d /\ c.status = "ok"
  /\ ThenLoad(c, d, [dialogs[d] EXCEPT !.adding = FALSE, !.entry = FirstEntry(d)])

Removed(d, c) ==
  /\ c.step = "delete" /\ c.dialog = d /\ c.status = "ok"
  /\ ThenLoad(c, d, dialogs[d])

Loaded(d, c) ==
  /\ c.step = "load" /\ c.dialog = d /\ c.status = "ok"
  /\ dialogs' = [dialogs EXCEPT ![d].rows = c.rows, ![d].spins = FALSE]
  /\ allChannels' = IF d = "groupChannels" THEN GroupChannels ELSE allChannels
  /\ groupCalls' = groupCalls \ {c}
  /\ UNCHANGED <<groupTable, has, groupList, spinning, groupForm, groupSent>>

HandleAddRule == Add("rules")
HandleDeleteRule(r) == Remove("rules", r)
RulesFetched(c) == Loaded("rules", c)
RuleAdded(c) == Added("rules", c)
RuleDeleted(c) == Removed("rules", c)

HandleAddGroupPrice == Add("groupPrices")
HandleDeleteGroupPrice(p) == Remove("groupPrices", p)
PricesFetched(c) == Loaded("groupPrices", c)
PriceAdded(c) == Added("groupPrices", c)
PriceDeleted(c) == Removed("groupPrices", c)

\* The name and the price, typed or cleared.
TypePrice(e) ==
  /\ dialogs["groupPrices"].open
  /\ dialogs' = [dialogs EXCEPT !["groupPrices"].entry = e]
  /\ UNCHANGED <<groupTable, has, groupList, spinning, groupForm, allChannels, groupCalls, groupSent>>

-----------------------------------------------------------------------------
(* The channels of a group: no spinner over the read after an addition, and a      *)
(* removal is applied to the rows on the page.                                   *)

ChannelOptions == allChannels \ dialogs["groupChannels"].rows

PickChannel(e) ==
  /\ dialogs["groupChannels"].open /\ e \in ChannelOptions \cup {Blank}
  /\ dialogs' = [dialogs EXCEPT !["groupChannels"].entry = e]
  /\ UNCHANGED <<groupTable, has, groupList, spinning, groupForm, allChannels, groupCalls, groupSent>>

HandleAddChannelToGroup == Add("groupChannels")
HandleRemoveChannelFromGroup(c) == Remove("groupChannels", c)
ChannelsLoaded(c) == Loaded("groupChannels", c)

ChannelAdded(c) ==
  /\ c.step = "add" /\ c.dialog = "groupChannels" /\ c.status = "ok"
  /\ dialogs' = [dialogs EXCEPT !["groupChannels"].entry = Blank]
  /\ groupCalls' = (groupCalls \ {c}) \cup {Call("reload", "groupChannels", c.group, Absent)}
  /\ UNCHANGED <<groupTable, has, groupList, spinning, groupForm, allChannels, groupSent>>

ChannelsReloaded(c) ==
  /\ c.step = "reload" /\ c.status = "ok"
  /\ dialogs' = [dialogs EXCEPT !["groupChannels"].rows = c.rows, !["groupChannels"].adding = FALSE]
  /\ groupCalls' = groupCalls \ {c}
  /\ UNCHANGED <<groupTable, has, groupList, spinning, groupForm, allChannels, groupSent>>

ChannelRemoved(c) ==
  /\ c.step = "delete" /\ c.dialog = "groupChannels" /\ c.status = "ok"
  /\ dialogs' = [dialogs EXCEPT !["groupChannels"].rows = @ \ {c.item}]
  /\ groupCalls' = groupCalls \ {c}
  /\ UNCHANGED <<groupTable, has, groupList, spinning, groupForm, allChannels, groupSent>>

\* What the catch and finally blocks of the handlers leave.
CallFailed(c) ==
  /\ c.status = "error"
  /\ groupCalls' = groupCalls \ {c}
  /\ spinning' = (spinning /\ c.step # "list")
  /\ dialogs' = [d \in Dialogs |->
       IF c.dialog = d
       THEN [dialogs[d] EXCEPT !.spins = @ /\ c.step # "load",
                               !.adding = @ /\ c.step \notin {"add", "reload"}]
       ELSE dialogs[d]]
  /\ UNCHANGED <<groupTable, has, groupList, groupForm, allChannels, groupSent>>

-----------------------------------------------------------------------------
(* The server. *)

Answers(c, d) == <<c.step, c.dialog, c.no>> = <<d.step, d.dialog, d.no>>

Reply(c, status, table, owned) ==
  /\ groupTable' = table /\ has' = owned
  /\ groupCalls' = {d \in groupCalls : ~Answers(c, d)} \cup {[c EXCEPT !.status = status]}
  /\ UNCHANGED <<groupList, spinning, groupForm, dialogs, allChannels, groupSent>>

ServeList(c) ==
  /\ c.status = "sent" /\ c.step = "list"
  /\ Reply([c EXCEPT !.table = groupTable], "ok", groupTable, has)

\* A read of group prices may bring those of all groups: the generated route is not
\* told that group_id filters.
ServeRows(c) ==
  /\ c.status = "sent" /\ c.step \in {"load", "reload"}
  /\ \E rows \in {has[c.dialog][c.group]}
                 \cup (IF c.dialog = "groupPrices" THEN {UNION {has["groupPrices"][g] : g \in Groups}} ELSE {}) :
       Reply([c EXCEPT !.rows = rows], "ok", groupTable, has)

\* Names of groups are unique.
ServeGroup(c) ==
  /\ c.status = "sent" /\ c.step \in {"create", "update", "delete"} /\ c.dialog = "page"
  /\ IF (groupTable[c.group] = Absent) = (c.step = "create")
     THEN Reply(c, "ok", [groupTable EXCEPT ![c.group] = c.item], has)
     ELSE Reply(c, "error", groupTable, has)

\* Ids are given away once; a row belongs to one group.
ServeRow(c) ==
  LET d == c.dialog
      taken == UNION {has[d][g] : g \in Groups}
  IN  /\ c.status = "sent" /\ d \in {"rules", "groupPrices"}
      /\ \/ /\ c.step = "add"
            /\ \E id \in Items[d] \ taken :
                 Reply(c, "ok", groupTable, [has EXCEPT ![d][c.group] = @ \cup {id}])
         \/ /\ c.step = "delete" /\ c.item \in taken
            /\ Reply(c, "ok", groupTable,
                     [has EXCEPT ![d] = [g \in Groups |-> has[d][g] \ {c.item}]])
         \/ /\ c.step = "delete" /\ c.item \notin taken
            /\ Reply(c, "error", groupTable, has)

AddChannelToGroup(c) ==
  /\ c.status = "sent" /\ c.step = "add" /\ c.dialog = "groupChannels"
  /\ IF groupTable[c.group] = Absent
     THEN Reply(c, "error", groupTable, has)
     ELSE Reply(c, "ok", groupTable, [has EXCEPT !["groupChannels"][c.group] = @ \cup {c.item}])

RemoveChannelFromGroup(c) ==
  /\ c.status = "sent" /\ c.step = "delete" /\ c.dialog = "groupChannels"
  /\ IF c.item \notin has["groupChannels"][c.group]
     THEN Reply(c, "error", groupTable, has)
     ELSE Reply(c, "ok", groupTable, [has EXCEPT !["groupChannels"][c.group] = @ \ {c.item}])

\* A call fails, or its answer is lost.
Lose(c) ==
  /\ c.status # "error"
  /\ Reply(c, "error", groupTable, has)

-----------------------------------------------------------------------------
(* What each part of the page lets the user do. *)

\* Parts of the page that are in use; "form" is the form of a group.
Parts == Dialogs \cup {"form"}

RowActions(g, parts) ==
  /\ groupList[g] # Absent
  /\ \/ HandleDelete(g)
     \/ "form" \in parts /\ HandleOpen(g)
     \/ "groupChannels" \in parts /\ OpenChannelModal(g)
     \/ "rules" \in parts /\ HandleOpenRules(g)
     \/ "groupPrices" \in parts /\ HandleOpenPrices(g)

GroupModal ==
  \/ \E name \in Groups, setting \in Settings : FillForm(name, setting)
  \/ HandleSubmit \/ CloseForm

RulesModal == HandleAddRule \/ (\E r \in Rules : HandleDeleteRule(r)) \/ CloseDialog("rules")

ChannelsModal ==
  \/ \E e \in GroupChannels \cup {Blank} : PickChannel(e)
  \/ HandleAddChannelToGroup
  \/ \E c \in GroupChannels : HandleRemoveChannelFromGroup(c)
  \/ CloseDialog("groupChannels")

PricesModal ==
  \/ TypePrice(Blank) \/ TypePrice(Filled)
  \/ HandleAddGroupPrice
  \/ \E p \in GroupPrices : HandleDeleteGroupPrice(p)
  \/ CloseDialog("groupPrices")

GroupsNextOf(parts) ==
  \/ "form" \in parts /\ HandleOpen(NewGroup)
  \/ \E g \in Groups : RowActions(g, parts)
  \/ GroupModal \/ RulesModal \/ ChannelsModal \/ PricesModal
  \/ \E c \in groupCalls :
       \/ Submitted(c) \/ Deleted(c) \/ ListLoaded(c) \/ CallFailed(c)
       \/ RulesFetched(c) \/ RuleAdded(c) \/ RuleDeleted(c)
       \/ PricesFetched(c) \/ PriceAdded(c) \/ PriceDeleted(c)
       \/ ChannelsLoaded(c) \/ ChannelAdded(c) \/ ChannelsReloaded(c) \/ ChannelRemoved(c)
       \/ ServeList(c) \/ ServeRows(c) \/ ServeGroup(c) \/ ServeRow(c)
       \/ AddChannelToGroup(c) \/ RemoveChannelFromGroup(c) \/ Lose(c)

GroupsNext == GroupsNextOf(Parts)

-----------------------------------------------------------------------------
(* Properties. *)

Tables == [Groups -> Settings \cup {Absent}]

\* What may be entered into the form of a dialog.
Entries ==
  [rules |-> {Filled}, groupChannels |-> GroupChannels \cup {Blank},
   groupPrices |-> {Blank, Filled}]

DialogTypeOK(d, dialog) ==
  /\ dialog.open \in BOOLEAN /\ (dialog.open => dialog.group \in Groups)
  /\ dialog.rows \subseteq Items[d]
  /\ dialog.entry \in Entries[d]

CallTypeOK(c) ==
  /\ c.dialog \in Dialogs \cup {"page"} /\ c.table \in Tables
  /\ c.step \in {"load", "add"} => c.dialog \in Dialogs
  /\ c.dialog \in Dialogs => c.group \in Groups /\ c.rows \subseteq Items[c.dialog]
  /\ c.dialog = "page" => c.item \in Settings \cup {Absent}
  /\ c.step = "add" => c.item \in Entries[c.dialog] \ {Blank}

GroupsTypeOK ==
  /\ groupTable \in Tables /\ groupList \in Tables /\ spinning \in BOOLEAN
  /\ DOMAIN has = Dialogs /\ \A d \in Dialogs : has[d] \in [Groups -> SUBSET Items[d]]
  /\ groupForm \in {NoForm} \cup [of : Groups \cup {NewGroup}, name : Groups \cup {Blank},
                                 setting : Settings]
  /\ \A d \in Dialogs : DialogTypeOK(d, dialogs[d])
  /\ allChannels \subseteq GroupChannels
  /\ \A c \in groupCalls : CallTypeOK(c)
  /\ groupSent \in 0..MaxGroupCalls

\* A spinner turns only while a load is on its way, and the button of a dialog is
\* locked exactly while what it sent, or the read that follows, is on its way:
\* whatever was closed, opened for another group, refused or lost meanwhile
\* (fetchRules, fetchGroupPrices, openChannelModal and the handlers that add).
DialogsComeToRest ==
  LET underWay(d, steps) == \E c \in groupCalls : c.dialog = d /\ c.step \in steps
  IN  /\ spinning => underWay("page", {"list"})
      /\ \A d \in Dialogs :
           /\ dialogs[d].spins => underWay(d, {"load"})
           /\ dialogs[d].adding <=> underWay(d, {"add", "reload"})
=============================================================================
