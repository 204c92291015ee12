---------------------------------- MODULE Routing ----------------------------------
(***************************************************************************)
(* Which channel serves a request.  find_backend_for_model reads the groups  *)
(* the user sees, then the channels of one group after the other, then       *)
(* perhaps the user's role and all channels.  Every read is a query of its   *)
(* own, and administrators edit the tables between the queries.              *)
(*                                                                          *)
(* A model name stands for itself: the models/ prefix, which both the        *)
(* router and the listing strip, is left out.  Rows whose order the query    *)
(* leaves open are chosen freely.                                           *)
(*                                                                          *)
(* Sources: find_backend_for_model and _visible_model_entries in gateway.py; *)
(* get_visible_groups in services/auth_service.py; the handlers of           *)
(* admin/router.py that write the tables.                                   *)
(***************************************************************************)
EXTENDS Integers

CONSTANTS
  Users, Groups, Channels, Models,
  Fallback,    \* the user _admin_fallback
  Priority,    \* UserGroup.priority
  Weight,      \* Channel.weight
  NoOne,       \* the user of an anonymous key
  NoGroup,     \* the group of a key that is bound to none
  NoModel,     \* a name that the model mapping does not have
  InitialModels, InitialMapping,   \* the channels before the first edit
  InitialLinks,                    \* sets of GroupChannel rows before the first edit
  MaxEdits     \* bound: edits of the tables while the request is routed

ASSUME RoutingAssumption ==
  /\ Fallback \in Users /\ NoOne \notin Users
  /\ NoGroup \notin Groups /\ NoModel \notin Models
  /\ Priority \in [Groups -> Int] /\ Weight \in [Channels -> Nat]
  /\ InitialModels \in [Channels -> SUBSET Models]
  /\ InitialMapping \in [Channels -> [Models -> Models \cup {NoModel}]]
  /\ InitialLinks \subseteq SUBSET (Groups \X Channels)
  /\ MaxEdits \in Nat

VARIABLES
  enabled,   \* Channel.enabled
  models,    \* Channel.models, per channel
  mapping,   \* Channel.model_mapping, per channel: alias to model
  groups,    \* UserGroup rows
  open,      \* groups with all_visible
  members,   \* UserGroupMembership rows
  links,     \* GroupChannel rows
  supers,    \* AdminUser rows with role superadmin
  edits,     \* edits so far
  user, bound, model,   \* of the request: Token.username, Token.group_id, model name
  pc,        \* start, bound, groups, group, role, all, routed, refused
  todo,      \* groups still to be tried
  via,       \* the group that the answer was found in
  answer,    \* the channel and its name for the model
  ever,      \* what held at some moment of the request (see Facts)
  always     \* what held at every moment of the request

tables == <<enabled, models, mapping, groups, open, members, links, supers>>
request == <<user, bound, model, pc, todo, via, answer>>
vars == <<tables, edits, request, ever, always>>

Running == pc \in {"bound", "groups", "group", "role", "all"}

-----------------------------------------------------------------------------
(* The tables, as the queries read them. *)

\* get_visible_groups, without the order.
Visible(u) == {g \in groups : <<u, g>> \in members \/ g \in open}

\* _extract_model_info
Supports(c, m) == m \in models[c] \/ mapping[c][m] # NoModel
Upstream(c, m) == IF mapping[c][m] # NoModel THEN mapping[c][m] ELSE m

Candidates(g) == {c \in enabled : <<g, c>> \in links}

Supported(g) == {c \in Candidates(g) : Supports(c, model)}

\* _weighted_choice: a channel without weight only among its like.
WeightedChoices(S) ==
  LET heavy == {c \in S : Weight[c] > 0}
  IN  IF heavy = {} THEN S ELSE heavy

\* History: what the properties compare the answer with.
Facts ==
  [sees   |-> IF user \in Users THEN Visible(user) ELSE {},
   serves |-> {<<l[1], l[2], Upstream(l[2], model)>> : l \in
                 {k \in links : k[2] \in enabled /\ Supports(k[2], model)}},
   up     |-> {<<c, Upstream(c, model)>> : c \in {d \in enabled : Supports(d, model)}},
   super  |-> user \in supers]

\* The group and channel pairs by which the request can be served.
Reach(f) == {<<t[1], t[2]>> : t \in {s \in f.serves :
               IF bound # NoGroup THEN s[1] = bound ELSE s[1] \in f.sees}}

Both(f, f2) ==
  [sees |-> f.sees \cup f2.sees, serves |-> f.serves \cup f2.serves,
   up |-> f.up \cup f2.up, super |-> f.super \/ f2.super]

Kept(a, f) ==
  [reach |-> a.reach \cap Reach(f), up |-> a.up \cap {p[1] : p \in f.up},
   super |-> a.super /\ f.super]

NoFacts == [sees |-> {}, serves |-> {}, up |-> {}, super |-> FALSE]

-----------------------------------------------------------------------------
Init ==
  /\ enabled = Channels
  /\ models = InitialModels
  /\ mapping = InitialMapping
  /\ groups = Groups
  /\ open \in SUBSET Groups
  /\ links \in InitialLinks
  /\ user \in Users \cup {NoOne}
  /\ members \in SUBSET (({user} \cap Users) \X Groups)
  /\ supers \in SUBSET (({user} \cap Users) \ {Fallback})
  /\ edits = 0
  /\ bound \in Groups \cup {NoGroup}
  /\ model \in Models
  /\ pc = "start" /\ todo = {} /\ via = NoGroup /\ answer = <<>>
  /\ ever = NoFacts
  /\ always = [reach |-> {}, up |-> {}, super |-> FALSE]

-----------------------------------------------------------------------------
(* find_backend_for_model *)

Go(where) == pc' = where
Unedited == UNCHANGED <<tables, edits, user, bound, model, ever, always>>

\* The key's user and group come from the middleware.
Start ==
  /\ pc = "start"
  /\ Go(IF bound # NoGroup THEN "bound" ELSE IF user = NoOne THEN "refused" ELSE "groups")
  /\ ever' = Facts
  /\ always' = [reach |-> Reach(Facts), up |-> {p[1] : p \in Facts.up}, super |-> Facts.super]
  /\ UNCHANGED <<tables, edits, user, bound, model, todo, via, answer>>

Route(g, c) ==
  /\ Go("routed") /\ via' = g
  /\ answer' = <<c, Upstream(c, model)>>
  /\ UNCHANGED todo

Refuse == Go("refused") /\ UNCHANGED <<todo, via, answer>>

\* A bound key looks nowhere else.
RouteBound ==
  /\ pc = "bound"
  /\ IF Supported(bound) = {} THEN Refuse
     ELSE \E c \in WeightedChoices(Supported(bound)) : Route(bound, c)
  /\ Unedited

\* Mutant: only the groups of the highest priority are kept.
ReadFirstGroups ==
  /\ pc = "groups"
  /\ todo' = {g \in Visible(user) : \A h \in Visible(user) : Priority[h] <= Priority[g]}
  /\ Go("group")
  /\ UNCHANGED <<via, answer>> /\ Unedited

ReadGroups ==
  /\ pc = "groups"
  /\ todo' = Visible(user)
  /\ Go("group")
  /\ UNCHANGED <<via, answer>> /\ Unedited

\* Mutant: lowest priority first.
ComesLast(g) == \A h \in todo : Priority[h] >= Priority[g]

\* ORDER BY priority DESC; equal priorities in any order.
ComesFirst(g) == \A h \in todo : Priority[h] <= Priority[g]

TryGroup(g) ==
  /\ pc = "group" /\ g \in todo /\ ComesFirst(g)
  /\ IF Supported(g) = {}
     THEN todo' = todo \ {g} /\ UNCHANGED <<pc, via, answer>>
     ELSE \E c \in WeightedChoices(Supported(g)) : Route(g, c)
  /\ Unedited

NoGroupServes ==
  /\ pc = "group" /\ todo = {}
  /\ Go(IF user = Fallback THEN "all" ELSE "role")
  /\ UNCHANGED <<todo, via, answer>> /\ Unedited

\* Mutant: every user falls back to all channels.
ReadRoleOfNobody ==
  /\ pc = "role"
  /\ Go("all") /\ UNCHANGED <<todo, via, answer>>
  /\ Unedited

ReadRole ==
  /\ pc = "role"
  /\ IF user \in supers THEN Go("all") /\ UNCHANGED <<todo, via, answer>> ELSE Refuse
  /\ Unedited

\* The first channel of the table that has the model.
TryAll ==
  /\ pc = "all"
  /\ LET S == {c \in enabled : Supports(c, model)}
     IN  IF S = {} THEN Refuse ELSE \E c \in S : Route(NoGroup, c)
  /\ Unedited

Router ==
  \/ Start \/ RouteBound \/ ReadGroups \/ NoGroupServes \/ ReadRole \/ TryAll
  \/ \E g \in Groups : TryGroup(g)

-----------------------------------------------------------------------------
(* The administrators' handlers, each at its commit. *)

Edit ==
  /\ Running /\ edits < MaxEdits
  /\ edits' = edits + 1
  /\ UNCHANGED request
  /\ ever' = Both(ever, Facts') /\ always' = Kept(always, Facts')

\* PATCH of a channel.
SetEnabled(c) ==
  /\ enabled' = IF c \in enabled THEN enabled \ {c} ELSE enabled \cup {c}
  /\ UNCHANGED <<models, mapping, groups, open, members, links, supers>>
  /\ Edit

\* PATCH or fetch-models.
SetModels(c) ==
  /\ models' = [models EXCEPT ![c] = IF @ = {} THEN Models ELSE {}]
  /\ UNCHANGED <<enabled, mapping, groups, open, members, links, supers>>
  /\ Edit

\* PATCH or DELETE of a group; memberships and links of a deleted group stay.
SetVisible(g) ==
  /\ g \in groups
  /\ open' = IF g \in open THEN open \ {g} ELSE open \cup {g}
  /\ UNCHANGED <<enabled, models, mapping, groups, members, links, supers>>
  /\ Edit

DeleteGroup(g) ==
  /\ g \in groups
  /\ groups' = groups \ {g}
  /\ UNCHANGED <<enabled, models, mapping, open, members, links, supers>>
  /\ Edit

add_user_to_group(u, g) ==
  /\ g \in groups /\ <<u, g>> \notin members
  /\ members' = members \cup {<<u, g>>}
  /\ UNCHANGED <<enabled, models, mapping, groups, open, links, supers>>
  /\ Edit

remove_user_from_group(u, g) ==
  /\ <<u, g>> \in members
  /\ members' = members \ {<<u, g>>}
  /\ UNCHANGED <<enabled, models, mapping, groups, open, links, supers>>
  /\ Edit

add_channel_to_group(g, c) ==
  /\ g \in groups /\ <<g, c>> \notin links
  /\ links' = links \cup {<<g, c>>}
  /\ UNCHANGED <<enabled, models, mapping, groups, open, members, supers>>
  /\ Edit

remove_channel_from_group(g, c) ==
  /\ <<g, c>> \in links
  /\ links' = links \ {<<g, c>>}
  /\ UNCHANGED <<enabled, models, mapping, groups, open, members, supers>>
  /\ Edit

\* promote_user, demote_user
SetRole(u) ==
  /\ u # Fallback
  /\ supers' = IF u \in supers THEN supers \ {u} ELSE supers \cup {u}
  /\ UNCHANGED <<enabled, models, mapping, groups, open, members, links>>
  /\ Edit

\* Rows of other users do not matter to the request.
Admin ==
  \/ \E c \in Channels : SetEnabled(c) \/ SetModels(c)
  \/ \E g \in Groups : SetVisible(g) \/ DeleteGroup(g)
  \/ \E u \in {user} \ {NoOne}, g \in Groups :
       add_user_to_group(u, g) \/ remove_user_from_group(u, g)
  \/ \E g \in Groups, c \in Channels :
       add_channel_to_group(g, c) \/ remove_channel_from_group(g, c)
  \/ \E u \in {user} \ {NoOne} : SetRole(u)

Next == Router \/ Admin

Spec == Init /\ [][Next]_vars

-----------------------------------------------------------------------------
(* Properties. *)

TypeOK ==
  /\ enabled \subseteq Channels
  /\ models \in [Channels -> SUBSET Models]
  /\ mapping \in [Channels -> [Models -> Models \cup {NoModel}]]
  /\ groups \subseteq Groups /\ open \subseteq Groups
  /\ members \subseteq Users \X Groups /\ links \subseteq Groups \X Channels
  /\ supers \subseteq Users
  /\ user \in Users \cup {NoOne} /\ bound \in Groups \cup {NoGroup} /\ model \in Models
  /\ pc \in {"start", "bound", "groups", "group", "role", "all", "routed", "refused"}
  /\ todo \subseteq Groups
  /\ via \in Groups \cup {NoGroup}
  /\ pc = "routed" <=> answer # <<>>
  /\ edits \in 0..MaxEdits

\* Whatever is edited between the queries, a request is never served outside
\* what it was granted: the group of the answer was one the user saw (or the one
\* the key is bound to), the channel was enabled in it and had the model under
\* the name it is asked for, each at some moment of the request; and only a
\* superadmin or the fallback administrator is served outside the groups.
AnswerWasGranted ==
  pc = "routed" =>
    IF via # NoGroup
    THEN /\ via = bound \/ (bound = NoGroup /\ via \in ever.sees)
         /\ <<via, answer[1], answer[2]>> \in ever.serves
    ELSE /\ bound = NoGroup
         /\ user = Fallback \/ ever.super
         /\ answer \in ever.up

\* A request is not refused while there was, all along, a channel that could
\* serve it.
ReachableIsServed ==
  pc = "refused" =>
    /\ always.reach = {}
    /\ bound = NoGroup /\ (user = Fallback \/ always.super) => always.up = {}

\* Edits do not let a group of lower priority come before a group that could
\* serve the request all along.
PriorityIsKept ==
  pc = "routed" /\ bound = NoGroup =>
    \A p \in always.reach : via # NoGroup /\ Priority[via] >= Priority[p[1]]

=============================================================================
