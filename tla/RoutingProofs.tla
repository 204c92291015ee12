---------------------------- MODULE RoutingProofs ----------------------------
(***************************************************************************)
(* Proofs about Routing, for any tables, any priorities and weights, and    *)
(* any number of edits between the queries.                                 *)
(*                                                                          *)
(* The history variables tie the request to the tables: while the request   *)
(* runs, what holds now has held at some moment (Recorded), and what has     *)
(* held all along holds now (StillHolds).  The rest says what the place in   *)
(* the search implies (Progress): the groups still to be tried were seen,    *)
(* and every pair of group and channel that has been open all along is       *)
(* still ahead.                                                             *)
(***************************************************************************)
EXTENDS Routing, TLAPS

Searching == {"groups", "group", "role", "all"}

\* What holds now is part of the history.
Recorded ==
  Running => /\ Facts.sees \subseteq ever.sees
             /\ Facts.serves \subseteq ever.serves
             /\ Facts.up \subseteq ever.up
             /\ Facts.super => ever.super

\* What held all along holds now.
StillHolds ==
  Running => /\ always.reach \subseteq Reach(Facts)
             /\ always.up \subseteq {p[1] : p \in Facts.up}
             /\ always.super => Facts.super

Progress ==
  /\ pc = "bound" => bound # NoGroup
  /\ pc \in Searching => bound = NoGroup /\ user \in Users
  /\ pc = "group" => /\ todo \subseteq ever.sees
                     /\ \A p \in always.reach : p[1] \in todo
  /\ pc \in {"role", "all"} => always.reach = {}
  /\ pc = "role" => user # Fallback
  /\ pc = "all" => user = Fallback \/ ever.super

Served == AnswerWasGranted /\ ReachableIsServed /\ PriorityIsKept

IInv == TypeOK /\ Recorded /\ StillHolds /\ Progress /\ Served

-----------------------------------------------------------------------------
(* The tables and the history. *)

\* What the tables say changes only with the tables.
LEMMA SameFacts ==
  ASSUME UNCHANGED <<tables, user, bound, model>>
  PROVE  Facts' = Facts /\ Reach(Facts)' = Reach(Facts)
<1>1. /\ enabled' = enabled /\ models' = models /\ mapping' = mapping /\ groups' = groups
      /\ open' = open /\ members' = members /\ links' = links /\ supers' = supers
      /\ user' = user /\ bound' = bound /\ model' = model
  BY DEF tables
<1>2. Facts' = Facts
  BY <1>1 DEF Facts, Visible, Supports, Upstream
<1>3. Reach(Facts)' = Reach(Facts)
  BY <1>1, <1>2 DEF Reach
<1>4. QED BY <1>2, <1>3

\* A channel the router may pick in a group is reachable there at that moment.
LEMMA PickedServes ==
  ASSUME NEW g \in Groups, NEW c \in WeightedChoices(Supported(g))
  PROVE  <<g, c, Upstream(c, model)>> \in Facts.serves
<1>1. c \in Supported(g)
  BY DEF WeightedChoices
<1>2. <<g, c>> \in links /\ c \in enabled /\ Supports(c, model)
  BY <1>1 DEF Supported, Candidates
<1>3. QED BY <1>2 DEF Facts

\* A group that is reachable now has a channel to pick, and so does one that has
\* been reachable all along.
LEMMA ReachServes ==
  ASSUME links \subseteq Groups \X Channels, NEW p \in Reach(Facts)
  PROVE  /\ p[1] \in Groups
         /\ p[2] \in Supported(p[1])
         /\ bound # NoGroup => p[1] = bound
         /\ bound = NoGroup => p[1] \in Facts.sees
<1>1. PICK t \in Facts.serves :
        /\ p = <<t[1], t[2]>>
        /\ IF bound # NoGroup THEN t[1] = bound ELSE t[1] \in Facts.sees
  BY DEF Reach
<1>2. PICK l \in links : /\ l[2] \in enabled /\ Supports(l[2], model)
                         /\ t = <<l[1], l[2], Upstream(l[2], model)>>
  BY DEF Facts
<1>3. p[1] = l[1] /\ p[2] = l[2] /\ t[1] = l[1]
  BY <1>1, <1>2
<1>4. l \in Groups \X Channels
  OBVIOUS
<1>5. l[1] \in Groups /\ <<l[1], l[2]>> = l
  BY <1>4
<1>6. p[2] \in Supported(p[1])
  BY <1>2, <1>3, <1>5 DEF Supported, Candidates
<1>7. QED BY <1>1, <1>3, <1>5, <1>6

-----------------------------------------------------------------------------
(* Types. *)

LEMMA TypeInit == ASSUME Init PROVE TypeOK
BY RoutingAssumption DEF Init, TypeOK

\* A step of the router leaves the tables alone, and either answers or does not.
LEMMA RouterTypes ==
  ASSUME TypeOK, UNCHANGED <<tables, edits, user, bound, model>>,
         pc' \in {"bound", "groups", "group", "role", "all", "routed", "refused"},
         todo' \subseteq Groups, via' \in Groups \cup {NoGroup},
         pc' = "routed" <=> answer' # <<>>
  PROVE  TypeOK'
BY DEF TypeOK, tables

LEMMA RouteTypes ==
  ASSUME TypeOK, Unedited, NEW g \in Groups \cup {NoGroup}, NEW c, Route(g, c)
  PROVE  TypeOK'
<1>1. answer' # <<>>
  BY DEF Route
<1>2. QED BY <1>1, RouterTypes DEF Route, Go, Unedited, TypeOK

LEMMA RefuseTypes == ASSUME TypeOK, Unedited, pc # "routed", Refuse PROVE TypeOK'
BY RouterTypes DEF Refuse, Go, Unedited, TypeOK

\* An edit leaves the request alone.
LEMMA EditTypes ==
  ASSUME TypeOK, Edit,
         enabled' \subseteq Channels, models' \in [Channels -> SUBSET Models],
         mapping' = mapping, groups' \subseteq Groups, open' \subseteq Groups,
         members' \subseteq Users \X Groups, links' \subseteq Groups \X Channels,
         supers' \subseteq Users
  PROVE  TypeOK'
<1>1. edits' \in 0..MaxEdits
  BY RoutingAssumption DEF Edit, TypeOK
<1>2. QED BY <1>1 DEF Edit, request, TypeOK

LEMMA TypeStep == ASSUME TypeOK, [Next]_vars PROVE TypeOK'
<1>1. CASE Router
  <2>1. CASE Start
    BY <2>1, RouterTypes DEF Start, TypeOK, Go
  <2>2. CASE RouteBound
    BY <2>2, RouteTypes, RefuseTypes DEF RouteBound, TypeOK
  <2>3. CASE ReadGroups
    BY <2>3, RouterTypes DEF ReadGroups, Visible, Unedited, TypeOK, Go
  <2>4. CASE NoGroupServes
    BY <2>4, RouterTypes DEF NoGroupServes, Unedited, TypeOK, Go
  <2>5. CASE ReadRole
    <3>1. CASE user \in supers
      BY <2>5, <3>1, RouterTypes DEF ReadRole, Unedited, TypeOK, Go
    <3>2. CASE user \notin supers
      BY <2>5, <3>2, RefuseTypes DEF ReadRole
    <3>3. QED BY <3>1, <3>2
  <2>6. CASE TryAll
    BY <2>6, RouteTypes, RefuseTypes DEF TryAll
  <2>7. ASSUME NEW g \in Groups, TryGroup(g) PROVE TypeOK'
    <3>1. CASE Supported(g) = {}
      BY <2>7, <3>1, RouterTypes DEF TryGroup, Unedited, TypeOK
    <3>2. CASE Supported(g) # {}
      BY <2>7, <3>2, RouteTypes DEF TryGroup
    <3>3. QED BY <3>1, <3>2
  <2>8. QED BY <1>1, <2>1, <2>2, <2>3, <2>4, <2>5, <2>6, <2>7 DEF Router
<1>2. CASE Admin
  <2>1. ASSUME NEW c \in Channels, SetEnabled(c) \/ SetModels(c) PROVE TypeOK'
    BY <2>1, EditTypes DEF SetEnabled, SetModels, TypeOK
  <2>2. ASSUME NEW g \in Groups, SetVisible(g) \/ DeleteGroup(g) PROVE TypeOK'
    BY <2>2, EditTypes DEF SetVisible, DeleteGroup, TypeOK
  <2>3. ASSUME NEW u \in {user} \ {NoOne}, NEW g \in Groups,
               add_user_to_group(u, g) \/ remove_user_from_group(u, g)
        PROVE  TypeOK'
    BY <2>3, EditTypes DEF add_user_to_group, remove_user_from_group, TypeOK
  <2>4. ASSUME NEW g \in Groups, NEW c \in Channels,
               add_channel_to_group(g, c) \/ remove_channel_from_group(g, c)
        PROVE  TypeOK'
    BY <2>4, EditTypes DEF add_channel_to_group, remove_channel_from_group, TypeOK
  <2>5. ASSUME NEW u \in {user} \ {NoOne}, SetRole(u) PROVE TypeOK'
    BY <2>5, EditTypes DEF SetRole, TypeOK
  <2>6. QED BY <1>2, <2>1, <2>2, <2>3, <2>4, <2>5 DEF Admin
<1>3. CASE UNCHANGED vars
  BY <1>3 DEF vars, tables, request, TypeOK
<1>4. QED BY <1>1, <1>2, <1>3 DEF Next

\* The types, for all constants.
THEOREM RoutingTypeOK == Spec => []TypeOK
BY TypeInit, TypeStep, PTL DEF Spec

-----------------------------------------------------------------------------
(* The inductive invariant. *)

LEMMA InvInit == ASSUME Init PROVE IInv
BY TypeInit DEF Init, IInv, Recorded, StillHolds, Progress, Served, Running, Searching,
                AnswerWasGranted, ReachableIsServed, PriorityIsKept

\* A step of the router that stays in the search keeps the history in place.
LEMMA HistoryKept ==
  ASSUME Recorded, StillHolds, Unedited, Running
  PROVE  Recorded' /\ StillHolds'
<1>1. Facts' = Facts /\ Reach(Facts)' = Reach(Facts) /\ ever' = ever /\ always' = always
  BY SameFacts DEF Unedited
<1>2. QED BY <1>1 DEF Recorded, StillHolds

LEMMA StepStart == ASSUME IInv, Start PROVE Recorded' /\ StillHolds' /\ Progress' /\ Served'
<1>1. Facts' = Facts /\ Reach(Facts)' = Reach(Facts)
  BY SameFacts DEF Start
<1>2. Recorded'
  BY <1>1 DEF Start, Recorded
<1>3. StillHolds'
  BY <1>1 DEF Start, StillHolds
<1>4. pc' \in {"bound", "groups", "refused"} /\ bound' = bound /\ user' = user
  BY DEF Start, Go
<1>5. Progress'
  BY <1>4 DEF IInv, TypeOK, Start, Go, Progress, Searching
<1>6. Served'
  <2>1. CASE pc' = "refused"
    <3>1. bound = NoGroup /\ user = NoOne
      BY <2>1 DEF Start, Go
    <3>2. Facts.sees = {} /\ user # Fallback /\ ~Facts.super
      BY <3>1, RoutingAssumption DEF Facts, IInv, TypeOK
    <3>3. always'.reach = {} /\ ~always'.super
      BY <3>1, <3>2 DEF Start, Reach
    <3>4. QED BY <1>4, <2>1, <3>2, <3>3
              DEF Served, AnswerWasGranted, ReachableIsServed, PriorityIsKept
  <2>2. CASE pc' # "refused"
    BY <1>4, <2>2 DEF Served, AnswerWasGranted, ReachableIsServed, PriorityIsKept
  <2>3. QED BY <2>1, <2>2
<1>7. QED BY <1>2, <1>3, <1>5, <1>6

\* A router step in a running search: only the place and the answer are left.
LEMMA StepRouteBound ==
  ASSUME IInv, RouteBound
  PROVE  Recorded' /\ StillHolds' /\ Progress' /\ Served'
<1>1. /\ Unedited /\ Running /\ bound # NoGroup /\ bound \in Groups
      /\ bound' = bound /\ ever' = ever /\ always' = always
  BY DEF RouteBound, Unedited, Running, IInv, Progress, TypeOK
<1>2. Recorded' /\ StillHolds'
  BY <1>1, HistoryKept DEF IInv
<1>3. CASE Supported(bound) = {}
  <2>1. pc' = "refused"
    BY <1>3 DEF RouteBound, Refuse, Go
  <2>2. always.reach = {}
    <3>1. SUFFICES ASSUME NEW p \in always.reach PROVE FALSE
      OBVIOUS
    <3>2. p \in Reach(Facts)
      BY <1>1, <3>1 DEF IInv, StillHolds
    <3>3. QED BY <1>1, <1>3, <3>2, ReachServes DEF IInv, TypeOK
  <2>3. QED BY <1>1, <1>2, <2>1, <2>2
            DEF Progress, Searching, Served, AnswerWasGranted, ReachableIsServed, PriorityIsKept
<1>4. CASE Supported(bound) # {}
  <2>1. PICK c \in WeightedChoices(Supported(bound)) : Route(bound, c)
    BY <1>4 DEF RouteBound
  <2>2. <<bound, c, Upstream(c, model)>> \in ever.serves
    BY <1>1, PickedServes DEF IInv, Recorded
  <2>3. pc' = "routed" /\ via' = bound /\ answer' = <<c, Upstream(c, model)>>
    BY <2>1 DEF Route, Go
  <2>4. QED BY <1>1, <1>2, <2>2, <2>3
            DEF Progress, Searching, Served, AnswerWasGranted, ReachableIsServed, PriorityIsKept
<1>5. QED BY <1>3, <1>4

LEMMA StepReadGroups ==
  ASSUME IInv, ReadGroups
  PROVE  Recorded' /\ StillHolds' /\ Progress' /\ Served'
<1>1. /\ Unedited /\ Running /\ bound = NoGroup /\ user \in Users
      /\ bound' = bound /\ user' = user /\ ever' = ever /\ always' = always
      /\ pc' = "group" /\ todo' = Visible(user)
  BY DEF ReadGroups, Unedited, Running, IInv, Progress, Searching, Go
<1>2. Recorded' /\ StillHolds'
  BY <1>1, HistoryKept DEF IInv
<1>3. Facts.sees = Visible(user)
  BY <1>1 DEF Facts
<1>4. todo' \subseteq ever'.sees
  BY <1>1, <1>3 DEF IInv, Recorded
<1>5. ASSUME NEW p \in always.reach PROVE p[1] \in todo'
  BY <1>1, <1>3, <1>5, ReachServes DEF IInv, TypeOK, StillHolds
<1>6. Progress'
  BY <1>1, <1>4, <1>5 DEF Progress, Searching
<1>7. Served'
  BY <1>1 DEF Served, AnswerWasGranted, ReachableIsServed, PriorityIsKept
<1>8. QED BY <1>2, <1>6, <1>7

LEMMA StepTryGroup ==
  ASSUME IInv, NEW g \in Groups, TryGroup(g)
  PROVE  Recorded' /\ StillHolds' /\ Progress' /\ Served'
<1>1. /\ Unedited /\ Running /\ bound = NoGroup /\ user \in Users /\ g \in todo
      /\ bound' = bound /\ user' = user /\ ever' = ever /\ always' = always
      /\ todo \subseteq ever.sees /\ \A p \in always.reach : p[1] \in todo
  BY DEF TryGroup, Unedited, Running, IInv, Progress, Searching
<1>2. Recorded' /\ StillHolds'
  BY <1>1, HistoryKept DEF IInv
<1>3. ASSUME NEW p \in always.reach PROVE p[1] \in Groups /\ p[2] \in Supported(p[1])
  BY <1>1, <1>3, ReachServes DEF IInv, TypeOK, StillHolds
<1>4. CASE Supported(g) = {}
  <2>1. pc' = "group" /\ todo' = todo \ {g}
    BY <1>4 DEF TryGroup
  <2>2. Progress'
    BY <1>1, <1>3, <1>4, <2>1 DEF Progress, Searching
  <2>3. QED BY <1>2, <2>1, <2>2
            DEF Served, AnswerWasGranted, ReachableIsServed, PriorityIsKept
<1>5. CASE Supported(g) # {}
  <2>1. PICK c \in WeightedChoices(Supported(g)) : Route(g, c)
    BY <1>5 DEF TryGroup
  <2>2. <<g, c, Upstream(c, model)>> \in ever.serves
    BY <1>1, PickedServes DEF IInv, Recorded
  <2>3. /\ pc' = "routed" /\ via' = g /\ g # NoGroup
        /\ answer' = <<c, Upstream(c, model)>>
    BY <2>1, RoutingAssumption DEF Route, Go
  <2>4. AnswerWasGranted'
    BY <1>1, <2>2, <2>3 DEF AnswerWasGranted
  <2>5. ASSUME NEW p \in always.reach PROVE Priority[g] >= Priority[p[1]]
    <3>1. Priority[p[1]] <= Priority[g]
      BY <1>1, <2>5 DEF TryGroup, ComesFirst
    <3>2. Priority[p[1]] \in Int /\ Priority[g] \in Int
      BY <1>3, <2>5, RoutingAssumption
    <3>3. QED BY <3>1, <3>2
  <2>6. QED BY <1>1, <1>2, <2>3, <2>4, <2>5
            DEF Progress, Searching, Served, ReachableIsServed, PriorityIsKept
<1>6. QED BY <1>4, <1>5

LEMMA StepNoGroupServes ==
  ASSUME IInv, NoGroupServes
  PROVE  Recorded' /\ StillHolds' /\ Progress' /\ Served'
<1>1. /\ Unedited /\ Running /\ bound = NoGroup /\ user \in Users /\ always.reach = {}
      /\ bound' = bound /\ user' = user /\ ever' = ever /\ always' = always
      /\ pc' = IF user = Fallback THEN "all" ELSE "role"
  BY DEF NoGroupServes, Unedited, Running, IInv, Progress, Searching, Go
<1>2. Recorded' /\ StillHolds'
  BY <1>1, HistoryKept DEF IInv
<1>3. Progress' /\ Served'
  BY <1>1 DEF Progress, Searching, Served, AnswerWasGranted, ReachableIsServed, PriorityIsKept
<1>4. QED BY <1>2, <1>3

LEMMA StepReadRole ==
  ASSUME IInv, ReadRole
  PROVE  Recorded' /\ StillHolds' /\ Progress' /\ Served'
<1>1. /\ Unedited /\ Running /\ bound = NoGroup /\ user \in Users /\ always.reach = {}
      /\ user # Fallback
      /\ bound' = bound /\ user' = user /\ ever' = ever /\ always' = always
  BY DEF ReadRole, Unedited, Running, IInv, Progress, Searching
<1>2. Recorded' /\ StillHolds'
  BY <1>1, HistoryKept DEF IInv
<1>3. /\ Facts.super <=> user \in supers
      /\ Facts.super => ever.super
      /\ always.super => Facts.super
  BY <1>1 DEF Facts, IInv, Recorded, StillHolds
<1>4. CASE user \in supers
  <2>1. pc' = "all"
    BY <1>4 DEF ReadRole, Go
  <2>2. QED BY <1>1, <1>2, <1>3, <1>4, <2>1
            DEF Progress, Searching, Served, AnswerWasGranted, ReachableIsServed, PriorityIsKept
<1>5. CASE user \notin supers
  <2>1. pc' = "refused"
    BY <1>5 DEF ReadRole, Refuse, Go
  <2>2. QED BY <1>1, <1>2, <1>3, <1>5, <2>1
            DEF Progress, Searching, Served, AnswerWasGranted, ReachableIsServed, PriorityIsKept
<1>6. QED BY <1>4, <1>5

LEMMA StepTryAll ==
  ASSUME IInv, TryAll
  PROVE  Recorded' /\ StillHolds' /\ Progress' /\ Served'
<1> DEFINE S == {c \in enabled : Supports(c, model)}
<1>1. /\ Unedited /\ Running /\ bound = NoGroup /\ user \in Users /\ always.reach = {}
      /\ user = Fallback \/ ever.super
      /\ bound' = bound /\ user' = user /\ ever' = ever /\ always' = always
  BY DEF TryAll, Unedited, Running, IInv, Progress, Searching
<1>2. Recorded' /\ StillHolds'
  BY <1>1, HistoryKept DEF IInv
<1>3. Facts.up = {<<c, Upstream(c, model)>> : c \in S}
  BY DEF Facts
<1>4. CASE S = {}
  <2>1. pc' = "refused"
    BY <1>4 DEF TryAll, Refuse, Go
  <2>2. always.up = {}
    BY <1>1, <1>3, <1>4 DEF IInv, StillHolds
  <2>3. QED BY <1>1, <1>2, <2>1, <2>2
            DEF Progress, Searching, Served, AnswerWasGranted, ReachableIsServed, PriorityIsKept
<1>5. CASE S # {}
  <2>1. PICK c \in S : Route(NoGroup, c)
    BY <1>5 DEF TryAll
  <2>2. pc' = "routed" /\ via' = NoGroup /\ answer' = <<c, Upstream(c, model)>>
    BY <2>1 DEF Route, Go
  <2>3. answer' \in ever.up
    BY <1>1, <1>3, <2>2 DEF IInv, Recorded
  <2>4. QED BY <1>1, <1>2, <2>2, <2>3
            DEF Progress, Searching, Served, AnswerWasGranted, ReachableIsServed, PriorityIsKept
<1>6. QED BY <1>4, <1>5

\* An edit adds to what has held at some moment and takes from what has held all
\* along, so that both keep their relation to the tables.
LEMMA StepEdit ==
  ASSUME IInv, Edit
  PROVE  Recorded' /\ StillHolds' /\ Progress' /\ Served'
<1>1. /\ Running /\ pc' = pc /\ bound' = bound /\ user' = user /\ model' = model
      /\ todo' = todo /\ via' = via /\ answer' = answer
      /\ ever' = Both(ever, Facts') /\ always' = Kept(always, Facts')
  BY DEF Edit, request
<1>2. /\ ever'.sees = ever.sees \cup Facts'.sees
      /\ ever'.serves = ever.serves \cup Facts'.serves
      /\ ever'.up = ever.up \cup Facts'.up
      /\ ever'.super = (ever.super \/ Facts'.super)
  BY <1>1 DEF Both
<1>3. Reach(Facts)' = Reach(Facts')
  BY <1>1 DEF Reach
<1>4. /\ always'.reach = always.reach \cap Reach(Facts)'
      /\ always'.up = always.up \cap {p[1] : p \in Facts'.up}
      /\ always'.super = (always.super /\ Facts'.super)
  BY <1>1, <1>3 DEF Kept
<1>5. Recorded'
  BY <1>2 DEF Recorded
<1>6. StillHolds'
  BY <1>4 DEF StillHolds
<1>7. Progress'
  BY <1>1, <1>2, <1>4 DEF IInv, Progress, Searching
<1>8. Served'
  BY <1>1 DEF Running, Served, AnswerWasGranted, ReachableIsServed, PriorityIsKept
<1>9. QED BY <1>5, <1>6, <1>7, <1>8

LEMMA StepAdmin == ASSUME Admin PROVE Edit
BY DEF Admin, SetEnabled, SetModels, SetVisible, DeleteGroup, add_user_to_group,
       remove_user_from_group, add_channel_to_group, remove_channel_from_group, SetRole

LEMMA StepStutter ==
  ASSUME IInv, UNCHANGED vars
  PROVE  Recorded' /\ StillHolds' /\ Progress' /\ Served'
<1>1. UNCHANGED <<tables, user, bound, model>> /\ UNCHANGED <<pc, todo, via, answer, ever, always>>
  BY DEF vars, request
<1>2. Facts' = Facts /\ Reach(Facts)' = Reach(Facts)
  BY <1>1, SameFacts
<1>3. Recorded' /\ StillHolds'
  BY <1>1, <1>2 DEF IInv, Recorded, StillHolds, Running
<1>4. Progress' /\ Served'
  BY <1>1 DEF IInv, Progress, Searching, Served, AnswerWasGranted, ReachableIsServed,
              PriorityIsKept
<1>5. QED BY <1>3, <1>4

LEMMA InvStep == ASSUME IInv, [Next]_vars PROVE IInv'
<1>1. TypeOK'
  BY TypeStep DEF IInv
<1>2. CASE Router
  BY <1>1, <1>2, StepStart, StepRouteBound, StepReadGroups, StepTryGroup, StepNoGroupServes,
     StepReadRole, StepTryAll DEF Router, IInv
<1>3. CASE Admin
  BY <1>1, <1>3, StepAdmin, StepEdit DEF IInv
<1>4. CASE UNCHANGED vars
  BY <1>1, <1>4, StepStutter DEF IInv
<1>5. QED BY <1>2, <1>3, <1>4 DEF Next

LEMMA RoutingInv == Spec => []IInv
BY InvInit, InvStep, PTL DEF Spec

\* A request is never served outside what it was granted at some moment of its
\* search, for any tables and edits.
THEOREM RoutingAnswerWasGranted == Spec => []AnswerWasGranted
<1>1. IInv => AnswerWasGranted
  BY DEF IInv, Served
<1>2. QED BY <1>1, RoutingInv, PTL

\* A request that could have been served all along is not refused.
THEOREM RoutingReachableIsServed == Spec => []ReachableIsServed
<1>1. IInv => ReachableIsServed
  BY DEF IInv, Served
<1>2. QED BY <1>1, RoutingInv, PTL

\* No group comes before one of a higher priority that could serve all along.
THEOREM RoutingPriorityIsKept == Spec => []PriorityIsKept
<1>1. IInv => PriorityIsKept
  BY DEF IInv, Served
<1>2. QED BY <1>1, RoutingInv, PTL
=============================================================================
