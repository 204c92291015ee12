---------------------------------- MODULE MCRouting ----------------------------------
(***************************************************************************)
(* Three channels in two groups.  c1 lists the model, c2 knows it as an      *)
(* alias of another, c3 lists it and is being drained (weight 0).           *)
(***************************************************************************)
EXTENDS Routing

MCPriority == [g \in Groups |-> IF g = "g1" THEN 1 ELSE 2]
MCWeight == [c \in Channels |-> IF c = "c3" THEN 0 ELSE 1]
MCModels == [c \in Channels |-> IF c = "c2" THEN {} ELSE {"m"}]
MCMapping ==
  [c \in Channels |-> [m \in Models |-> IF c = "c2" /\ m = "m" THEN "n" ELSE NoModel]]
MCLinks == {{}, {<<"g1", "c1">>, <<"g2", "c2">>}, {<<"g1", "c2">>, <<"g2", "c1">>, <<"g2", "c3">>}}
=============================================================================
