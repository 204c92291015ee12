-------------------------------- MODULE LatestAnswer --------------------------------
(***************************************************************************)
(* What a page that shows the answer to a query promises: whatever is asked  *)
(* meanwhile, and in whatever order the answers come, it only ever puts up   *)
(* the answer to the query that was asked last, or says that it failed.     *)
(***************************************************************************)
CONSTANTS Queries, Nothing

VARIABLES
  wanted,  \* the query that was asked last
  shown,   \* the query whose answer is on the page
  busy     \* whether the page says that it is loading

vars == <<wanted, shown, busy>>

Init == wanted \in Queries /\ shown = Nothing /\ busy = TRUE

Ask == wanted' \in Queries /\ busy' = TRUE /\ shown' = shown

Show == busy /\ shown' = wanted /\ busy' = FALSE /\ wanted' = wanted

GiveUp == busy /\ busy' = FALSE /\ UNCHANGED <<wanted, shown>>

Next == Ask \/ Show \/ GiveUp

Spec == Init /\ [][Next]_vars
=============================================================================
