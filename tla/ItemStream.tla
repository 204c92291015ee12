------------------------------- MODULE ItemStream -------------------------------
(***************************************************************************)
(* What a stream of Responses events promises its reader, whatever the      *)
(* upstream sends: items are opened once, grow piece by piece, are published*)
(* once with exactly the pieces that were streamed, and closed; the stream  *)
(* is completed only when every opened item is closed, with the published   *)
(* bodies as its output; the events are numbered without a gap.  A stream   *)
(* may break off at any moment.                                             *)
(***************************************************************************)
EXTENDS Naturals, Sequences

CONSTANTS
  Items,   \* output indices; 0 is the assistant's message
  Pieces   \* what a delta may carry

VARIABLES
  status,   \* none, open, over, broken
  number,   \* the number the next event must have
  item,     \* per index: absent, open, full (its body is published), closed
  body,     \* what was streamed of it
  told,     \* what was published of it
  output    \* the output of the completed response, per index

vars == <<status, number, item, body, told, output>>

Init ==
  /\ status = "none" /\ number = 0
  /\ item = [i \in Items |-> "absent"]
  /\ body = [i \in Items |-> <<>>]
  /\ told = [i \in Items |-> <<>>]
  /\ output = [i \in Items |-> <<>>]

Counted == number' = number + 1

Begin ==
  /\ status = "none" /\ status' = "open" /\ Counted
  /\ UNCHANGED <<item, body, told, output>>

\* Progress and parts: nothing a reader of the items sees.
Announce ==
  /\ status = "open" /\ Counted
  /\ UNCHANGED <<status, item, body, told, output>>

Add(i) ==
  /\ status = "open" /\ item[i] = "absent" /\ Counted
  /\ item' = [item EXCEPT ![i] = "open"]
  /\ UNCHANGED <<status, body, told, output>>

Extend(i, p) ==
  /\ status = "open" /\ item[i] = "open" /\ Counted
  /\ body' = [body EXCEPT ![i] = Append(@, p)]
  /\ UNCHANGED <<status, item, told, output>>

Publish(i) ==
  /\ status = "open" /\ item[i] = "open" /\ Counted
  /\ item' = [item EXCEPT ![i] = "full"]
  /\ told' = [told EXCEPT ![i] = body[i]]
  /\ UNCHANGED <<status, body, output>>

Close(i) ==
  /\ status = "open" /\ item[i] = "full" /\ Counted
  /\ item' = [item EXCEPT ![i] = "closed"]
  /\ UNCHANGED <<status, body, told, output>>

Complete ==
  /\ status = "open" /\ item[0] = "closed"
  /\ \A i \in Items : item[i] \in {"absent", "closed"}
  /\ status' = "over" /\ output' = told /\ Counted
  /\ UNCHANGED <<item, body, told>>

Break ==
  /\ status \in {"none", "open"} /\ status' = "broken"
  /\ UNCHANGED <<number, item, body, told, output>>

Next ==
  \/ Begin \/ Announce \/ Complete \/ Break
  \/ \E i \in Items :
       \/ Add(i) \/ Publish(i) \/ Close(i)
       \/ \E p \in Pieces : Extend(i, p)

Spec == Init /\ [][Next]_vars
=============================================================================
