------------------------------ MODULE OrderSale ------------------------------
(***************************************************************************)
(* What the payment module promises of an order (docs/payment.md sections  *)
(* 1, 3.3 and 4): it is opened once, it may be closed while unpaid, a       *)
(* payment or a manual confirmation sells it even after it was closed, the  *)
(* sale hands out exactly one key, and a sold order stays sold.             *)
(***************************************************************************)
EXTENDS Naturals

CONSTANT Orders

VARIABLES
  sale,       \* "none", "open", "closed" or "sold"
  delivered   \* the number of keys handed out

Init ==
  /\ sale = [o \in Orders |-> "none"]
  /\ delivered = [o \in Orders |-> 0]

Open(o) ==
  /\ sale[o] = "none"
  /\ sale' = [sale EXCEPT ![o] = "open"]
  /\ UNCHANGED delivered

Sell(o) ==
  /\ sale[o] \in {"open", "closed"}
  /\ sale' = [sale EXCEPT ![o] = "sold"]
  /\ delivered' = [delivered EXCEPT ![o] = @ + 1]

\* The order list closes every overdue order at once.
Close(S) ==
  /\ S # {} /\ \A o \in S : sale[o] = "open"
  /\ sale' = [o \in Orders |-> IF o \in S THEN "closed" ELSE sale[o]]
  /\ UNCHANGED delivered

Next == (\E o \in Orders : Open(o) \/ Sell(o)) \/ (\E S \in SUBSET Orders : Close(S))

Spec == Init /\ [][Next]_<<sale, delivered>>
=============================================================================
