--------------------------- MODULE MCPaymentOrders ---------------------------
(* Instances of PaymentOrders for TLC. *)
EXTENDS PaymentOrders, TLC

Symmetry == Permutations(Orders) \cup Permutations(Handlers)
=============================================================================
