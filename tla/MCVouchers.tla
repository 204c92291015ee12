----------------------------- MODULE MCVouchers -----------------------------
(* Instances of Vouchers for TLC: ann has an account, bob has none yet, and  *)
(* free has an unlimited one.                                                *)
EXTENDS Vouchers, TLC

CONSTANTS ann, bob, free, v1, v2

MCAmount == [v \in Vouchers |-> IF v = v1 THEN 2 ELSE 3]
MCBalance ==
  [u \in Users |-> CASE u = ann -> 1 [] u = bob -> NoAccount [] u = free -> Unlimited]

Symmetry == Permutations(Handlers)
=============================================================================
