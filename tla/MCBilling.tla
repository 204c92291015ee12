------------------------------ MODULE MCBilling ------------------------------
(* Instances of Billing for TLC: a package token and a quota token of one    *)
(* user, and an anonymous package token.                                     *)
EXTENDS Billing, TLC

CONSTANTS alice, gold, tGold, tOwn, tAnon

MCOwnerOf == [t \in Tokens |-> IF t = tAnon THEN NoUser ELSE alice]
MCGroupOf == [t \in Tokens |-> IF t = tOwn THEN NoGroup ELSE gold]
MCQuota   == [t \in Tokens |-> IF t = tGold THEN 0 ELSE 2]
MCBalance == [u \in Users |-> 3]
MCLimit   == [g \in Groups |-> 1]

Symmetry == Permutations(Requests)
=============================================================================
