--------------------------- MODULE VouchersProofs ---------------------------
(***************************************************************************)
(* Proofs about Vouchers for all vouchers, users, handlers, amounts and     *)
(* opening balances.                                                        *)
(***************************************************************************)
EXTENDS Vouchers, FiniteSetTheorems, TLAPS

\* Handlers that looked a voucher up and are about to pay it out.
Racers(v) ==
  {h \in Handlers : call[h].op \in {"redeem", "redeemKey"} /\ call[h].voucher = v}

\* Once paid out, a voucher can be paid out again only by those.
RacersBounded ==
  \A v \in Vouchers : grants[v] > 0 => grants[v] + Cardinality(Racers(v)) <= Cardinality(Handlers)

\* What a busy handler works on.
Targets ==
  \A h \in Handlers :
    /\ call[h].op \in {"redeem", "redeemKey"} => call[h].voucher \in Vouchers
    /\ call[h].op \in {"redeem", "login"} => call[h].user \in Users

\* An account that does not exist, or is unlimited, has had no movement.
Untouched ==
  \A u \in Users :
    balance[u] \notin Int => balance[u] = StartBalance[u] /\ credits[u] = 0 /\ debits[u] = 0

IInv == TypeOK /\ Targets /\ RedeemedAtomically /\ RacersBounded /\ Untouched /\ NoCreditLost

-----------------------------------------------------------------------------
LEMMA RacersFinite ==
  ASSUME NEW v \in Vouchers
  PROVE  /\ IsFiniteSet(Racers(v)) /\ Cardinality(Racers(v)) \in Nat
         /\ Cardinality(Racers(v)) <= Cardinality(Handlers)
         /\ Cardinality(Handlers) \in Nat
  <1>1. Racers(v) \subseteq Handlers
    BY DEF Racers
  <1> QED BY <1>1, VouchersAssumption, FS_Subset, FS_CardinalityType

LEMMA InitInv == Init => IInv
  <1> SUFFICES ASSUME Init PROVE IInv
    OBVIOUS
  <1>1. TypeOK
    BY VouchersAssumption DEF Init, TypeOK, Call, Idle
  <1>2. Targets /\ RedeemedAtomically /\ RacersBounded
    BY DEF Init, Targets, Idle, RedeemedAtomically, RacersBounded
  <1>3. Untouched /\ NoCreditLost
    BY VouchersAssumption DEF Init, Untouched, NoCreditLost, Opening
  <1> QED BY <1>1, <1>2, <1>3 DEF IInv

\* A step that pays nothing out and starts no redemption of a paid voucher.
LEMMA RacersShrink ==
  ASSUME IInv, UNCHANGED grants,
         \A v \in Vouchers : grants[v] > 0 => Racers(v)' \subseteq Racers(v)
  PROVE  RacersBounded'
  <1> SUFFICES ASSUME NEW v \in Vouchers, grants[v] > 0
               PROVE  grants[v] + Cardinality(Racers(v)') <= Cardinality(Handlers)
    BY DEF RacersBounded
  <1>1. Cardinality(Racers(v)') <= Cardinality(Racers(v)) /\ Cardinality(Racers(v)') \in Nat
    BY RacersFinite, FS_Subset, FS_CardinalityType
  <1>2. grants[v] + Cardinality(Racers(v)) <= Cardinality(Handlers) /\ grants[v] \in Nat
    BY DEF IInv, RacersBounded, TypeOK
  <1> QED BY <1>1, <1>2, RacersFinite

-----------------------------------------------------------------------------
\* Administration, expiry and debits.
LEMMA AdminInv ==
  ASSUME IInv,
         \/ \E S \in SUBSET Vouchers : Create(S) \/ Delete(S)
         \/ \E v \in Vouchers : Lapse(v)
  PROVE  IInv'
  <1> USE DEF IInv
  <1>1. UNCHANGED <<balance, call, history>>
    BY DEF Create, Delete, Lapse
  <1>2. TypeOK'
    BY <1>1 DEF Create, Delete, Lapse, TypeOK, history
  <1>3. Targets' /\ Untouched' /\ NoCreditLost'
    BY <1>1 DEF Targets, Untouched, NoCreditLost, history
  <1>4. RedeemedAtomically'
    BY <1>1 DEF Create, Delete, Lapse, TypeOK, history, RedeemedAtomically
  <1>5. RacersBounded'
    BY <1>1, RacersShrink DEF history, Racers
  <1> QED BY <1>2, <1>3, <1>4, <1>5

LEMMA DebitInv ==
  ASSUME IInv, NEW u \in Users, Debit(u)
  PROVE  IInv'
  <1> USE DEF IInv
  <1> DEFINE b == IF balance[u] > DebitCost THEN balance[u] - DebitCost ELSE 0
  <1>1. balance[u] \in Nat /\ DebitCost \in Nat /\ debits[u] \in Nat /\ credits[u] \in Nat
    BY VouchersAssumption DEF Debit, TypeOK
  <1>2. b \in Nat /\ b >= balance[u] - DebitCost /\ b <= balance[u]
    BY <1>1
  <1>3. balance' = [balance EXCEPT ![u] = b]
    BY DEF Debit
  <1>4. debits' = [debits EXCEPT ![u] = debits[u] + DebitCost]
        /\ UNCHANGED <<voucher, lapsed, call, grants, credits>>
    BY DEF Debit
  <1> HIDE DEF b
  <1>5. TypeOK'
    BY <1>1, <1>2, <1>3, <1>4 DEF TypeOK
  <1>6. Targets' /\ RedeemedAtomically'
    BY <1>4 DEF Targets, RedeemedAtomically
  <1>7. RacersBounded'
    BY <1>4, RacersShrink DEF Racers
  <1>8. Untouched'
    BY <1>2, <1>3, <1>4 DEF Untouched, TypeOK
  <1>9. NoCreditLost'
    <2>1. Opening(u) \in Nat
      BY VouchersAssumption DEF Opening
    <2>2. ASSUME NEW w \in Users, w # u, balance'[w] \in Int
          PROVE  /\ balance'[w] >= Opening(w) + credits'[w] - debits'[w]
                 /\ balance'[w] <= Opening(w) + credits'[w]
      BY <1>3, <1>4, <2>2 DEF TypeOK, NoCreditLost
    <2>3. /\ balance[u] >= Opening(u) + credits[u] - debits[u]
          /\ balance[u] <= Opening(u) + credits[u]
      BY <1>1 DEF NoCreditLost
    <2>4. balance'[u] = b /\ debits'[u] = debits[u] + DebitCost /\ credits'[u] = credits[u]
      BY <1>3, <1>4 DEF TypeOK
    <2>5. /\ balance'[u] >= Opening(u) + credits'[u] - debits'[u]
          /\ balance'[u] <= Opening(u) + credits'[u]
      BY <1>1, <1>2, <2>1, <2>3, <2>4
    <2> QED BY <2>2, <2>5 DEF NoCreditLost
  <1> QED BY <1>5, <1>6, <1>7, <1>8, <1>9

-----------------------------------------------------------------------------
\* A lookup succeeds only for a voucher that has not been paid out.
LEMMA ReadInv ==
  ASSUME IInv, NEW h \in Handlers,
         \/ \E v \in Vouchers : RedeemKeyRead(h, v) \/ \E u \in Users : RedeemRead(h, v, u)
         \/ \E u \in Users : LoginRead(h, u)
  PROVE  IInv'
  <1> USE DEF IInv
  <1>1. UNCHANGED <<voucher, lapsed, balance, history>>
    BY DEF RedeemKeyRead, RedeemRead, LoginRead
  <1>2. PICK c \in Call :
          /\ call' = [call EXCEPT ![h] = c]
          /\ c.op \in {"redeem", "redeemKey"} => c.voucher \in Vouchers /\ Redeemable(c.voucher)
          /\ c.op \in {"redeem", "login"} => c.user \in Users
    <2>1. CASE \E v \in Vouchers : RedeemKeyRead(h, v)
      BY <2>1 DEF RedeemKeyRead, Run, Call
    <2>2. CASE \E v \in Vouchers, u \in Users : RedeemRead(h, v, u)
      BY <2>2 DEF RedeemRead, Run, Call
    <2>3. CASE \E u \in Users : LoginRead(h, u)
      BY <2>3 DEF LoginRead, Run, Call
    <2> QED BY <2>1, <2>2, <2>3
  <1>3. TypeOK'
    BY <1>1, <1>2 DEF TypeOK, history
  <1>4. Targets'
    BY <1>2 DEF Targets, TypeOK
  <1>5. RedeemedAtomically' /\ Untouched' /\ NoCreditLost'
    BY <1>1 DEF RedeemedAtomically, Untouched, NoCreditLost, history
  <1>6. ASSUME NEW v \in Vouchers, grants[v] > 0
        PROVE  Racers(v)' \subseteq Racers(v)
    <2>1. ~Redeemable(v)
      BY <1>6 DEF Redeemable, RedeemedAtomically
    <2> QED BY <1>2, <2>1 DEF Racers, TypeOK
  <1>7. RacersBounded'
    BY <1>1, <1>6, RacersShrink DEF history
  <1> QED BY <1>3, <1>4, <1>5, <1>7

LEMMA EndInv ==
  ASSUME IInv, NEW h \in Handlers, RedeemFails(h) \/ LoginInsert(h)
  PROVE  IInv'
  <1> USE DEF IInv
  <1>1. call' = [call EXCEPT ![h] = Idle] /\ UNCHANGED <<voucher, lapsed, history>>
    BY DEF RedeemFails, LoginInsert, End
  <1>2. \/ UNCHANGED balance
        \/ \E u \in Users : balance[u] = NoAccount /\ balance' = [balance EXCEPT ![u] = 0]
    <2>1. CASE LoginInsert(h)
      <3>1. PICK u \in Users : u = call[h].user
        BY <2>1 DEF LoginInsert, Targets
      <3>2. balance' = [balance EXCEPT ![u] = IF balance[u] = NoAccount THEN 0 ELSE balance[u]]
        BY <2>1, <3>1 DEF LoginInsert
      <3>3. CASE balance[u] = NoAccount
        BY <3>2, <3>3
      <3>4. CASE balance[u] # NoAccount
        BY <3>2, <3>4 DEF TypeOK
      <3> QED BY <3>3, <3>4
    <2> QED BY <2>1 DEF RedeemFails
  <1>3. Idle \in Call
    BY DEF Idle, Call
  <1>4. TypeOK'
    BY <1>1, <1>2, <1>3 DEF TypeOK, history
  <1>5. Targets'
    BY <1>1 DEF Targets, TypeOK, Idle
  <1>6. RedeemedAtomically'
    BY <1>1 DEF RedeemedAtomically, history
  <1>7. RacersBounded'
    BY <1>1, RacersShrink DEF Racers, TypeOK, Idle, history
  <1>8. Untouched' /\ NoCreditLost'
    <2>1. CASE UNCHANGED balance
      BY <1>1, <2>1 DEF Untouched, NoCreditLost, history
    <2>2. ASSUME NEW u \in Users, balance[u] = NoAccount, balance' = [balance EXCEPT ![u] = 0]
          PROVE  Untouched' /\ NoCreditLost'
      <3>1. StartBalance[u] = NoAccount /\ credits[u] = 0 /\ debits[u] = 0 /\ Opening(u) = 0
        BY <2>2, VouchersAssumption DEF Untouched, Opening
      <3>2. balance'[u] = 0 /\ \A w \in Users : w # u => balance'[w] = balance[w]
        BY <2>2 DEF TypeOK
      <3> QED BY <1>1, <3>1, <3>2 DEF Untouched, NoCreditLost, history
    <2> QED BY <1>2, <2>1, <2>2
  <1> QED BY <1>4, <1>5, <1>6, <1>7, <1>8

-----------------------------------------------------------------------------
\* A payment: one racer less, one grant more.
LEMMA MarkInv ==
  ASSUME IInv, NEW h \in Handlers, NEW v \in Vouchers, v = call[h].voucher,
         call[h].op \in {"redeem", "redeemKey"}, MarkUsed(v), End(h)
  PROVE  RedeemedAtomically' /\ RacersBounded'
  <1> USE DEF IInv
  <1>1. /\ voucher' = [voucher EXCEPT ![v] = "used"]
        /\ grants' = [grants EXCEPT ![v] = grants[v] + 1]
        /\ call' = [call EXCEPT ![h] = Idle]
    BY DEF MarkUsed, End
  <1>2. \A w \in Vouchers : grants[w] \in Nat
    BY DEF TypeOK
  <1>3. /\ grants'[v] = grants[v] + 1 /\ voucher'[v] = "used"
        /\ \A w \in Vouchers : w # v => grants'[w] = grants[w] /\ voucher'[w] = voucher[w]
    BY <1>1 DEF TypeOK
  <1>4. RedeemedAtomically'
    BY <1>2, <1>3 DEF RedeemedAtomically
  <1>5. h \in Racers(v) /\ Racers(v)' = Racers(v) \ {h}
        /\ \A w \in Vouchers : w # v => Racers(w)' = Racers(w)
    <2>1. call'[h] = Idle /\ \A g \in Handlers : g # h => call'[g] = call[g]
      BY <1>1 DEF TypeOK
    <2> QED BY <2>1 DEF Racers, Idle
  <1>6. Cardinality(Racers(v)') = Cardinality(Racers(v)) - 1
    BY <1>5, RacersFinite, FS_RemoveElement
  <1>7. grants[v] + Cardinality(Racers(v)) <= Cardinality(Handlers)
    <2>1. CASE grants[v] = 0
      BY <2>1, RacersFinite
    <2>2. CASE grants[v] > 0
      BY <2>2 DEF RacersBounded
    <2> QED BY <1>2, <2>1, <2>2
  <1>8. grants'[v] + Cardinality(Racers(v)') <= Cardinality(Handlers)
    BY <1>2, <1>3, <1>6, <1>7, RacersFinite
  <1>9. ASSUME NEW w \in Vouchers, w # v, grants'[w] > 0
        PROVE  grants'[w] + Cardinality(Racers(w)') <= Cardinality(Handlers)
    BY <1>3, <1>5, <1>9 DEF RacersBounded
  <1> QED BY <1>4, <1>8, <1>9 DEF RacersBounded

LEMMA RedeemKeyInv ==
  ASSUME IInv, NEW h \in Handlers, RedeemKey(h)
  PROVE  IInv'
  <1> USE DEF IInv
  <1>1. PICK v \in Vouchers : v = call[h].voucher
    BY DEF RedeemKey, Targets
  <1>2. MarkUsed(v) /\ End(h) /\ UNCHANGED <<lapsed, balance, credits, debits>>
    BY <1>1 DEF RedeemKey
  <1>3. RedeemedAtomically' /\ RacersBounded'
    BY <1>1, <1>2, MarkInv DEF RedeemKey
  <1>4. TypeOK'
    BY <1>2 DEF TypeOK, MarkUsed, End, Idle, Call
  <1>5. Targets' /\ Untouched' /\ NoCreditLost'
    BY <1>2 DEF Targets, Untouched, NoCreditLost, End, Idle, TypeOK
  <1> QED BY <1>3, <1>4, <1>5

\* The balance grows by the amount credited; an unlimited one starts from 0.
LEMMA RedeemInv ==
  ASSUME IInv, NEW h \in Handlers, Redeem(h)
  PROVE  IInv'
  <1> USE DEF IInv
  <1>1. PICK v \in Vouchers, u \in Users : v = call[h].voucher /\ u = call[h].user
    BY DEF Redeem, Targets
  <1> DEFINE b == ToppedUp(balance[u], Amount[v])
  <1>2. /\ MarkUsed(v) /\ End(h) /\ UNCHANGED <<lapsed, debits>>
        /\ balance' = [balance EXCEPT ![u] = b]
        /\ credits' = [credits EXCEPT ![u] = credits[u] + Amount[v]]
    BY <1>1 DEF Redeem
  <1>3. RedeemedAtomically' /\ RacersBounded'
    BY <1>1, <1>2, MarkInv DEF Redeem
  <1>4. Amount[v] \in Nat /\ credits[u] \in Nat /\ debits[u] \in Nat
        /\ Opening(u) \in Nat /\ balance[u] \in Nat \cup {Unlimited, NoAccount}
    BY VouchersAssumption DEF TypeOK, Opening
  <1>5. b = (IF balance[u] \in Int THEN balance[u] ELSE 0) + Amount[v]
    BY <1>4, VouchersAssumption DEF ToppedUp
  <1>6. b \in Nat
    BY <1>4, <1>5, VouchersAssumption
  <1> HIDE DEF b
  <1>7. TypeOK'
    BY <1>2, <1>4, <1>6 DEF TypeOK, MarkUsed, End, Idle, Call
  <1>8. Targets'
    BY <1>2 DEF Targets, End, Idle, TypeOK
  <1>9. /\ balance'[u] = b /\ credits'[u] = credits[u] + Amount[v] /\ debits'[u] = debits[u]
        /\ \A w \in Users : w # u => balance'[w] = balance[w] /\ credits'[w] = credits[w]
                                     /\ debits'[w] = debits[w]
    BY <1>2 DEF TypeOK
  <1>10. Untouched'
    BY <1>6, <1>9 DEF Untouched
  <1>11. NoCreditLost'
    <2>1. CASE balance[u] \in Int
      <3>1. /\ balance[u] >= Opening(u) + credits[u] - debits[u]
            /\ balance[u] <= Opening(u) + credits[u]
        BY <2>1 DEF NoCreditLost
      <3>2. /\ balance'[u] >= Opening(u) + credits'[u] - debits'[u]
            /\ balance'[u] <= Opening(u) + credits'[u]
        BY <1>4, <1>5, <1>9, <2>1, <3>1
      <3> QED BY <1>9, <3>2 DEF NoCreditLost
    <2>2. CASE balance[u] \notin Int
      <3>1. credits[u] = 0 /\ debits[u] = 0 /\ Opening(u) = 0
        BY <2>2 DEF Untouched, Opening
      <3>2. /\ balance'[u] >= Opening(u) + credits'[u] - debits'[u]
            /\ balance'[u] <= Opening(u) + credits'[u]
        BY <1>4, <1>5, <1>9, <2>2, <3>1
      <3> QED BY <1>9, <3>2 DEF NoCreditLost
    <2> QED BY <2>1, <2>2
  <1> QED BY <1>3, <1>7, <1>8, <1>10, <1>11

-----------------------------------------------------------------------------
LEMMA NextInv == IInv /\ [Next]_vars => IInv'
  <1> SUFFICES ASSUME IInv, [Next]_vars PROVE IInv'
    OBVIOUS
  <1>1. CASE UNCHANGED vars
    BY <1>1 DEF vars, history, IInv, TypeOK, Targets, RedeemedAtomically, RacersBounded, Racers,
       Untouched, NoCreditLost
  <1>2. CASE Next
    BY <1>2, AdminInv, DebitInv, ReadInv, EndInv, RedeemInv, RedeemKeyInv DEF Next
  <1> QED BY <1>1, <1>2

THEOREM SpecInv == Spec => []IInv
  BY InitInv, NextInv, PTL DEF Spec

\* Types: in particular no balance ever becomes negative.
THEOREM VouchersTypeOK == Spec => []TypeOK
  <1>1. IInv => TypeOK
    BY DEF IInv
  <1> QED BY <1>1, SpecInv, PTL

\* used is set exactly when the voucher was paid out, whatever fails.
THEOREM VouchersRedeemedAtomically == Spec => []RedeemedAtomically
  <1>1. IInv => RedeemedAtomically
    BY DEF IInv
  <1> QED BY <1>1, SpecInv, PTL

\* Concurrent redemptions pay a voucher at most once per handler.
THEOREM VouchersRedemptionsBounded == Spec => []RedemptionsBounded
  <1>1. IInv => RedemptionsBounded
    <2> SUFFICES ASSUME IInv, NEW v \in Vouchers
                 PROVE  grants[v] <= Cardinality(Handlers)
      BY DEF RedemptionsBounded
    <2> QED BY RacersFinite DEF IInv, RacersBounded, TypeOK
  <1> QED BY <1>1, SpecInv, PTL

\* No credit and no debit of an account is lost, however they interleave.
THEOREM VouchersNoCreditLost == Spec => []NoCreditLost
  <1>1. IInv => NoCreditLost
    BY DEF IInv
  <1> QED BY <1>1, SpecInv, PTL
=============================================================================
