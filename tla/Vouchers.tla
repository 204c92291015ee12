------------------------------ MODULE Vouchers ------------------------------
(***************************************************************************)
(* Vouchers and the account balance they fill: redemption by a signed-in    *)
(* user, anonymous redemption for a key, creation and deletion by an admin, *)
(* the first sign-in that creates the account, and the debits of module     *)
(* Billing beside them.                                                     *)
(*                                                                          *)
(* A redemption reads the voucher in one step and takes the write lock in a *)
(* later one.  For an account the voucher's UPDATE is flushed by the next   *)
(* SELECT, so that the balance is read and written under the write lock.    *)
(*                                                                          *)
(* Source: the voucher handlers of admin/router.py and lazy_create_user.    *)
(***************************************************************************)
EXTENDS Integers, FiniteSets

CONSTANTS
  Vouchers,      \* voucher ids
  Users,         \* account names
  Handlers,      \* HTTP handlers running at the same time
  Amount,        \* [Vouchers -> Nat], amount_usd
  StartBalance,  \* [Users -> Nat \cup {Unlimited, NoAccount}]
  Unlimited,     \* User.quota_usd IS NULL
  NoAccount,     \* there is no User row
  DebitCost,     \* what a debit takes
  MaxDebits,     \* bound: what is debited per user
  None           \* an idle handler works on nothing

ASSUME VouchersAssumption ==
  /\ IsFiniteSet(Handlers)
  /\ Amount \in [Vouchers -> Nat]
  /\ Unlimited \notin Int /\ NoAccount \notin Int /\ Unlimited # NoAccount
  /\ StartBalance \in [Users -> Nat \cup {Unlimited, NoAccount}]
  /\ DebitCost \in Nat /\ MaxDebits \in Nat
  /\ None \notin Vouchers /\ None \notin Users

VARIABLES
  voucher,   \* the voucher table: "absent", "unused", "used" or "deleted"
  lapsed,    \* expires_at has passed
  balance,   \* User.quota_usd
  call,      \* what each handler is doing
  grants,    \* history: how often a voucher was paid out, in credit or in keys
  credits,   \* history: what was credited to an account
  debits     \* history: what was debited from an account

history == <<grants, credits, debits>>
vars == <<voucher, lapsed, balance, call, history>>

Call == [op : {"idle", "redeem", "redeemKey", "login"},
         voucher : Vouchers \cup {None}, user : Users \cup {None}]
Idle == [op |-> "idle", voucher |-> None, user |-> None]

Run(h, op, v, u) ==
  /\ call[h].op = "idle"
  /\ call' = [call EXCEPT ![h] = [op |-> op, voucher |-> v, user |-> u]]

End(h) == call' = [call EXCEPT ![h] = Idle]

Init ==
  /\ voucher = [v \in Vouchers |-> "absent"]
  /\ lapsed = [v \in Vouchers |-> FALSE]
  /\ balance = StartBalance
  /\ call = [h \in Handlers |-> Idle]
  /\ grants = [v \in Vouchers |-> 0]
  /\ credits = [u \in Users |-> 0]
  /\ debits = [u \in Users |-> 0]

-----------------------------------------------------------------------------
(* create_voucher and batch_delete_vouchers: one transaction each. *)

Create(S) ==
  /\ S # {} /\ \A v \in S : voucher[v] = "absent"
  /\ voucher' = [v \in Vouchers |-> IF v \in S THEN "unused" ELSE voucher[v]]
  /\ UNCHANGED <<lapsed, balance, call, history>>

\* Used vouchers may be deleted too.
Delete(S) ==
  /\ S # {} /\ \A v \in S : voucher[v] \in {"unused", "used"}
  /\ voucher' = [v \in Vouchers |-> IF v \in S THEN "deleted" ELSE voucher[v]]
  /\ UNCHANGED <<lapsed, balance, call, history>>

Lapse(v) ==
  /\ voucher[v] = "unused" /\ ~lapsed[v]
  /\ lapsed' = [lapsed EXCEPT ![v] = TRUE]
  /\ UNCHANGED <<voucher, balance, call, history>>

-----------------------------------------------------------------------------
(* Redemption. *)

\* Mutant: the lookup forgets "used = False".
RedeemableEvenUsed(v) == voucher[v] \in {"unused", "used"} /\ ~lapsed[v]

\* SELECT ... WHERE code = ... AND used = False, then the expiry check.
Redeemable(v) == voucher[v] = "unused" /\ ~lapsed[v]

RedeemRead(h, v, u) ==
  /\ Redeemable(v)
  /\ Run(h, "redeem", v, u)
  /\ UNCHANGED <<voucher, lapsed, balance, history>>

RedeemKeyRead(h, v) ==
  /\ Redeemable(v)
  /\ Run(h, "redeemKey", v, None)
  /\ UNCHANGED <<voucher, lapsed, balance, history>>

\* UPDATE vouchers SET used = 1 WHERE id = v: matches the row, used or not.
MarkUsed(v) ==
  /\ voucher[v] \in {"unused", "used"}
  /\ voucher' = [voucher EXCEPT ![v] = "used"]
  /\ grants' = [grants EXCEPT ![v] = @ + 1]

\* (user.quota_usd or 0) + amount: NULL counts as 0.
ToppedUp(b, amount) == (IF b \in {Unlimited, NoAccount} THEN 0 ELSE b) + amount

\* redeem_voucher from the flush of the voucher to the commit.
Redeem(h) ==
  LET v == call[h].voucher
      u == call[h].user
  IN  /\ call[h].op = "redeem"
      /\ MarkUsed(v)
      /\ balance' = [balance EXCEPT ![u] = ToppedUp(@, Amount[v])]
      /\ credits' = [credits EXCEPT ![u] = @ + Amount[v]]
      /\ End(h)
      /\ UNCHANGED <<lapsed, debits>>

\* redeem_voucher_anonymously: INSERT the token and UPDATE the voucher.
RedeemKey(h) ==
  /\ call[h].op = "redeemKey"
  /\ MarkUsed(call[h].voucher)
  /\ End(h)
  /\ UNCHANGED <<lapsed, balance, credits, debits>>

\* The voucher is gone: the UPDATE matches no row and the session raises.  Any
\* other exception rolls back just the same.
RedeemFails(h) ==
  /\ call[h].op \in {"redeem", "redeemKey"}
  /\ End(h)
  /\ UNCHANGED <<voucher, lapsed, balance, history>>

-----------------------------------------------------------------------------
(* The account. *)

\* lazy_create_user finds no row.
LoginRead(h, u) ==
  /\ balance[u] = NoAccount
  /\ Run(h, "login", None, u)
  /\ UNCHANGED <<voucher, lapsed, balance, history>>

\* Mutant: an upsert, where the code inserts.
LoginUpserts(h) ==
  /\ call[h].op = "login"
  /\ balance' = [balance EXCEPT ![call[h].user] = 0]
  /\ End(h)
  /\ UNCHANGED <<voucher, lapsed, history>>

\* INSERT with quota_usd = 0; a redemption may have created the row meanwhile,
\* and then the primary key makes the sign-in fail.
LoginInsert(h) ==
  /\ call[h].op = "login"
  /\ balance' = [balance EXCEPT ![call[h].user] = IF @ = NoAccount THEN 0 ELSE @]
  /\ End(h)
  /\ UNCHANGED <<voucher, lapsed, history>>

\* Mutant: the floor at 0 is forgotten.
DebitBelowZero(u) ==
  /\ balance[u] \in Int
  /\ debits[u] + DebitCost <= MaxDebits
  /\ balance' = [balance EXCEPT ![u] = @ - DebitCost]
  /\ debits' = [debits EXCEPT ![u] = @ + DebitCost]
  /\ UNCHANGED <<voucher, lapsed, call, grants, credits>>

\* update_user_balance on a finite balance.
Debit(u) ==
  /\ balance[u] \in Int
  /\ debits[u] + DebitCost <= MaxDebits
  /\ balance' = [balance EXCEPT ![u] = IF @ > DebitCost THEN @ - DebitCost ELSE 0]
  /\ debits' = [debits EXCEPT ![u] = @ + DebitCost]
  /\ UNCHANGED <<voucher, lapsed, call, grants, credits>>

-----------------------------------------------------------------------------
Next ==
  \/ \E S \in SUBSET Vouchers : Create(S) \/ Delete(S)
  \/ \E v \in Vouchers : Lapse(v)
  \/ \E u \in Users : Debit(u)
  \/ \E h \in Handlers :
       \/ \E v \in Vouchers : RedeemKeyRead(h, v) \/ \E u \in Users : RedeemRead(h, v, u)
       \/ \E u \in Users : LoginRead(h, u)
       \/ Redeem(h) \/ RedeemKey(h) \/ RedeemFails(h) \/ LoginInsert(h)

Spec == Init /\ [][Next]_vars

-----------------------------------------------------------------------------
(* Properties. *)

TypeOK ==
  /\ voucher \in [Vouchers -> {"absent", "unused", "used", "deleted"}]
  /\ lapsed \in [Vouchers -> BOOLEAN]
  /\ balance \in [Users -> Nat \cup {Unlimited, NoAccount}]
  /\ call \in [Handlers -> Call]
  /\ grants \in [Vouchers -> Nat]
  /\ credits \in [Users -> Nat]
  /\ debits \in [Users -> Nat]

\* A voucher is marked used exactly when it has been paid out, in credit or in
\* a key, whatever fails in between.
RedeemedAtomically ==
  \A v \in Vouchers : voucher[v] # "deleted" => (voucher[v] = "used" <=> grants[v] > 0)

\* The lookup and the mark are two steps, so concurrent redemptions of one
\* voucher may all pay; but only those that looked it up before the first one
\* committed: never more than handlers that ran at once.
RedemptionsBounded == \A v \in Vouchers : grants[v] <= Cardinality(Handlers)

Opening(u) == IF StartBalance[u] \in Int THEN StartBalance[u] ELSE 0

\* Credits and debits of one account interleave without losing any of them:
\* the balance is at least what was put in less what was taken out, and at
\* most what was put in.
NoCreditLost ==
  \A u \in Users :
    balance[u] \in Int =>
      /\ balance[u] >= Opening(u) + credits[u] - debits[u]
      /\ balance[u] <= Opening(u) + credits[u]
=============================================================================
