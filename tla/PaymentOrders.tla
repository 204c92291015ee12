---------------------------- MODULE PaymentOrders ----------------------------
(***************************************************************************)
(* Payment orders: creation at the payment gateway and in the database,     *)
(* the customer's payment, the gateway's callbacks (repeated and            *)
(* concurrent), the customer's polling with its lazy expiry, the order      *)
(* list with its bulk expiry, and the manual confirmation by an admin.      *)
(*                                                                          *)
(* A handler reads the order in one step and writes it in a later one, from *)
(* the attributes it read; the session writes only the columns it changed.  *)
(* A first write takes the database's write lock, so that what follows up   *)
(* to the commit is one step.                                               *)
(*                                                                          *)
(* Sources: services/payment.py and the payment handlers of admin/router.py *)
(***************************************************************************)
EXTENDS Naturals, Sequences, FiniteSets

CONSTANTS
  Orders,     \* biz_order_id values (uuid4, never reused)
  Handlers,   \* HTTP handlers running at the same time
  Ops,        \* the operations explored
  NoOrder,    \* an idle handler has no order
  MayAbort    \* whether a handler may fail half-way

AllOps == {"create", "notify", "markPaid", "poll", "list", "misPay"}

ASSUME OrdersAssumption ==
  /\ Ops \subseteq AllOps
  /\ NoOrder \notin Orders
  /\ MayAbort \in BOOLEAN
  /\ IsFiniteSet(Handlers)

VARIABLES
  row,    \* the PaymentOrder table
  keys,   \* the Token rows minted so far: keys[i] is the order of token i
  gw,     \* the payment gateway's view of the order
  due,    \* gateway_expire_at (or created_at + 2 h) has passed
  call    \* what each handler is doing

vars == <<row, keys, gw, due, call>>

Statuses == {"absent", "pending", "paid", "expired", "failed"}
Amounts  == {"none", "listed", "actual"}    \* pay_amount_cny_cents: NULL, the price, as paid

Row  == [status : Statuses, amount : Amounts, token : Nat, credited : BOOLEAN]
NoRow == [status |-> "absent", amount |-> "none", token |-> 0, credited |-> FALSE]

Call == [op : {"idle", "creating", "inserting", "deliver", "reject", "expire"},
         order : Orders \cup {NoOrder}, seen : Row, amount : Amounts]
Idle == [op |-> "idle", order |-> NoOrder, seen |-> NoRow, amount |-> "none"]

Exists(o)   == row[o].status # "absent"
Become(h, c) == call' = [call EXCEPT ![h] = c]

\* SELECT ... WHERE biz_order_id = o, into the handler's session.
Read(h, op, o, amount) ==
  /\ call[h].op = "idle"
  /\ Become(h, [op |-> op, order |-> o, seen |-> row[o], amount |-> amount])

Init ==
  /\ row = [o \in Orders |-> NoRow]
  /\ keys = <<>>
  /\ gw = [o \in Orders |-> "none"]
  /\ due = [o \in Orders |-> FALSE]
  /\ call = [h \in Handlers |-> Idle]

-----------------------------------------------------------------------------
(* create_payment_order *)

CreateStart(h, o) ==
  /\ "create" \in Ops
  /\ gw[o] = "none" /\ ~Exists(o)
  /\ \A g \in Handlers : call[g].order # o
  /\ Read(h, "creating", o, "none")
  /\ UNCHANGED <<row, keys, gw, due>>

\* The gateway accepts POST /api/v1/orders.
GatewayCreates(h) ==
  /\ call[h].op = "creating"
  /\ gw' = [gw EXCEPT ![call[h].order] = "open"]
  /\ Become(h, [call[h] EXCEPT !.op = "inserting"])
  /\ UNCHANGED <<row, keys, due>>

\* The row is committed and the order is shown to the customer.
InsertOrder(h) ==
  /\ call[h].op = "inserting"
  /\ row' = [row EXCEPT ![call[h].order].status = "pending"]
  /\ Become(h, Idle)
  /\ UNCHANGED <<keys, gw, due>>

-----------------------------------------------------------------------------
(* The customer, the gateway and time. *)

\* The customer pays; the amount may be out of tolerance.
Pay(o) ==
  /\ Exists(o) /\ gw[o] = "open"
  /\ \E p \in {"paid"} \cup (IF "misPay" \in Ops THEN {"misPaid"} ELSE {}) :
       gw' = [gw EXCEPT ![o] = p]
  /\ UNCHANGED <<row, keys, due, call>>

GatewayCloses(o) ==
  /\ gw[o] = "open"
  /\ gw' = [gw EXCEPT ![o] = "closed"]
  /\ UNCHANGED <<row, keys, due, call>>

FallDue(o) ==
  /\ Exists(o) /\ ~due[o]
  /\ due' = [due EXCEPT ![o] = TRUE]
  /\ UNCHANGED <<row, keys, gw, call>>

-----------------------------------------------------------------------------
(* payment_notify: the callback carries the amount paid, or none. *)

\* Mutant: a callback for an order that has expired locally is dismissed.
NotifyReadPendingOnly(h, o) ==
  /\ "notify" \in Ops
  /\ gw[o] \in {"paid", "misPaid"}
  /\ row[o].status \in {"pending", "failed"} /\ ~row[o].credited
  /\ IF gw[o] = "misPaid"
     THEN Read(h, "reject", o, "none")
     ELSE \E a \in {"none", "actual"} : Read(h, "deliver", o, a)
  /\ UNCHANGED <<row, keys, gw, due>>

\* Mutant: a delivered order is not acknowledged at once.
NotifyReadAgain(h, o) ==
  /\ "notify" \in Ops
  /\ gw[o] \in {"paid", "misPaid"}
  /\ Exists(o)
  /\ IF gw[o] = "misPaid"
     THEN Read(h, "reject", o, "none")
     ELSE \E a \in {"none", "actual"} : Read(h, "deliver", o, a)
  /\ UNCHANGED <<row, keys, gw, due>>

\* A delivered order is acknowledged at once.
NotifyRead(h, o) ==
  /\ "notify" \in Ops
  /\ gw[o] \in {"paid", "misPaid"}
  /\ Exists(o) /\ ~row[o].credited
  /\ IF gw[o] = "misPaid"
     THEN Read(h, "reject", o, "none")
     ELSE \E a \in {"none", "actual"} : Read(h, "deliver", o, a)
  /\ UNCHANGED <<row, keys, gw, due>>

\* _normalize_pay_cents returned None.
NotifyReject(h) ==
  /\ call[h].op = "reject"
  /\ row' = [row EXCEPT ![call[h].order].status = "failed"]
  /\ Become(h, Idle)
  /\ UNCHANGED <<keys, gw, due>>

-----------------------------------------------------------------------------
(* mark_payment_order_paid *)

MarkRead(h, o) ==
  /\ "markPaid" \in Ops
  /\ Exists(o)
  /\ Read(h, "deliver", o, IF row[o].amount = "none" THEN "listed" ELSE row[o].amount)
  /\ UNCHANGED <<row, keys, gw, due>>

\* mark_order_paid_and_deliver, first part: the columns the session changes.
PaymentInfo(c) ==
  [row[c.order] EXCEPT
     !.status = IF c.seen.status = "paid" THEN @ ELSE "paid",
     !.amount = IF c.seen.amount = "none" /\ c.amount # "none" THEN c.amount ELSE @]

\* Mutant: the idempotence mark is not looked at.
AlreadyDeliveredNever(seen) == FALSE

\* credited_at is the idempotence mark.
AlreadyDelivered(seen) == seen.credited

Delivered(r) == [r EXCEPT !.token = Len(keys) + 1, !.credited = TRUE]

\* Mutant: the key is committed before the order.
DeliverKeyFirst(h) ==
  /\ call[h].op = "deliver"
  /\ keys' = Append(keys, call[h].order)
  /\ \/ row' = [row EXCEPT ![call[h].order] = Delivered(PaymentInfo(call[h]))]
     \/ UNCHANGED row
  /\ Become(h, Idle)
  /\ UNCHANGED <<gw, due>>

Deliver(h) ==
  LET c == call[h]
  IN  /\ c.op = "deliver"
      /\ IF AlreadyDelivered(c.seen)
         THEN row' = [row EXCEPT ![c.order] = PaymentInfo(c)] /\ UNCHANGED keys
         ELSE /\ row' = [row EXCEPT ![c.order] = Delivered(PaymentInfo(c))]
              /\ keys' = Append(keys, c.order)
      /\ Become(h, Idle)
      /\ UNCHANGED <<gw, due>>

-----------------------------------------------------------------------------
(* Polling and listing expire overdue orders. *)

Overdue(o) == row[o].status = "pending" /\ due[o]

\* get_payment_order.  A poll that has nothing to expire only reads.
PollRead(h, o) ==
  /\ "poll" \in Ops
  /\ Overdue(o)
  /\ Read(h, "expire", o, "none")
  /\ UNCHANGED <<row, keys, gw, due>>

\* Mutant: the session writes the whole row it read.
PollExpireWholeRow(h) ==
  /\ call[h].op = "expire"
  /\ row' = [row EXCEPT ![call[h].order] = [call[h].seen EXCEPT !.status = "expired"]]
  /\ Become(h, Idle)
  /\ UNCHANGED <<keys, gw, due>>

PollExpire(h) ==
  /\ call[h].op = "expire"
  /\ row' = [row EXCEPT ![call[h].order].status = "expired"]
  /\ Become(h, Idle)
  /\ UNCHANGED <<keys, gw, due>>

\* _expire_stale_pending_orders: UPDATE ... WHERE status = 'pending' AND ...
ListExpires ==
  /\ "list" \in Ops
  /\ \E o \in Orders : Overdue(o)
  /\ row' = [o \in Orders |-> IF Overdue(o) THEN [row[o] EXCEPT !.status = "expired"]
                                            ELSE row[o]]
  /\ UNCHANGED <<keys, gw, due, call>>

\* An exception, a lost connection or a crash: the open transaction, if any,
\* is rolled back.  The gateway repeats a callback that was not answered 2xx.
Abort(h) ==
  /\ MayAbort
  /\ call[h].op # "idle"
  /\ Become(h, Idle)
  /\ UNCHANGED <<row, keys, gw, due>>

-----------------------------------------------------------------------------
Step(h) ==
  GatewayCreates(h) \/ InsertOrder(h) \/ NotifyReject(h) \/ Deliver(h) \/ PollExpire(h)

Start(h, o) == CreateStart(h, o) \/ NotifyRead(h, o) \/ MarkRead(h, o) \/ PollRead(h, o)

Next ==
  \/ \E h \in Handlers : Step(h) \/ Abort(h) \/ \E o \in Orders : Start(h, o)
  \/ \E o \in Orders : Pay(o) \/ GatewayCloses(o) \/ FallDue(o)
  \/ ListExpires

Spec == Init /\ [][Next]_vars

\* The event loop finishes every handler, the gateway repeats the callback of a
\* paid order until it is acknowledged, and not every repetition fails.
FairSpec ==
  /\ Spec
  /\ \A h \in Handlers : WF_vars(Step(h))
  /\ \A o \in Orders :
       /\ SF_vars(\E h \in Handlers : NotifyRead(h, o))
       /\ SF_vars(\E h \in Handlers : call[h].order = o /\ Deliver(h))

-----------------------------------------------------------------------------
(* Properties. *)

TypeOK ==
  /\ row \in [Orders -> Row]
  /\ keys \in Seq(Orders)
  /\ gw \in [Orders -> {"none", "open", "paid", "misPaid", "closed"}]
  /\ due \in [Orders -> BOOLEAN]
  /\ call \in [Handlers -> Call]

KeysOf(o) == {i \in DOMAIN keys : keys[i] = o}

\* Delivery is all or nothing: whatever aborts it, an order is marked credited
\* exactly when it points to a key minted for it, and no key is minted that
\* leaves its order uncredited (a retry would mint another).
DeliveredAtomically ==
  \A o \in Orders :
    /\ row[o].credited <=> KeysOf(o) # {}
    /\ row[o].credited <=> row[o].token \in KeysOf(o)

\* The idempotence mark is read in one step and set in another, so concurrent
\* handlers may each deliver; but only handlers that read the order before the
\* first delivery do: never more keys than handlers that ran at once.
KeysBoundedByRacers ==
  \A o \in Orders : Cardinality(KeysOf(o)) <= Cardinality(Handlers)

\* A delivery is never undone: the mark stays, and the keys handed out remain.
DeliveryIsFinal ==
  [][ \A o \in Orders : row[o].credited => row'[o].credited /\ KeysOf(o) \subseteq KeysOf(o)' ]_vars

\* docs/payment.md section 4: repeated callbacks deliver one key, and neither
\* polling nor a manual confirmation delivers a second.
OneKeyPerOrder == \A o \in Orders : Cardinality(KeysOf(o)) <= 1

\* A payment is never lost: even if the order expired locally, and whatever
\* polls, lists and confirmations run beside the callback, it is delivered.
PaidIsDelivered == \A o \in Orders : (gw[o] = "paid") ~> row[o].credited

\* One handler at a time, the module implements OrderSale.
SaleOf(r) ==
  CASE r.status = "absent"  -> "none"
    [] r.status = "pending" -> "open"
    [] r.status = "paid"    -> "sold"
    [] OTHER                -> "closed"

Sale == INSTANCE OrderSale WITH
          sale <- [o \in Orders |-> SaleOf(row[o])],
          delivered <- [o \in Orders |-> Cardinality(KeysOf(o))]

ImplementsSale == Sale!Spec
=============================================================================
