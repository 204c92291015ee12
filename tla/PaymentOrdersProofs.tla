------------------------- MODULE PaymentOrdersProofs -------------------------
(***************************************************************************)
(* Proofs about PaymentOrders for every set of orders and handlers: types,  *)
(* deliveries that are all or nothing and final, the bound on surplus keys, *)
(* and, for handlers that run one after the other, that the module          *)
(* implements OrderSale.                                                    *)
(***************************************************************************)
EXTENDS PaymentOrders, FiniteSetTheorems, TLAPS

\* Handlers about to deliver an order they read before its delivery.
Racers(o) ==
  {h \in Handlers : call[h].op = "deliver" /\ call[h].order = o /\ ~call[h].seen.credited}

\* Once an order has a key, each racer can add one more, and only racers can.
RacersBounded ==
  \A o \in Orders :
    KeysOf(o) # {} => Cardinality(KeysOf(o)) + Cardinality(Racers(o)) <= Cardinality(Handlers)

BusyOnOrder == \A h \in Handlers : call[h].op # "idle" => call[h].order \in Orders

IInv == TypeOK /\ BusyOnOrder /\ DeliveredAtomically /\ RacersBounded

-----------------------------------------------------------------------------
LEMMA RacersFinite ==
  ASSUME NEW o \in Orders
  PROVE  /\ IsFiniteSet(Racers(o)) /\ Cardinality(Racers(o)) \in Nat
         /\ Cardinality(Racers(o)) <= Cardinality(Handlers)
         /\ Cardinality(Handlers) \in Nat
  <1>1. Racers(o) \subseteq Handlers
    BY DEF Racers
  <1> QED BY <1>1, OrdersAssumption, FS_Subset, FS_CardinalityType

LEMMA KeysFinite ==
  ASSUME keys \in Seq(Orders), NEW o \in Orders
  PROVE  IsFiniteSet(KeysOf(o)) /\ Cardinality(KeysOf(o)) \in Nat
  <1>1. KeysOf(o) \subseteq 1..Len(keys)
    BY DEF KeysOf
  <1>2. IsFiniteSet(1..Len(keys))
    BY FS_Interval
  <1> QED BY <1>1, <1>2, FS_Subset, FS_CardinalityType

\* The facts a step that mints no key has to establish.
LEMMA NoMintInv ==
  ASSUME IInv, TypeOK', BusyOnOrder', keys' = keys,
         \A o \in Orders : row'[o].credited = row[o].credited /\ row'[o].token = row[o].token,
         \A o \in Orders : row[o].credited => Racers(o)' \subseteq Racers(o)
  PROVE  IInv'
  <1> USE DEF IInv
  <1>1. DeliveredAtomically'
    BY DEF DeliveredAtomically, KeysOf
  <1>2. ASSUME NEW o \in Orders, KeysOf(o)' # {}
        PROVE  Cardinality(KeysOf(o)') + Cardinality(Racers(o)') <= Cardinality(Handlers)
    <2>1. KeysOf(o)' = KeysOf(o)
      BY DEF KeysOf
    <2>2. Racers(o)' \subseteq Racers(o)
      BY <1>2, <2>1 DEF DeliveredAtomically
    <2>3. Cardinality(Racers(o)') <= Cardinality(Racers(o)) /\ Cardinality(Racers(o)') \in Nat
      BY <2>2, RacersFinite, FS_Subset, FS_CardinalityType
    <2>4. Cardinality(KeysOf(o)) + Cardinality(Racers(o)) <= Cardinality(Handlers)
      BY <1>2, <2>1 DEF RacersBounded
    <2>5. Cardinality(KeysOf(o)) \in Nat
      BY KeysFinite DEF TypeOK
    <2> QED BY <2>1, <2>3, <2>4, <2>5, RacersFinite
  <1>3. RacersBounded'
    BY <1>2 DEF RacersBounded
  <1> QED BY <1>1, <1>3

-----------------------------------------------------------------------------
LEMMA InitInv == Init => IInv
  <1> SUFFICES ASSUME Init PROVE IInv
    OBVIOUS
  <1>1. \A o \in Orders : KeysOf(o) = {}
    BY DEF Init, KeysOf
  <1>2. TypeOK
    BY DEF Init, TypeOK, Row, NoRow, Statuses, Amounts, Call, Idle
  <1>3. BusyOnOrder
    BY DEF Init, BusyOnOrder, Idle
  <1>4. DeliveredAtomically /\ RacersBounded
    BY <1>1 DEF Init, DeliveredAtomically, RacersBounded, NoRow
  <1> QED BY <1>2, <1>3, <1>4 DEF IInv

\* Starting a handler: what it read is current, so it races only for an order
\* that has not been delivered.
LEMMA StartInv ==
  ASSUME IInv, NEW h \in Handlers, NEW o \in Orders, Start(h, o)
  PROVE  IInv'
  <1> USE DEF IInv
  <1>1. /\ UNCHANGED <<row, keys, gw, due>>
        /\ \E op \in {"creating", "deliver", "reject", "expire"}, a \in Amounts :
             Read(h, op, o, a)
    <2>1. CASE CreateStart(h, o)
      BY <2>1 DEF CreateStart, Amounts
    <2>2. CASE NotifyRead(h, o)
      BY <2>2 DEF NotifyRead, Amounts
    <2>3. CASE MarkRead(h, o)
      BY <2>3 DEF MarkRead, Amounts, TypeOK, Row
    <2>4. CASE PollRead(h, o)
      BY <2>4 DEF PollRead, Amounts
    <2> QED BY <2>1, <2>2, <2>3, <2>4 DEF Start
  <1>2. PICK op \in {"creating", "deliver", "reject", "expire"}, a \in Amounts :
          Read(h, op, o, a)
    BY <1>1
  <1>3. call' = [call EXCEPT ![h] = [op |-> op, order |-> o, seen |-> row[o], amount |-> a]]
    BY <1>2 DEF Read, Become
  <1>4. TypeOK'
    BY <1>1, <1>3 DEF TypeOK, Call
  <1>5. BusyOnOrder'
    BY <1>3 DEF BusyOnOrder, TypeOK
  <1>6. ASSUME NEW p \in Orders, row[p].credited
        PROVE  Racers(p)' \subseteq Racers(p)
    BY <1>3, <1>6 DEF Racers, TypeOK
  <1> QED BY <1>1, <1>4, <1>5, <1>6, NoMintInv

\* A handler that ends, or moves on without delivering.
LEMMA CallEndsInv ==
  ASSUME IInv, NEW h \in Handlers, NEW c \in Call,
         c.op # "deliver", c.op # "idle" => c.order \in Orders,
         call' = [call EXCEPT ![h] = c],
         keys' = keys, row' \in [Orders -> Row], UNCHANGED due,
         gw' \in [Orders -> {"none", "open", "paid", "misPaid", "closed"}],
         \A o \in Orders : row'[o].credited = row[o].credited /\ row'[o].token = row[o].token
  PROVE  IInv'
  <1> USE DEF IInv
  <1>1. TypeOK'
    BY DEF TypeOK
  <1>2. BusyOnOrder'
    BY DEF BusyOnOrder, TypeOK
  <1>3. \A o \in Orders : Racers(o)' \subseteq Racers(o)
    BY DEF Racers, TypeOK
  <1> QED BY <1>1, <1>2, <1>3, NoMintInv

\* Writing an order's status leaves its delivery alone.
LEMMA StatusOnly ==
  ASSUME TypeOK, NEW o \in Orders, NEW s \in Statuses,
         row' = [row EXCEPT ![o].status = s]
  PROVE  /\ row' \in [Orders -> Row]
         /\ \A p \in Orders : row'[p].credited = row[p].credited /\ row'[p].token = row[p].token
  <1> DEFINE r == [row[o] EXCEPT !.status = s]
  <1>1. row[o] \in Row
    BY DEF TypeOK
  <1>2. r \in Row /\ r.credited = row[o].credited /\ r.token = row[o].token
    BY <1>1 DEF Row
  <1>3. row' = [row EXCEPT ![o] = r]
    OBVIOUS
  <1> HIDE DEF r
  <1>4. row' \in [Orders -> Row]
    BY <1>2, <1>3 DEF TypeOK
  <1>5. \A p \in Orders : row'[p] = IF p = o THEN r ELSE row[p]
    BY <1>3 DEF TypeOK
  <1> QED BY <1>2, <1>4, <1>5

LEMMA IdleIsCall == Idle \in Call
  BY DEF Idle, Call, Row, NoRow, Statuses, Amounts

LEMMA CreateInv ==
  ASSUME IInv, NEW h \in Handlers, GatewayCreates(h) \/ InsertOrder(h)
  PROVE  IInv'
  <1> USE DEF IInv
  <1>1. call[h] \in Call
    BY DEF TypeOK
  <1>2. CASE GatewayCreates(h)
    <2> DEFINE c == [call[h] EXCEPT !.op = "inserting"]
    <2>1. call[h].order \in Orders
      BY <1>2 DEF GatewayCreates, BusyOnOrder
    <2>2. c \in Call /\ c.op = "inserting" /\ c.order \in Orders
      BY <1>1, <2>1 DEF Call
    <2>3. call' = [call EXCEPT ![h] = c] /\ UNCHANGED <<row, keys, due>>
      BY <1>2 DEF GatewayCreates, Become
    <2>4. gw' \in [Orders -> {"none", "open", "paid", "misPaid", "closed"}]
      BY <1>2 DEF GatewayCreates, TypeOK
    <2> HIDE DEF c
    <2> QED BY <2>2, <2>3, <2>4, CallEndsInv DEF TypeOK
  <1>3. CASE InsertOrder(h)
    <2>1. call[h].order \in Orders
      BY <1>3 DEF InsertOrder, BusyOnOrder
    <2>2. row' = [row EXCEPT ![call[h].order].status = "pending"] /\ "pending" \in Statuses
      BY <1>3 DEF InsertOrder, Statuses
    <2>3. call' = [call EXCEPT ![h] = Idle] /\ UNCHANGED <<keys, gw, due>>
      BY <1>3 DEF InsertOrder, Become
    <2>4. gw' \in [Orders -> {"none", "open", "paid", "misPaid", "closed"}]
      BY <2>3 DEF TypeOK
    <2> QED BY <2>1, <2>2, <2>3, <2>4, IdleIsCall, StatusOnly, CallEndsInv DEF Idle
  <1> QED BY <1>2, <1>3

LEMMA CloseInv ==
  ASSUME IInv, NEW h \in Handlers, NotifyReject(h) \/ PollExpire(h) \/ Abort(h)
  PROVE  IInv'
  <1> USE DEF IInv
  <1>1. call' = [call EXCEPT ![h] = Idle] /\ UNCHANGED <<keys, gw, due>>
    BY DEF NotifyReject, PollExpire, Abort, Become
  <1>2. gw' \in [Orders -> {"none", "open", "paid", "misPaid", "closed"}]
    BY <1>1 DEF TypeOK
  <1>3. call[h].order \in Orders
    BY DEF NotifyReject, PollExpire, Abort, BusyOnOrder
  <1>4. \/ \E s \in Statuses : row' = [row EXCEPT ![call[h].order].status = s]
        \/ row' = row
    BY DEF NotifyReject, PollExpire, Abort, Statuses
  <1>5. /\ row' \in [Orders -> Row]
        /\ \A p \in Orders : row'[p].credited = row[p].credited /\ row'[p].token = row[p].token
    BY <1>3, <1>4, StatusOnly DEF TypeOK
  <1> QED BY <1>1, <1>2, <1>5, IdleIsCall, CallEndsInv DEF Idle

\* The bulk expiry and the outside world mint nothing.
LEMMA OutsideInv ==
  ASSUME IInv, ListExpires \/ \E o \in Orders : Pay(o) \/ GatewayCloses(o) \/ FallDue(o)
  PROVE  IInv'
  <1> USE DEF IInv
  <1>1. UNCHANGED <<keys, call>>
    BY DEF ListExpires, Pay, GatewayCloses, FallDue
  <1>2. /\ row' \in [Orders -> Row]
        /\ \A p \in Orders : row'[p].credited = row[p].credited /\ row'[p].token = row[p].token
    <2>1. CASE ListExpires
      <3> DEFINE e(o) == [row[o] EXCEPT !.status = "expired"]
      <3>1. \A o \in Orders : e(o) \in Row /\ e(o).credited = row[o].credited
                                           /\ e(o).token = row[o].token
        BY DEF TypeOK, Row, Statuses
      <3>2. row' = [o \in Orders |-> IF Overdue(o) THEN e(o) ELSE row[o]]
        BY <2>1 DEF ListExpires
      <3> HIDE DEF e
      <3> QED BY <3>1, <3>2 DEF TypeOK
    <2>2. CASE UNCHANGED row
      BY <2>2 DEF TypeOK
    <2> QED BY <2>1, <2>2 DEF Pay, GatewayCloses, FallDue
  <1>3. TypeOK'
    <2>1. gw' \in [Orders -> {"none", "open", "paid", "misPaid", "closed"}]
      BY DEF ListExpires, Pay, GatewayCloses, FallDue, TypeOK
    <2>2. due' \in [Orders -> BOOLEAN]
      BY DEF ListExpires, Pay, GatewayCloses, FallDue, TypeOK
    <2> QED BY <1>1, <1>2, <2>1, <2>2 DEF TypeOK
  <1>4. BusyOnOrder' /\ \A o \in Orders : Racers(o)' \subseteq Racers(o)
    BY <1>1 DEF BusyOnOrder, Racers
  <1> QED BY <1>1, <1>2, <1>3, <1>4, NoMintInv

-----------------------------------------------------------------------------
\* The delivery: the columns the session changes keep mark and token.
LEMMA PaymentInfoRow ==
  ASSUME TypeOK, NEW h \in Handlers, call[h].order \in Orders
  PROVE  /\ PaymentInfo(call[h]) \in Row
         /\ PaymentInfo(call[h]).credited = row[call[h].order].credited
         /\ PaymentInfo(call[h]).token = row[call[h].order].token
  <1>1. row[call[h].order] \in Row /\ call[h].amount \in Amounts
    BY DEF TypeOK, Call
  <1> QED BY <1>1 DEF PaymentInfo, Row, Statuses

LEMMA RedeliverInv ==
  ASSUME IInv, NEW h \in Handlers, Deliver(h), AlreadyDelivered(call[h].seen)
  PROVE  IInv'
  <1> USE DEF IInv
  <1>1. /\ call' = [call EXCEPT ![h] = Idle] /\ UNCHANGED <<keys, gw, due>>
        /\ row' = [row EXCEPT ![call[h].order] = PaymentInfo(call[h])]
    BY DEF Deliver, Become
  <1>2. call[h].order \in Orders
    BY DEF Deliver, BusyOnOrder
  <1>3. /\ row' \in [Orders -> Row]
        /\ \A p \in Orders : row'[p].credited = row[p].credited /\ row'[p].token = row[p].token
    BY <1>1, <1>2, PaymentInfoRow DEF TypeOK
  <1>4. gw' \in [Orders -> {"none", "open", "paid", "misPaid", "closed"}]
    BY <1>1 DEF TypeOK
  <1> QED BY <1>1, <1>3, <1>4, IdleIsCall, CallEndsInv DEF Idle

\* A minted key is one more of its order and of no other.
LEMMA KeysAppended ==
  ASSUME keys \in Seq(Orders), NEW o \in Orders, keys' = Append(keys, o)
  PROVE  /\ KeysOf(o)' = KeysOf(o) \cup {Len(keys) + 1}
         /\ Len(keys) + 1 \notin KeysOf(o)
         /\ \A p \in Orders : p # o => KeysOf(p)' = KeysOf(p)
  <1>1. /\ Len(keys) \in Nat /\ DOMAIN keys = 1..Len(keys)
        /\ DOMAIN keys' = 1..(Len(keys) + 1)
        /\ keys'[Len(keys) + 1] = o
        /\ \A i \in 1..Len(keys) : keys'[i] = keys[i]
    OBVIOUS
  <1>2. Len(keys) + 1 \notin DOMAIN keys /\ DOMAIN keys' = DOMAIN keys \cup {Len(keys) + 1}
    BY <1>1
  <1> QED BY <1>1, <1>2 DEF KeysOf

\* A mint: one racer less, one key more.
LEMMA MintInv ==
  ASSUME IInv, NEW h \in Handlers, Deliver(h), ~AlreadyDelivered(call[h].seen)
  PROVE  IInv'
  <1> USE DEF IInv
  <1> DEFINE r == Delivered(PaymentInfo(call[h]))
  <1>0. PICK o \in Orders : o = call[h].order
    BY DEF Deliver, BusyOnOrder
  <1>1. /\ call' = [call EXCEPT ![h] = Idle] /\ UNCHANGED <<gw, due>>
        /\ row' = [row EXCEPT ![o] = r]
        /\ keys' = Append(keys, o)
    BY <1>0 DEF Deliver, Become
  <1>2. o \in Orders /\ h \in Racers(o)
    BY <1>0 DEF Deliver, Racers, AlreadyDelivered
  <1>3. r \in Row /\ r.credited /\ r.token = Len(keys) + 1
    <2> DEFINE q == PaymentInfo(call[h])
    <2>1. q \in Row
      BY <1>0, PaymentInfoRow
    <2>2. Len(keys) + 1 \in Nat
      BY DEF TypeOK
    <2>3. r = [q EXCEPT !.token = Len(keys) + 1, !.credited = TRUE]
      BY DEF Delivered
    <2> HIDE DEF q, r
    <2> QED BY <2>1, <2>2, <2>3 DEF Row
  <1> HIDE DEF r
  <1>4. TypeOK'
    BY <1>1, <1>2, <1>3, IdleIsCall DEF TypeOK
  <1>5. BusyOnOrder'
    BY <1>1 DEF BusyOnOrder, TypeOK, Idle
  <1>6. /\ KeysOf(o)' = KeysOf(o) \cup {Len(keys) + 1}
        /\ Len(keys) + 1 \notin KeysOf(o)
        /\ \A p \in Orders : p # o => KeysOf(p)' = KeysOf(p)
    BY <1>1, KeysAppended DEF TypeOK
  <1>7. /\ Racers(o)' = Racers(o) \ {h}
        /\ \A p \in Orders : p # o => Racers(p)' = Racers(p)
    <2>1. /\ call'[h].op = "idle"
          /\ \A g \in Handlers : g # h => call'[g] = call[g]
      BY <1>1 DEF TypeOK, Idle
    <2> QED BY <1>0, <2>1 DEF Racers
  <1>8. DeliveredAtomically'
    <2>1. row'[o] = r /\ \A p \in Orders : p # o => row'[p] = row[p]
      BY <1>1, <1>2 DEF TypeOK
    <2> QED BY <1>3, <1>6, <2>1 DEF DeliveredAtomically
  <1>9. RacersBounded'
    <2>1. ASSUME NEW p \in Orders, p # o, KeysOf(p)' # {}
          PROVE  Cardinality(KeysOf(p)') + Cardinality(Racers(p)') <= Cardinality(Handlers)
      BY <1>6, <1>7, <2>1 DEF RacersBounded
    <2>2. Cardinality(KeysOf(o)') = Cardinality(KeysOf(o)) + 1
      BY <1>2, <1>6, KeysFinite, FS_AddElement DEF TypeOK
    <2>3. Cardinality(Racers(o)') = Cardinality(Racers(o)) - 1
      BY <1>2, <1>7, RacersFinite, FS_RemoveElement
    <2>4. Cardinality(KeysOf(o)) + Cardinality(Racers(o)) <= Cardinality(Handlers)
      <3>1. CASE KeysOf(o) = {}
        BY <1>2, <3>1, RacersFinite, FS_EmptySet
      <3>2. CASE KeysOf(o) # {}
        BY <1>2, <3>2 DEF RacersBounded
      <3> QED BY <3>1, <3>2
    <2>5. Cardinality(KeysOf(o)) \in Nat
      BY <1>2, KeysFinite DEF TypeOK
    <2>6. Cardinality(KeysOf(o)') + Cardinality(Racers(o)') <= Cardinality(Handlers)
      BY <1>2, <2>2, <2>3, <2>4, <2>5, RacersFinite
    <2> QED BY <2>1, <2>6 DEF RacersBounded
  <1> QED BY <1>4, <1>5, <1>8, <1>9

-----------------------------------------------------------------------------
LEMMA NextInv == IInv /\ [Next]_vars => IInv'
  <1> SUFFICES ASSUME IInv, [Next]_vars PROVE IInv'
    OBVIOUS
  <1>1. CASE UNCHANGED vars
    BY <1>1 DEF vars, IInv, TypeOK, BusyOnOrder, DeliveredAtomically, RacersBounded, KeysOf, Racers
  <1>2. ASSUME NEW h \in Handlers, Step(h) PROVE IInv'
    BY <1>2, CreateInv, CloseInv, RedeliverInv, MintInv DEF Step
  <1>3. ASSUME NEW h \in Handlers, NEW o \in Orders, Start(h, o) PROVE IInv'
    BY <1>3, StartInv
  <1> QED BY <1>1, <1>2, <1>3, CloseInv, OutsideInv DEF Next

THEOREM SpecInv == Spec => []IInv
  BY InitInv, NextInv, PTL DEF Spec

\* Every reachable state has the types the columns declare.
THEOREM OrdersTypeOK == Spec => []TypeOK
  <1>1. IInv => TypeOK
    BY DEF IInv
  <1> QED BY <1>1, SpecInv, PTL

\* Whatever fails in mark_order_paid_and_deliver, credited_at is set exactly
\* when the order points to a key minted for it.
THEOREM OrdersDeliveredAtomically == Spec => []DeliveredAtomically
  <1>1. IInv => DeliveredAtomically
    BY DEF IInv
  <1> QED BY <1>1, SpecInv, PTL

\* At most as many keys per order as handlers run at once: one of them for a
\* single handler, which is the promise of docs/payment.md.
THEOREM OrdersKeysBounded == Spec => []KeysBoundedByRacers
  <1>1. IInv => KeysBoundedByRacers
    <2> SUFFICES ASSUME IInv, NEW o \in Orders
                 PROVE  Cardinality(KeysOf(o)) <= Cardinality(Handlers)
      BY DEF KeysBoundedByRacers
    <2>1. Cardinality(KeysOf(o)) \in Nat
      BY KeysFinite DEF IInv, TypeOK
    <2>2. CASE KeysOf(o) = {}
      BY <2>2, FS_EmptySet, RacersFinite
    <2>3. CASE KeysOf(o) # {}
      BY <2>1, <2>3, RacersFinite DEF IInv, RacersBounded
    <2> QED BY <2>2, <2>3
  <1> QED BY <1>1, SpecInv, PTL

\* Run one after the other, the handlers deliver one key per order.
THEOREM OrdersSerialOneKey ==
  ASSUME Cardinality(Handlers) = 1
  PROVE  Spec => []OneKeyPerOrder
  <1>1. KeysBoundedByRacers => OneKeyPerOrder
    BY DEF KeysBoundedByRacers, OneKeyPerOrder
  <1> QED BY <1>1, OrdersKeysBounded, PTL

-----------------------------------------------------------------------------
(* Deliveries are final.                                                    *)

\* Every step either mints a key for a handler's order or leaves keys, marks
\* and tokens alone.
NoMint ==
  /\ keys' = keys
  /\ \A o \in Orders : row'[o].credited = row[o].credited /\ row'[o].token = row[o].token

LEMMA MintOrNot ==
  ASSUME IInv, Next
  PROVE  \/ NoMint
         \/ \E h \in Handlers : Deliver(h) /\ ~AlreadyDelivered(call[h].seen)
  <1> USE DEF IInv
  <1>1. ASSUME NEW h \in Handlers, NEW o \in Orders, Start(h, o) PROVE NoMint
    BY <1>1 DEF Start, CreateStart, NotifyRead, MarkRead, PollRead, NoMint
  <1>2. ASSUME NEW h \in Handlers, InsertOrder(h) \/ NotifyReject(h) \/ PollExpire(h)
        PROVE  NoMint
    <2>1. /\ keys' = keys /\ call[h].order \in Orders
          /\ \E s \in Statuses : row' = [row EXCEPT ![call[h].order].status = s]
      BY <1>2 DEF InsertOrder, NotifyReject, PollExpire, BusyOnOrder, Statuses
    <2> QED BY <2>1, StatusOnly DEF NoMint
  <1>3. ASSUME NEW h \in Handlers, GatewayCreates(h) \/ Abort(h) PROVE NoMint
    BY <1>3 DEF GatewayCreates, Abort, NoMint
  <1>4. ASSUME NEW h \in Handlers, Deliver(h), AlreadyDelivered(call[h].seen) PROVE NoMint
    <2>1. /\ keys' = keys /\ call[h].order \in Orders
          /\ row' = [row EXCEPT ![call[h].order] = PaymentInfo(call[h])]
      BY <1>4 DEF Deliver, BusyOnOrder
    <2> QED BY <2>1, PaymentInfoRow DEF NoMint, TypeOK
  <1>5. CASE ListExpires
    <2> DEFINE e(o) == [row[o] EXCEPT !.status = "expired"]
    <2>1. \A o \in Orders : e(o).credited = row[o].credited /\ e(o).token = row[o].token
      BY DEF TypeOK, Row
    <2>2. row' = [o \in Orders |-> IF Overdue(o) THEN e(o) ELSE row[o]] /\ keys' = keys
      BY <1>5 DEF ListExpires
    <2> HIDE DEF e
    <2> QED BY <2>1, <2>2 DEF NoMint
  <1>6. ASSUME NEW o \in Orders, Pay(o) \/ GatewayCloses(o) \/ FallDue(o) PROVE NoMint
    BY <1>6 DEF Pay, GatewayCloses, FallDue, NoMint
  <1> QED BY <1>1, <1>2, <1>3, <1>4, <1>5, <1>6 DEF Next, Step

\* What a mint does to the order it is for, and that it does nothing to others.
LEMMA MintStep ==
  ASSUME IInv, NEW h \in Handlers, NEW o \in Orders, o = call[h].order,
         Deliver(h), ~AlreadyDelivered(call[h].seen)
  PROVE  /\ row'[o].credited
         /\ row'[o].status = IF call[h].seen.status = "paid" THEN row[o].status ELSE "paid"
         /\ Cardinality(KeysOf(o)') = Cardinality(KeysOf(o)) + 1
         /\ KeysOf(o) \subseteq KeysOf(o)'
         /\ \A p \in Orders : p # o => row'[p] = row[p] /\ KeysOf(p)' = KeysOf(p)
  <1> USE DEF IInv
  <1> DEFINE q == PaymentInfo(call[h])
             r == Delivered(q)
  <1>1. row' = [row EXCEPT ![o] = r] /\ keys' = Append(keys, o)
    BY DEF Deliver
  <1>2. q \in Row
    BY PaymentInfoRow
  <1>3. q.status = IF call[h].seen.status = "paid" THEN row[o].status ELSE "paid"
    <2>1. row[o] \in Row
      BY DEF TypeOK
    <2> QED BY <2>1 DEF PaymentInfo, Row
  <1>4. r.credited /\ r.status = q.status
    <2> HIDE DEF q
    <2> QED BY <1>2 DEF Delivered, Row
  <1> HIDE DEF q, r
  <1>5. row'[o] = r /\ \A p \in Orders : p # o => row'[p] = row[p]
    BY <1>1 DEF TypeOK
  <1>6. /\ KeysOf(o)' = KeysOf(o) \cup {Len(keys) + 1}
        /\ Len(keys) + 1 \notin KeysOf(o)
        /\ \A p \in Orders : p # o => KeysOf(p)' = KeysOf(p)
    BY <1>1, KeysAppended DEF TypeOK
  <1>7. Cardinality(KeysOf(o)') = Cardinality(KeysOf(o)) + 1
    BY <1>6, KeysFinite, FS_AddElement DEF TypeOK
  <1> QED BY <1>3, <1>4, <1>5, <1>6, <1>7

\* No poll, list, callback or failure ever takes the mark of a delivery back or
\* removes a key that was handed out.
THEOREM OrdersDeliveryFinal == Spec => DeliveryIsFinal
  <1> DEFINE Final == \A o \in Orders : row[o].credited => row'[o].credited /\ KeysOf(o) \subseteq KeysOf(o)'
  <1>1. ASSUME IInv, [Next]_vars PROVE [Final]_vars
    <2>1. CASE NoMint
      BY <2>1 DEF NoMint, KeysOf
    <2>2. ASSUME NEW h \in Handlers, Deliver(h), ~AlreadyDelivered(call[h].seen) PROVE Final
      <3>1. PICK o \in Orders : o = call[h].order
        BY <1>1, <2>2 DEF IInv, BusyOnOrder, Deliver
      <3> QED BY <1>1, <2>2, <3>1, MintStep
    <2>3. CASE Next
      BY <1>1, <2>1, <2>2, <2>3, MintOrNot
    <2> HIDE DEF Final
    <2> QED BY <1>1, <2>3
  <1> QED BY <1>1, SpecInv, PTL DEF Spec, DeliveryIsFinal

-----------------------------------------------------------------------------
(* One handler at a time, the payment module implements OrderSale.          *)

\* An order is paid exactly when it was delivered.
PaidIsCredited == \A o \in Orders : row[o].status = "paid" <=> row[o].credited

\* What a lone handler read is still true of the order when it writes, but for
\* the bulk expiry, which may expire a pending order under it.
ReadIsCurrent ==
  \A h \in Handlers :
    /\ call[h].op \in {"creating", "inserting"} => row[call[h].order].status = "absent"
    /\ call[h].op \in {"deliver", "reject", "expire"} => row[call[h].order].status # "absent"
    /\ call[h].op = "deliver" =>
         /\ call[h].seen.credited <=> row[call[h].order].credited
         /\ call[h].seen.status = "paid" <=> row[call[h].order].status = "paid"
    /\ call[h].op = "reject" => ~row[call[h].order].credited
    /\ call[h].op = "expire" => row[call[h].order].status \in {"pending", "expired"}

SerialInv == PaidIsCredited /\ ReadIsCurrent

\* The statuses a step changes, seen as a sale.
SaleStep ==
  \/ \E o \in Orders : /\ row[o].status = "absent" /\ row'[o].status = "pending"
                       /\ \A p \in Orders : p # o => row'[p].status = row[p].status
                       /\ keys' = keys
  \/ \E o \in Orders : /\ row[o].status \notin {"absent", "paid"} /\ row'[o].status = "paid"
                       /\ Cardinality(KeysOf(o)') = Cardinality(KeysOf(o)) + 1
                       /\ \A p \in Orders : p # o => /\ row'[p].status = row[p].status
                                                     /\ KeysOf(p)' = KeysOf(p)
  \/ \E S \in SUBSET Orders :
       /\ \A o \in S : row[o].status = "pending" /\ row'[o].status \in {"expired", "failed"}
       /\ \A o \in Orders \ S : \/ row'[o].status = row[o].status
                                \/ {row[o].status, row'[o].status} \subseteq {"expired", "failed"}
       /\ keys' = keys

LEMMA SaleRefinesStep ==
  ASSUME TypeOK, TypeOK', SaleStep
  PROVE  [Sale!Next]_<<[o \in Orders |-> SaleOf(row[o])], [o \in Orders |-> Cardinality(KeysOf(o))]>>
  <1> DEFINE sale == [o \in Orders |-> SaleOf(row[o])]
             delivered == [o \in Orders |-> Cardinality(KeysOf(o))]
  <1>1. \A o \in Orders : row[o].status \in Statuses /\ row'[o].status \in Statuses
    BY DEF TypeOK, Row
  <1>2. ASSUME keys' = keys PROVE delivered' = delivered
    BY <1>2 DEF KeysOf
  <1>3. ASSUME NEW o \in Orders, row[o].status = "absent", row'[o].status = "pending",
               \A p \in Orders : p # o => row'[p].status = row[p].status, keys' = keys
        PROVE  Sale!Open(o)
    <2>1. sale[o] = "none" /\ sale' = [sale EXCEPT ![o] = "open"]
      BY <1>3 DEF SaleOf
    <2> QED BY <1>2, <1>3, <2>1 DEF Sale!Open
  <1>4. ASSUME NEW o \in Orders, row[o].status \notin {"absent", "paid"}, row'[o].status = "paid",
               Cardinality(KeysOf(o)') = Cardinality(KeysOf(o)) + 1,
               \A p \in Orders : p # o => row'[p].status = row[p].status /\ KeysOf(p)' = KeysOf(p)
        PROVE  Sale!Sell(o)
    <2>1. sale[o] \in {"open", "closed"} /\ sale' = [sale EXCEPT ![o] = "sold"]
      BY <1>1, <1>4 DEF SaleOf
    <2>2. delivered' = [delivered EXCEPT ![o] = @ + 1]
      BY <1>4
    <2> QED BY <2>1, <2>2 DEF Sale!Sell
  <1>5. ASSUME NEW S \in SUBSET Orders, keys' = keys,
               \A o \in S : row[o].status = "pending" /\ row'[o].status \in {"expired", "failed"},
               \A o \in Orders \ S : \/ row'[o].status = row[o].status
                                     \/ {row[o].status, row'[o].status} \subseteq {"expired", "failed"}
        PROVE  Sale!Close(S) \/ UNCHANGED <<sale, delivered>>
    <2>1. \A o \in S : sale[o] = "open"
      BY <1>5 DEF SaleOf
    <2>2. sale' = [o \in Orders |-> IF o \in S THEN "closed" ELSE sale[o]]
      BY <1>5 DEF SaleOf
    <2>3. CASE S = {}
      <3>1. sale' = sale
        BY <2>2, <2>3
      <3> QED BY <1>2, <1>5, <3>1
    <2>4. CASE S # {}
      BY <1>2, <1>5, <2>1, <2>2, <2>4 DEF Sale!Close
    <2> QED BY <2>3, <2>4
  <1> QED BY <1>3, <1>4, <1>5 DEF SaleStep, Sale!Next

\* Nobody else moves a lone handler's order.
LEMMA Alone ==
  ASSUME Cardinality(Handlers) = 1
  PROVE  \E h : Handlers = {h}
  BY OrdersAssumption, FS_Singleton

\* A step that touches no row is a stuttering sale.
LEMMA SameRowsStep ==
  ASSUME row' = row, keys' = keys
  PROVE  SaleStep
  <1>1. /\ \A o \in {} : row[o].status = "pending" /\ row'[o].status \in {"expired", "failed"}
        /\ \A o \in Orders \ {} : row'[o].status = row[o].status
    OBVIOUS
  <1>2. {} \in SUBSET Orders
    OBVIOUS
  <1> QED BY <1>1, <1>2 DEF SaleStep

LEMMA SerialStart ==
  ASSUME IInv, SerialInv, NEW h, Handlers = {h}, NEW o \in Orders, Start(h, o)
  PROVE  SerialInv' /\ SaleStep
  <1>1. row' = row /\ keys' = keys
    BY DEF Start, CreateStart, NotifyRead, MarkRead, PollRead
  <1>2. PaidIsCredited'
    BY <1>1 DEF SerialInv, PaidIsCredited
  <1>3. \E op \in {"creating", "deliver", "reject", "expire"}, a \in Amounts :
          /\ Read(h, op, o, a)
          /\ IF op = "creating" THEN row[o].status = "absent" ELSE row[o].status # "absent"
          /\ op = "reject" => ~row[o].credited
          /\ op = "expire" => row[o].status \in {"pending", "expired"}
    <2>1. CASE CreateStart(h, o)
      BY <2>1 DEF CreateStart, Exists, Amounts
    <2>2. CASE NotifyRead(h, o)
      BY <2>2 DEF NotifyRead, Exists, Amounts
    <2>3. CASE MarkRead(h, o)
      BY <2>3 DEF MarkRead, Exists, Amounts, IInv, TypeOK, Row
    <2>4. CASE PollRead(h, o)
      BY <2>4 DEF PollRead, Overdue, Amounts
    <2> QED BY <2>1, <2>2, <2>3, <2>4 DEF Start
  <1>4. ReadIsCurrent'
    <2>1. PICK op \in {"creating", "deliver", "reject", "expire"}, a \in Amounts :
            /\ Read(h, op, o, a)
            /\ IF op = "creating" THEN row[o].status = "absent" ELSE row[o].status # "absent"
            /\ op = "reject" => ~row[o].credited
            /\ op = "expire" => row[o].status \in {"pending", "expired"}
      BY <1>3
    <2>2. call'[h] = [op |-> op, order |-> o, seen |-> row[o], amount |-> a]
      BY <2>1 DEF Read, Become, IInv, TypeOK
    <2> QED BY <1>1, <2>1, <2>2 DEF ReadIsCurrent
  <1> QED BY <1>1, <1>2, <1>4, SameRowsStep DEF SerialInv

\* A step that ends the call and writes one status.
LEMMA SerialWrite ==
  ASSUME IInv, SerialInv, NEW h, Handlers = {h},
         InsertOrder(h) \/ NotifyReject(h) \/ PollExpire(h)
  PROVE  SerialInv' /\ SaleStep
  <1>1. PICK o \in Orders : o = call[h].order
    BY DEF InsertOrder, NotifyReject, PollExpire, IInv, BusyOnOrder
  <1>2. call'[h].op = "idle" /\ keys' = keys
    BY DEF InsertOrder, NotifyReject, PollExpire, Become, Idle, IInv, TypeOK
  <1>3. ReadIsCurrent'
    BY <1>2 DEF ReadIsCurrent
  <1>4. ASSUME NEW s \in Statuses, row' = [row EXCEPT ![o].status = s]
        PROVE  /\ row'[o].status = s
               /\ row'[o].credited = row[o].credited
               /\ \A p \in Orders : p # o => row'[p] = row[p]
    <2> DEFINE r == [row[o] EXCEPT !.status = s]
    <2>1. r.status = s /\ r.credited = row[o].credited
      BY DEF IInv, TypeOK, Row
    <2>2. row' = [row EXCEPT ![o] = r]
      BY <1>4
    <2> HIDE DEF r
    <2> QED BY <2>1, <2>2 DEF IInv, TypeOK
  <1>5. CASE InsertOrder(h)
    <2>1. row[o].status = "absent" /\ row' = [row EXCEPT ![o].status = "pending"]
      BY <1>1, <1>5 DEF InsertOrder, SerialInv, ReadIsCurrent
    <2>2. /\ row'[o].status = "pending" /\ row'[o].credited = row[o].credited
          /\ \A p \in Orders : p # o => row'[p] = row[p]
      BY <1>4, <2>1 DEF Statuses
    <2>3. SaleStep
      BY <1>2, <2>1, <2>2 DEF SaleStep
    <2> QED BY <1>3, <2>1, <2>2, <2>3 DEF SerialInv, PaidIsCredited
  <1>6. CASE NotifyReject(h) \/ PollExpire(h)
    <2>1. PICK s \in {"failed", "expired"} : row' = [row EXCEPT ![o].status = s]
      BY <1>1, <1>6 DEF NotifyReject, PollExpire
    <2>2. /\ row'[o].status = s /\ row'[o].credited = row[o].credited
          /\ \A p \in Orders : p # o => row'[p] = row[p]
      BY <1>4, <2>1 DEF Statuses
    <2>3. row[o].status \notin {"absent", "paid"} /\ row[o].status \in Statuses
      BY <1>1, <1>6 DEF NotifyReject, PollExpire, SerialInv, ReadIsCurrent, PaidIsCredited, IInv, TypeOK, Row
    <2>4. SaleStep
      <3>1. CASE row[o].status = "pending"
        <4>1. /\ {o} \in SUBSET Orders
              /\ \A p \in {o} : row[p].status = "pending" /\ row'[p].status \in {"expired", "failed"}
              /\ \A p \in Orders \ {o} : row'[p].status = row[p].status
          BY <2>2, <3>1
        <4> QED BY <1>2, <4>1 DEF SaleStep
      <3>2. CASE row[o].status # "pending"
        <4>1. /\ {} \in SUBSET Orders
              /\ \A p \in {} : row[p].status = "pending" /\ row'[p].status \in {"expired", "failed"}
              /\ \A p \in Orders \ {} : \/ row'[p].status = row[p].status
                                        \/ {row[p].status, row'[p].status} \subseteq {"expired", "failed"}
          BY <2>2, <2>3, <3>2 DEF Statuses
        <4> QED BY <1>2, <4>1 DEF SaleStep
      <3> QED BY <3>1, <3>2
    <2>5. PaidIsCredited'
      BY <2>2, <2>3 DEF SerialInv, PaidIsCredited
    <2> QED BY <1>3, <2>4, <2>5 DEF SerialInv
  <1> QED BY <1>5, <1>6

LEMMA SerialDeliver ==
  ASSUME IInv, SerialInv, NEW h, Handlers = {h}, Deliver(h)
  PROVE  SerialInv' /\ SaleStep
  <1>1. PICK o \in Orders : o = call[h].order
    BY DEF Deliver, IInv, BusyOnOrder
  <1>2. call'[h].op = "idle"
    BY DEF Deliver, Become, Idle, IInv, TypeOK
  <1>3. ReadIsCurrent'
    BY <1>2 DEF ReadIsCurrent
  <1>4. /\ row[o].status # "absent"
        /\ call[h].seen.credited <=> row[o].credited
        /\ call[h].seen.status = "paid" <=> row[o].status = "paid"
        /\ row[o].status = "paid" <=> row[o].credited
    BY <1>1 DEF Deliver, SerialInv, ReadIsCurrent, PaidIsCredited
  <1>5. CASE AlreadyDelivered(call[h].seen)
    <2> DEFINE q == PaymentInfo(call[h])
    <2>1. keys' = keys /\ row' = [row EXCEPT ![o] = q]
      BY <1>1, <1>5 DEF Deliver
    <2>2. q.status = row[o].status /\ q.credited = row[o].credited
      <3>1. row[o] \in Row
        BY DEF IInv, TypeOK
      <3> QED BY <1>1, <1>4, <1>5, <3>1 DEF PaymentInfo, Row, AlreadyDelivered
    <2> HIDE DEF q
    <2>3. \A p \in Orders : row'[p].status = row[p].status /\ row'[p].credited = row[p].credited
      BY <2>1, <2>2 DEF IInv, TypeOK
    <2>4. SaleStep
      <3>1. /\ {} \in SUBSET Orders
            /\ \A p \in {} : row[p].status = "pending" /\ row'[p].status \in {"expired", "failed"}
            /\ \A p \in Orders \ {} : row'[p].status = row[p].status
        BY <2>3
      <3> QED BY <2>1, <3>1 DEF SaleStep
    <2> QED BY <1>3, <2>3, <2>4 DEF SerialInv, PaidIsCredited
  <1>6. CASE ~AlreadyDelivered(call[h].seen)
    <2>1. /\ row'[o].credited
          /\ row'[o].status = IF call[h].seen.status = "paid" THEN row[o].status ELSE "paid"
          /\ Cardinality(KeysOf(o)') = Cardinality(KeysOf(o)) + 1
          /\ \A p \in Orders : p # o => row'[p] = row[p] /\ KeysOf(p)' = KeysOf(p)
      BY <1>1, <1>6, MintStep
    <2>2. row[o].status \notin {"absent", "paid"} /\ row'[o].status = "paid"
      BY <1>4, <1>6, <2>1 DEF AlreadyDelivered
    <2>3. SaleStep
      BY <2>1, <2>2 DEF SaleStep
    <2>4. PaidIsCredited'
      BY <2>1, <2>2 DEF SerialInv, PaidIsCredited
    <2> QED BY <1>3, <2>3, <2>4 DEF SerialInv
  <1> QED BY <1>5, <1>6

LEMMA SerialOutside ==
  ASSUME IInv, SerialInv, NEW h, Handlers = {h},
         \/ GatewayCreates(h) \/ Abort(h) \/ ListExpires \/ UNCHANGED vars
         \/ \E o \in Orders : Pay(o) \/ GatewayCloses(o) \/ FallDue(o)
  PROVE  SerialInv' /\ SaleStep
  <1>1. CASE ListExpires
    <2> DEFINE S == {o \in Orders : Overdue(o)}
               e(o) == [row[o] EXCEPT !.status = "expired"]
    <2>1. keys' = keys /\ call' = call
          /\ row' = [o \in Orders |-> IF Overdue(o) THEN e(o) ELSE row[o]]
      BY <1>1 DEF ListExpires
    <2>2. \A o \in Orders : e(o).status = "expired" /\ e(o).credited = row[o].credited
                            /\ e(o).token = row[o].token
      BY DEF IInv, TypeOK, Row
    <2> HIDE DEF e
    <2>3. /\ \A o \in S : row[o].status = "pending" /\ row'[o].status = "expired"
          /\ \A o \in Orders \ S : row'[o].status = row[o].status
          /\ \A o \in Orders : row'[o].credited = row[o].credited
      BY <2>1, <2>2 DEF Overdue
    <2>4. SaleStep
      <3>1. S \in SUBSET Orders
        OBVIOUS
      <3> HIDE DEF S
      <3> QED BY <2>1, <2>3, <3>1 DEF SaleStep
    <2>5. \A o \in Orders : \/ row'[o].status = row[o].status
                            \/ row[o].status = "pending" /\ row'[o].status = "expired"
      BY <2>3
    <2>6. PaidIsCredited'
      BY <2>3, <2>5 DEF SerialInv, PaidIsCredited
    <2>7. ReadIsCurrent'
      <3>1. call[h].op # "idle" => call[h].order \in Orders
        BY DEF IInv, BusyOnOrder
      <3> QED BY <2>1, <2>3, <2>5, <3>1 DEF SerialInv, ReadIsCurrent
    <2> QED BY <2>4, <2>6, <2>7 DEF SerialInv
  <1>2. CASE GatewayCreates(h)
    <2>1. row' = row /\ keys' = keys /\ call[h].op = "creating"
      BY <1>2 DEF GatewayCreates
    <2>2. call'[h].op = "inserting" /\ call'[h].order = call[h].order
      BY <1>2 DEF GatewayCreates, Become, IInv, TypeOK, Call
    <2>3. SerialInv'
      BY <2>1, <2>2 DEF SerialInv, ReadIsCurrent, PaidIsCredited
    <2> QED BY <2>1, <2>3, SameRowsStep
  <1>3. CASE Abort(h)
    <2>1. row' = row /\ keys' = keys /\ call'[h].op = "idle"
      BY <1>3 DEF Abort, Become, Idle, IInv, TypeOK
    <2> QED BY <2>1, SameRowsStep DEF SerialInv, ReadIsCurrent, PaidIsCredited
  <1>4. CASE UNCHANGED vars \/ \E o \in Orders : Pay(o) \/ GatewayCloses(o) \/ FallDue(o)
    <2>1. UNCHANGED <<row, keys, call>>
      BY <1>4 DEF vars, Pay, GatewayCloses, FallDue
    <2> QED BY <2>1, SameRowsStep DEF SerialInv, ReadIsCurrent, PaidIsCredited
  <1> QED BY <1>1, <1>2, <1>3, <1>4

\* Run one after the other, the handlers implement the sale of an order: it is
\* opened once, a payment or a confirmation sells it even after it was closed,
\* the sale hands out one key, and a sold order stays sold.
THEOREM OrdersImplementSale ==
  ASSUME Cardinality(Handlers) = 1
  PROVE  Spec => ImplementsSale
  <1>1. PICK h : Handlers = {h}
    BY Alone
  <1>2. Init => SerialInv /\ Sale!Init
    <2> SUFFICES ASSUME Init PROVE SerialInv /\ Sale!Init
      OBVIOUS
    <2>1. \A o \in Orders : KeysOf(o) = {} /\ row[o] = NoRow
      BY DEF Init, KeysOf
    <2>2. Sale!Init
      BY <2>1, FS_EmptySet DEF Sale!Init, SaleOf, NoRow
    <2>3. SerialInv
      BY <2>1 DEF Init, SerialInv, PaidIsCredited, ReadIsCurrent, NoRow, Idle
    <2> QED BY <2>2, <2>3
  <1>3. IInv /\ SerialInv /\ [Next]_vars => SerialInv' /\ SaleStep
    BY <1>1, SerialStart, SerialWrite, SerialDeliver, SerialOutside DEF Next, Step
  <1>4. IInv /\ IInv' /\ SaleStep
          => [Sale!Next]_<<[o \in Orders |-> SaleOf(row[o])], [o \in Orders |-> Cardinality(KeysOf(o))]>>
    BY SaleRefinesStep DEF IInv
  <1> QED BY <1>2, <1>3, <1>4, SpecInv, PTL DEF Spec, ImplementsSale, Sale!Spec
=============================================================================
