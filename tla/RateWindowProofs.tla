-------------------------- MODULE RateWindowProofs --------------------------
(***************************************************************************)
(* Proofs about RateWindow for every window, every set of handlers and      *)
(* members: no record is lost early, a key always expires, and the module   *)
(* implements SlidingWindow.                                                *)
(***************************************************************************)
EXTENDS RateWindow, TLAPS

\* Stamps are never ahead of the clock.
StampsPast ==
  /\ \A r \in recs : r.stamp <= now
  /\ \A h \in Handlers : call[h].stamp <= now

\* A call that records has a request id to record.
CallsNamed ==
  \A h \in Handlers : call[h].op = "record" => call[h].member \in Members

IInv ==
  /\ TypeOK
  /\ StampsPast
  /\ CallsNamed
  /\ zset \subseteq recs
  /\ NoEarlyLoss
  /\ KeyOutlivesRecords

-----------------------------------------------------------------------------
LEMMA InitInv == Init => IInv
  <1> SUFFICES ASSUME Init PROVE IInv
    OBVIOUS
  <1>1. TypeOK
    BY DEF Init, TypeOK, Call, Idle
  <1>2. StampsPast /\ CallsNamed
    BY DEF Init, StampsPast, CallsNamed, Idle
  <1>3. zset \subseteq recs /\ NoEarlyLoss /\ KeyOutlivesRecords
    BY DEF Init, NoEarlyLoss, KeyOutlivesRecords
  <1> QED BY <1>1, <1>2, <1>3 DEF IInv

LEMMA AliveRecs ==
  ASSUME IInv, NEW t \in Nat, t <= now
  PROVE  /\ Alive(t) \subseteq zset
         /\ \A r \in recs : r.stamp > now - Window => r \in Alive(t)
  <1> QED BY WindowAssumption DEF IInv, TypeOK, Recs, Alive, NoEarlyLoss

LEMMA TickInv ==
  ASSUME IInv, Tick
  PROVE  IInv'
  <1> USE DEF IInv
  <1>1. now' = now + 1 /\ now \in Nat /\ UNCHANGED <<call, got, recs, issued>>
    BY DEF Tick, TypeOK
  <1>2. \A r \in recs : r.stamp \in Nat
    BY DEF TypeOK, Recs
  <1>3. StampsPast' /\ CallsNamed'
    BY <1>1, <1>2 DEF StampsPast, CallsNamed, TypeOK, Call
  <1>4. CASE expire # None /\ now' >= expire
    <2>1. zset' = {} /\ expire' = None
      BY <1>4 DEF Tick
    <2>2. NoEarlyLoss'
      BY <1>1, <1>2, <1>4, WindowAssumption DEF TypeOK, NoEarlyLoss, KeyOutlivesRecords
    <2> QED BY <1>1, <1>3, <2>1, <2>2 DEF TypeOK, KeyOutlivesRecords
  <1>5. CASE ~(expire # None /\ now' >= expire)
    <2>1. UNCHANGED <<zset, expire>>
      BY <1>5 DEF Tick
    <2>2. NoEarlyLoss'
      BY <1>1, <1>2, <2>1, WindowAssumption DEF NoEarlyLoss
    <2> QED BY <1>1, <1>3, <2>1, <2>2 DEF TypeOK, KeyOutlivesRecords
  <1> QED BY <1>4, <1>5

\* Calls that start or fail touch no record: the handler h gets a new state d.
LEMMA CallSetInv ==
  ASSUME IInv, NEW h \in Handlers, NEW d \in Call,
         call' = [call EXCEPT ![h] = d],
         d.stamp <= now,
         d.op = "record" => d.member \in Members,
         UNCHANGED <<now, zset, expire, recs>>,
         got' \in [Handlers -> SUBSET Recs], issued' \subseteq Members
  PROVE  IInv'
  <1> USE DEF IInv
  <1>1. TypeOK'
    BY DEF TypeOK
  <1>2. StampsPast' /\ CallsNamed'
    BY DEF StampsPast, CallsNamed, TypeOK
  <1>3. NoEarlyLoss' /\ KeyOutlivesRecords' /\ (zset \subseteq recs)'
    BY DEF NoEarlyLoss, KeyOutlivesRecords
  <1> QED BY <1>1, <1>2, <1>3

LEMMA StartCountInv ==
  ASSUME IInv, NEW h \in Handlers, StartCount(h)
  PROVE  IInv'
  <1> DEFINE d == [op |-> "count", member |-> None, stamp |-> now]
  <1>1. now \in Nat /\ got' \in [Handlers -> SUBSET Recs] /\ issued' \subseteq Members
    BY DEF IInv, TypeOK, StartCount
  <1>2. d \in Call /\ d.op = "count" /\ d.stamp = now
    BY <1>1 DEF Call
  <1>3. call' = [call EXCEPT ![h] = d] /\ UNCHANGED <<now, zset, expire, recs>>
    BY DEF StartCount
  <1>4. d.stamp <= now
    BY <1>1, <1>2
  <1> HIDE DEF d
  <1> QED BY <1>1, <1>2, <1>3, <1>4, CallSetInv

LEMMA StartRecordInv ==
  ASSUME IInv, NEW h \in Handlers, NEW m \in Members, StartRecord(h, m)
  PROVE  IInv'
  <1> DEFINE d == [op |-> "record", member |-> m, stamp |-> now]
  <1>1. now \in Nat /\ got' \in [Handlers -> SUBSET Recs] /\ issued' \subseteq Members
    BY DEF IInv, TypeOK, StartRecord
  <1>2. d \in Call /\ d.op = "record" /\ d.stamp = now /\ d.member \in Members
    BY <1>1 DEF Call
  <1>3. call' = [call EXCEPT ![h] = d] /\ UNCHANGED <<now, zset, expire, recs>>
    BY DEF StartRecord
  <1>4. d.stamp <= now
    BY <1>1, <1>2
  <1> HIDE DEF d
  <1> QED BY <1>1, <1>2, <1>3, <1>4, CallSetInv

LEMMA FailInv ==
  ASSUME IInv, NEW h \in Handlers, Fail(h)
  PROVE  IInv'
  <1>1. now \in Nat /\ got' \in [Handlers -> SUBSET Recs] /\ issued' \subseteq Members
    BY DEF IInv, TypeOK, Fail
  <1>2. Idle \in Call /\ Idle.op = "idle" /\ Idle.stamp = 0
    BY DEF Idle, Call
  <1>3. call' = [call EXCEPT ![h] = Idle] /\ UNCHANGED <<now, zset, expire, recs>>
    BY DEF Fail, Finish
  <1>4. Idle.stamp <= now
    BY <1>1, <1>2
  <1> QED BY <1>1, <1>2, <1>3, <1>4, CallSetInv

LEMMA FinishOK ==
  ASSUME IInv, NEW h \in Handlers, Finish(h), now' = now
  PROVE  /\ call' \in [Handlers -> Call]
         /\ CallsNamed'
         /\ \A g \in Handlers : call'[g].stamp <= now'
  <1> QED BY DEF IInv, TypeOK, StampsPast, CallsNamed, Finish, Idle, Call

LEMMA CountInv ==
  ASSUME IInv, NEW h \in Handlers, Count(h)
  PROVE  IInv'
  <1> USE DEF IInv
  <1> DEFINE t == call[h].stamp
  <1>1. t \in Nat /\ t <= now
    BY DEF TypeOK, Call, StampsPast
  <1>2. /\ zset' = Alive(t) /\ expire' = ExpiryOf(Alive(t), expire)
        /\ got' = [got EXCEPT ![h] = Alive(t)]
        /\ Finish(h) /\ UNCHANGED <<now, recs, issued>>
    BY DEF Count
  <1>3. Alive(t) \subseteq zset /\ \A r \in recs : r.stamp > now - Window => r \in Alive(t)
    BY <1>1, AliveRecs
  <1>4. call' \in [Handlers -> Call] /\ CallsNamed' /\ StampsPast'
    BY <1>2, FinishOK DEF StampsPast
  <1>5. TypeOK'
    BY <1>2, <1>3, <1>4 DEF TypeOK, ExpiryOf
  <1>6. NoEarlyLoss' /\ KeyOutlivesRecords' /\ (zset \subseteq recs)'
    BY <1>2, <1>3 DEF NoEarlyLoss, KeyOutlivesRecords, ExpiryOf
  <1> QED BY <1>4, <1>5, <1>6

LEMMA AddInv ==
  ASSUME IInv, NEW h \in Handlers, Add(h)
  PROVE  IInv'
  <1> USE DEF IInv
  <1>0. PICK t \in Nat, rec \in Recs :
          t = call[h].stamp /\ rec = Record(h) /\ rec.stamp = t /\ t <= now
    <2>1. call[h].stamp \in Nat /\ call[h].stamp <= now /\ call[h].member \in Members
      BY DEF Add, TypeOK, Call, StampsPast, CallsNamed
    <2>2. Record(h) \in Recs /\ Record(h).stamp = call[h].stamp
      BY <2>1 DEF Record, Recs
    <2> QED BY <2>1, <2>2
  <1>1. /\ zset' = Alive(t) \cup {rec} /\ expire' = now + 2 * Window
        /\ recs' = recs \cup {rec}
        /\ Finish(h) /\ UNCHANGED <<now, got, issued>>
    BY <1>0 DEF Add, Renewed
  <1>2. Alive(t) \subseteq zset /\ \A r \in recs : r.stamp > now - Window => r \in Alive(t)
    BY <1>0, AliveRecs
  <1>3. now \in Nat /\ Window \in Nat \ {0}
    BY WindowAssumption DEF TypeOK
  <1>4. call' \in [Handlers -> Call] /\ CallsNamed' /\ StampsPast'
    BY <1>0, <1>1, FinishOK DEF StampsPast
  <1>5. now + 2 * Window \in Nat
    BY <1>3
  <1>6. TypeOK'
    BY <1>0, <1>1, <1>2, <1>4, <1>5 DEF TypeOK
  <1>7. NoEarlyLoss' /\ (zset \subseteq recs)'
    BY <1>1, <1>2 DEF NoEarlyLoss
  <1>8. KeyOutlivesRecords'
    <2>1. \A r \in zset' : r.stamp \in Nat /\ r.stamp <= now
      BY <1>0, <1>1, <1>2 DEF StampsPast, TypeOK, Recs
    <2>2. \A r \in zset' : r.stamp + Window < now + 2 * Window
      BY <1>3, <2>1
    <2>3. now + 2 * Window # None
      BY <1>5, WindowAssumption
    <2> QED BY <1>1, <2>2, <2>3 DEF KeyOutlivesRecords
  <1> QED BY <1>4, <1>6, <1>7, <1>8

LEMMA NextInv == IInv /\ [Next]_vars => IInv'
  <1> SUFFICES ASSUME IInv, [Next]_vars PROVE IInv'
    OBVIOUS
  <1>1. CASE UNCHANGED vars
    BY <1>1 DEF vars, IInv, TypeOK, StampsPast, CallsNamed, NoEarlyLoss, KeyOutlivesRecords
  <1> QED BY <1>1, TickInv, StartCountInv, StartRecordInv, FailInv, CountInv, AddInv DEF Next

-----------------------------------------------------------------------------
THEOREM SpecInv == Spec => []IInv
  BY InitInv, NextInv, PTL DEF Spec

\* No record younger than the window is ever missing from the set.
THEOREM WindowNoEarlyLoss == Spec => []NoEarlyLoss
  <1>1. IInv => NoEarlyLoss
    BY DEF IInv
  <1> QED BY <1>1, SpecInv, PTL

\* A key that holds records has an expiry, and it is later than their end.
THEOREM WindowKeyOutlivesRecords == Spec => []KeyOutlivesRecords
  <1>1. IInv => KeyOutlivesRecords
    BY DEF IInv
  <1> QED BY <1>1, SpecInv, PTL

\* Each step of the window is a step of SlidingWindow or a stutter.
LEMMA StepSimulation ==
  ASSUME IInv, Next
  PROVE  Promise!Next \/ UNCHANGED <<now, recs, got, [h \in Handlers |->
                            IF call[h].op = "count" THEN call[h].stamp ELSE -1]>>
  <1> DEFINE asked == [h \in Handlers |-> IF call[h].op = "count" THEN call[h].stamp ELSE -1]
  <1>1. CASE Tick
    BY <1>1 DEF Tick, Promise!Tick, Promise!Next
  <1>2. ASSUME NEW h \in Handlers, StartCount(h)
        PROVE  Promise!Ask(h)
    <2>1. asked' = [asked EXCEPT ![h] = now]
      BY <1>2 DEF StartCount, IInv, TypeOK
    <2> QED BY <1>2, <2>1 DEF StartCount, Promise!Ask
  <1>3. ASSUME NEW h \in Handlers, NEW m \in Members, StartRecord(h, m)
        PROVE  UNCHANGED <<now, recs, got, asked>>
    <2>1. asked' = asked
      BY <1>3 DEF StartRecord, IInv, TypeOK
    <2> QED BY <1>3, <2>1 DEF StartRecord
  <1>4. ASSUME NEW h \in Handlers, Count(h)
        PROVE  Promise!Answer(h)
    <2> DEFINE t == call[h].stamp
    <2>1. t \in Nat /\ t <= now
      BY DEF IInv, TypeOK, Call, StampsPast
    <2>2. asked[h] = t /\ asked[h] >= 0
      BY <1>4, <2>1 DEF Count
    <2>3. Alive(t) \subseteq zset /\ \A r \in recs : r.stamp > now - Window => r \in Alive(t)
      BY <2>1, AliveRecs
    <2>4. Alive(t) \in SUBSET Promise!Younger(asked[h]) /\ Promise!Younger(now) \subseteq Alive(t)
      BY <2>2, <2>3 DEF Promise!Younger, Alive, IInv
    <2>5. got' = [got EXCEPT ![h] = Alive(t)] /\ UNCHANGED <<now, recs>>
      BY <1>4 DEF Count
    <2>6. asked' = [asked EXCEPT ![h] = -1]
      BY <1>4 DEF Count, Finish, Idle, IInv, TypeOK
    <2> QED BY <2>2, <2>4, <2>5, <2>6 DEF Promise!Answer
  <1>5. ASSUME NEW h \in Handlers, Add(h)
        PROVE  Promise!Next
    <2>1. /\ call[h].stamp \in 0..now /\ call[h].member \in Members
          /\ recs' = recs \cup {[member |-> call[h].member, stamp |-> call[h].stamp]}
      BY <1>5 DEF Add, Record, IInv, TypeOK, Call, StampsPast, CallsNamed
    <2>2. asked' = asked
      BY <1>5 DEF Add, Finish, Idle, IInv, TypeOK
    <2>3. Promise!Record(call[h].member, call[h].stamp)
      BY <1>5, <2>1, <2>2 DEF Add, Promise!Record
    <2> QED BY <2>1, <2>3 DEF Promise!Next
  <1>6. ASSUME NEW h \in Handlers, Fail(h)
        PROVE  Promise!FailOpen(h) \/ UNCHANGED <<now, recs, got, asked>>
    <2>1. CASE call[h].op = "count"
      <3>1. asked[h] >= 0
        BY <2>1 DEF IInv, TypeOK, Call
      <3>2. asked' = [asked EXCEPT ![h] = -1]
        BY <1>6 DEF Fail, Finish, Idle, IInv, TypeOK
      <3> QED BY <1>6, <2>1, <3>1, <3>2 DEF Fail, Promise!FailOpen
    <2>2. CASE call[h].op # "count"
      <3>1. call[h].op = "record"
        BY <1>6, <2>2 DEF Fail, IInv, TypeOK, Call
      <3>2. asked' = asked
        BY <1>6, <2>2 DEF Fail, Finish, Idle, IInv, TypeOK
      <3> QED BY <1>6, <3>1, <3>2 DEF Fail
    <2> QED BY <2>1, <2>2
  <1> QED BY <1>1, <1>2, <1>3, <1>4, <1>5, <1>6 DEF Next, Promise!Next

\* The code keeps the promise of SlidingWindow: an answer holds every
\* record younger than the window when it is given, and none that was too old
\* when it was asked, unless Redis fails.
THEOREM WindowImplements == Spec => ImplementsWindow
  <1> DEFINE asked == [h \in Handlers |-> IF call[h].op = "count" THEN call[h].stamp ELSE -1]
  <1>1. Init => Promise!Init
    BY DEF Init, Idle, Promise!Init
  <1>2. IInv /\ [Next]_vars => [Promise!Next]_<<now, recs, asked, got>>
    <2>1. ASSUME UNCHANGED vars PROVE UNCHANGED <<now, recs, asked, got>>
      BY <2>1 DEF vars
    <2> QED BY <2>1, StepSimulation
  <1> QED BY <1>1, <1>2, SpecInv, PTL DEF Spec, ImplementsWindow, Promise!Spec
=============================================================================
