----------------------------- MODULE RateWindow -----------------------------
(***************************************************************************)
(* One rate-limit window in Redis: a sorted set of records with their       *)
(* times, pruned on every access, and an expiry on the key that every       *)
(* record renews.  A handler takes its time stamp before the call, so that  *)
(* calls reach Redis late and out of order.  Each call is one Lua script.    *)
(*                                                                          *)
(* A question is answered with the set of records that ZCARD counts and     *)
(* whose values the sum adds.                                               *)
(*                                                                          *)
(* Source: services/rate_limit_redis.py.                                    *)
(***************************************************************************)
EXTENDS Integers

CONSTANTS
  Handlers,   \* calls in flight at the same time
  Members,    \* request ids, each recorded at most once
  Window,     \* window_sec
  MaxTime,    \* bound: the time explored
  MayFail,    \* whether calls may fail
  None

ASSUME WindowAssumption ==
  /\ Window \in Nat \ {0} /\ MaxTime \in Nat
  /\ MayFail \in BOOLEAN
  /\ None \notin Members /\ None \notin Nat

VARIABLES
  now,      \* the clock of the gateway and of Redis
  zset,     \* the sorted set: records [member, stamp]
  expire,   \* when Redis drops the key, None if it has no expiry
  call,     \* what each handler is doing
  got,      \* the last answer each handler got
  recs,     \* history: the records ever added
  issued    \* the request ids used

vars == <<now, zset, expire, call, got, recs, issued>>

Recs == [member : Members, stamp : Nat]
Call == [op : {"idle", "count", "record"},
         member : Members \cup {None}, stamp : Nat]
Idle == [op |-> "idle", member |-> None, stamp |-> 0]

Record(h) == [member |-> call[h].member, stamp |-> call[h].stamp]

Init ==
  /\ now = 0
  /\ zset = {}
  /\ expire = None
  /\ call = [h \in Handlers |-> Idle]
  /\ got = [h \in Handlers |-> {}]
  /\ recs = {}
  /\ issued = {}

\* Redis drops the key when its time has come.
Tick ==
  /\ now < MaxTime
  /\ now' = now + 1
  /\ IF expire # None /\ now' >= expire
     THEN zset' = {} /\ expire' = None
     ELSE UNCHANGED <<zset, expire>>
  /\ UNCHANGED <<call, got, recs, issued>>

-----------------------------------------------------------------------------
(* Starting a call: the stamp is taken here. *)

StartCount(h) ==
  /\ call[h].op = "idle"
  /\ call' = [call EXCEPT ![h] = [op |-> "count", member |-> None, stamp |-> now]]
  /\ UNCHANGED <<now, zset, expire, got, recs, issued>>

StartRecord(h, m) ==
  /\ call[h].op = "idle" /\ m \notin issued
  /\ issued' = issued \cup {m}
  /\ call' = [call EXCEPT ![h] = [op |-> "record", member |-> m, stamp |-> now]]
  /\ UNCHANGED <<now, zset, expire, got, recs>>

-----------------------------------------------------------------------------
(* The Redis commands. *)

\* What ZREMRANGEBYSCORE 0 cutoff leaves.
Alive(t) == {r \in zset : r.stamp > t - Window}

\* An empty key is deleted, and its expiry with it.
ExpiryOf(S, e) == IF S = {} THEN None ELSE e

\* EXPIRE key ttl * 2
Renewed == now + 2 * Window

Finish(h) == call' = [call EXCEPT ![h] = Idle]

\* Mutant: the script counts what is there and forgets to prune.
CountUnpruned(h) ==
  /\ call[h].op = "count"
  /\ got' = [got EXCEPT ![h] = zset]
  /\ Finish(h)
  /\ UNCHANGED <<now, zset, expire, recs, issued>>

\* _LUA_GET_COUNT, _LUA_GET_SUM
Count(h) ==
  LET left == Alive(call[h].stamp)
  IN  /\ call[h].op = "count"
      /\ zset' = left
      /\ expire' = ExpiryOf(left, expire)
      /\ got' = [got EXCEPT ![h] = left]
      /\ Finish(h)
      /\ UNCHANGED <<now, recs, issued>>

\* Mutant: the record does not renew the expiry of an existing key.
AddWithoutRenewal(h) ==
  /\ call[h].op = "record"
  /\ zset' = Alive(call[h].stamp) \cup {Record(h)}
  /\ expire' = IF zset = {} THEN Renewed ELSE expire
  /\ recs' = recs \cup {Record(h)}
  /\ Finish(h)
  /\ UNCHANGED <<now, got, issued>>

\* _LUA_RECORD_COUNT, _LUA_RECORD_SUM
Add(h) ==
  /\ call[h].op = "record"
  /\ zset' = Alive(call[h].stamp) \cup {Record(h)}
  /\ expire' = Renewed
  /\ recs' = recs \cup {Record(h)}
  /\ Finish(h)
  /\ UNCHANGED <<now, got, issued>>

\* Any exception: nothing recorded, or 0 answered.
Fail(h) ==
  /\ MayFail
  /\ call[h].op # "idle"
  /\ got' = IF call[h].op = "count" THEN [got EXCEPT ![h] = {}] ELSE got
  /\ Finish(h)
  /\ UNCHANGED <<now, zset, expire, recs, issued>>

-----------------------------------------------------------------------------
Next ==
  \/ Tick
  \/ \E h \in Handlers :
       \/ StartCount(h) \/ \E m \in Members : StartRecord(h, m)
       \/ Count(h) \/ Add(h)
       \/ Fail(h)

Spec == Init /\ [][Next]_vars

-----------------------------------------------------------------------------
(* Properties. *)

TypeOK ==
  /\ now \in Nat
  /\ zset \subseteq Recs
  /\ expire \in Nat \cup {None}
  /\ call \in [Handlers -> Call]
  /\ got \in [Handlers -> SUBSET Recs]
  /\ recs \subseteq Recs
  /\ issued \subseteq Members

\* A record is not lost before its time: neither a pruning call that was
\* delayed or overtaken nor the key's expiry takes one that is still younger
\* than the window.
NoEarlyLoss == \A r \in recs : r.stamp > now - Window => r \in zset

\* A key always has an expiry, so that an idle group leaves nothing behind, and
\* no record it holds is due after it.
KeyOutlivesRecords ==
  zset # {} => /\ expire # None
               /\ \A r \in zset : r.stamp + Window < expire

\* The module implements SlidingWindow.
Promise == INSTANCE SlidingWindow WITH
             asked <- [h \in Handlers |-> IF call[h].op = "count" THEN call[h].stamp ELSE -1]

ImplementsWindow == Promise!Spec
=============================================================================
