---------------------------- MODULE SlidingWindow ----------------------------
(***************************************************************************)
(* What the rate-limit window promises: records carry the time at which     *)
(* they were made; a question is answered with a set of records that        *)
(* contains every record still younger than the window when the answer is   *)
(* given, and none that was already too old when the question was asked.    *)
(***************************************************************************)
EXTENDS Integers

CONSTANTS Handlers, Members, Window

VARIABLES
  now,
  recs,   \* the records made: [member, stamp]
  asked,  \* when each handler's open question was asked, -1 if it has none
  got     \* the last answer each handler got

Younger(t) == {r \in recs : r.stamp > t - Window}

Init ==
  /\ now = 0
  /\ recs = {}
  /\ asked = [h \in Handlers |-> -1]
  /\ got = [h \in Handlers |-> {}]

Tick ==
  /\ now' = now + 1
  /\ UNCHANGED <<recs, asked, got>>

Record(m, t) ==
  /\ t \in 0..now
  /\ recs' = recs \cup {[member |-> m, stamp |-> t]}
  /\ UNCHANGED <<now, asked, got>>

Ask(h) ==
  /\ asked' = [asked EXCEPT ![h] = now]
  /\ UNCHANGED <<now, recs, got>>

Answer(h) ==
  /\ asked[h] >= 0
  /\ \E S \in SUBSET Younger(asked[h]) :
       /\ Younger(now) \subseteq S
       /\ got' = [got EXCEPT ![h] = S]
  /\ asked' = [asked EXCEPT ![h] = -1]
  /\ UNCHANGED <<now, recs>>

\* Redis failed: the question is answered with nothing, which admits.
FailOpen(h) ==
  /\ asked[h] >= 0
  /\ got' = [got EXCEPT ![h] = {}]
  /\ asked' = [asked EXCEPT ![h] = -1]
  /\ UNCHANGED <<now, recs>>

Next ==
  \/ Tick
  \/ \E m \in Members, t \in 0..now : Record(m, t)
  \/ \E h \in Handlers : Ask(h) \/ Answer(h) \/ FailOpen(h)

Spec == Init /\ [][Next]_<<now, recs, asked, got>>
=============================================================================
