-------------------------- MODULE ResponsesStreamProofs --------------------------
(***************************************************************************)
(* A streamed response is a stream as ItemStream promises it, and a          *)
(* completed one is the whole answer at the usage that is billed: for every  *)
(* set of chunks, texts, calls and usages, and streams of any length.        *)
(*                                                                          *)
(* The events that wait to be yielded are shown to lead a reader (Leads)     *)
(* from where it is to where the converter's state says it will be: while    *)
(* chunks come in, all that was fed is open and streamed (Relaying); after   *)
(* the last events, all is published and closed.  With it goes that the      *)
(* state is the chunks taken together (Kept).                               *)
(***************************************************************************)
EXTENDS ResponsesStream, SequenceTheorems, FiniteSetTheorems, WellFoundedInduction, TLAPS


-----------------------------------------------------------------------------
(* Numbers and sequences of sequences. *)

\* A family of subsets of a finite set has one without a smaller member.
LEMMA SmallestSubset ==
  ASSUME NEW S, IsFiniteSet(S), NEW F, F \subseteq SUBSET S, F # {}
  PROVE  \E T \in F : \A U \in F : U \subseteq T => U = T
  <1>1. F \subseteq FiniteSubsetsOf(S)
    BY FS_FiniteSubsetsOfFinite
  <1>2. PICK T \in F : \A U \in F : <<U, T>> \notin StrictSubsetOrdering(S)
    BY <1>1, FS_StrictSubsetOrderingWellFounded, WFMin
  <1> QED BY <1>2 DEF StrictSubsetOrdering

LEMMA SmallestNumber ==
  ASSUME NEW S, S \subseteq Nat, S # {}
  PROVE  \E m \in S : \A k \in S : m <= k
  <1>1. PICK x \in S : TRUE
    OBVIOUS
  <1> DEFINE F == {0..k : k \in {j \in S : j <= x}}
  <1>2. F \subseteq SUBSET (0..x) /\ F # {} /\ IsFiniteSet(0..x)
    <2>1. IsFiniteSet(0..x)
      BY FS_Interval
    <2>2. ASSUME NEW k \in S, k <= x PROVE 0..k \subseteq 0..x
      BY <2>2
    <2>3. 0..x \in F
      OBVIOUS
    <2> QED BY <2>1, <2>2, <2>3
  <1> HIDE DEF F
  <1>3. PICK T \in F : \A U \in F : U \subseteq T => U = T
    <2> DEFINE I == 0..x
    <2>1. F \subseteq SUBSET I /\ F # {} /\ IsFiniteSet(I)
      BY <1>2
    <2> HIDE DEF I
    <2> QED BY <2>1, SmallestSubset
  <1>4. PICK m \in S : m <= x /\ T = 0..m
    BY <1>3 DEF F
  <1>5. ASSUME NEW k \in S, ~(m <= k) PROVE FALSE
    <2>1. k <= x /\ 0..k \subseteq 0..m /\ m \notin 0..k /\ m \in 0..m
      BY <1>4, <1>5
    <2>2. 0..k \in F
      BY <2>1 DEF F
    <2> QED BY <1>3, <1>4, <2>1, <2>2
  <1> QED BY <1>5

\* What holds of 0 and goes on from every number below n holds up to n.
LEMMA Induction ==
  ASSUME NEW n \in Nat, NEW G, 0 \in G, \A m \in 0..n - 1 : m \in G => m + 1 \in G
  PROVE  \A m \in 0..n : m \in G
  <1> DEFINE Bad == {m \in 0..n : m \notin G}
  <1> SUFFICES ASSUME Bad # {} PROVE FALSE
    OBVIOUS
  <1>1. Bad \subseteq Nat
    OBVIOUS
  <1>2. PICK m \in Bad : \A k \in Bad : m <= k
    <2> HIDE DEF Bad
    <2> QED BY <1>1, SmallestNumber
  <1>3. m \in 0..n /\ m # 0
    OBVIOUS
  <1>4. m - 1 \in 0..n - 1 /\ m - 1 \notin Bad
    BY <1>2, <1>3
  <1> QED BY <1>3, <1>4

Upto(s, m, g) == g = [i \in 1..m |-> IF i = 1 THEN s[i] ELSE g[i - 1] \o s[i]]

Flattening(s, g) == Upto(s, Len(s), g)

LEMMA FlattenUnfolds ==
  ASSUME NEW s, Len(s) # 0, NEW g, Flattening(s, g)
  PROVE  \E h : Flattening(s, h) /\ FlattenSeq(s) = h[Len(s)]
  BY DEF FlattenSeq, Flattening, Upto

LEMMA UptoExists ==
  ASSUME NEW s, NEW n \in Nat
  PROVE  \E g : Upto(s, n, g)
  <1> DEFINE G == {m \in 0..n : \E g : Upto(s, m, g)}
  <1>1. 0 \in G
    <2>1. Upto(s, 0, <<>>)
      BY DEF Upto
    <2> QED BY <2>1
  <1>2. ASSUME NEW m \in 0..n - 1, m \in G PROVE m + 1 \in G
    <2>1. PICK g : Upto(s, m, g)
      BY <1>2
    <2> DEFINE x == IF m = 0 THEN s[1] ELSE g[m] \o s[m + 1]
               h == [i \in 1..m + 1 |-> IF i = m + 1 THEN x ELSE g[i]]
    <2>2. ASSUME NEW i \in 1..m + 1
          PROVE  h[i] = IF i = 1 THEN s[i] ELSE h[i - 1] \o s[i]
      <3>1. CASE i = m + 1 /\ m = 0
        BY <3>1
      <3>2. CASE i = m + 1 /\ m # 0
        <4>1. x = g[m] \o s[m + 1]
          BY <3>2
        <4>2. m \in 1..m + 1 /\ m # m + 1 /\ i - 1 = m
          BY <3>2
        <4> HIDE DEF x
        <4>3. h[i] = x /\ h[m] = g[m]
          BY <3>2, <4>2
        <4> HIDE DEF h
        <4>4. h[i - 1] = g[m] /\ s[i] = s[m + 1] /\ i # 1
          BY <3>2, <4>2, <4>3
        <4>5. h[i] = h[i - 1] \o s[i]
          BY <4>1, <4>3, <4>4
        <4> QED BY <4>4, <4>5
      <3>3. CASE i # m + 1
        <4>1. i \in 1..m /\ h[i] = g[i]
          BY <3>3
        <4>2. i # 1 => h[i - 1] = g[i - 1]
          BY <4>1
        <4>3. g[i] = IF i = 1 THEN s[i] ELSE g[i - 1] \o s[i]
          BY <2>1, <4>1 DEF Upto
        <4> HIDE DEF h
        <4> QED BY <4>1, <4>2, <4>3
      <3> QED BY <3>1, <3>2, <3>3
    <2>3. Upto(s, m + 1, h)
      <3>1. h = [i \in 1..m + 1 |-> h[i]]
        OBVIOUS
      <3> HIDE DEF h
      <3> QED BY <2>2, <3>1 DEF Upto
    <2>4. m + 1 \in 0..n
      OBVIOUS
    <2> HIDE DEF h
    <2> QED BY <2>3, <2>4
  <1> HIDE DEF G
  <1>3. n \in G
    BY <1>1, <1>2, Induction
  <1> QED BY <1>3 DEF G

LEMMA FlattenExists ==
  ASSUME NEW s, Len(s) \in Nat
  PROVE  \E g : Flattening(s, g)
  BY UptoExists DEF Flattening

\* Two flattenings agree as far as their sequences do.
LEMMA FlattenAgree ==
  ASSUME NEW s, NEW t, NEW n \in Nat, NEW k \in Nat, n <= k,
         \A i \in 1..n : s[i] = t[i],
         NEW g, NEW h, Upto(s, n, g), Upto(t, k, h), n # 0
  PROVE  g[n] = h[n]
  <1> DEFINE G == {m \in 0..n : m = 0 \/ g[m] = h[m]}
  <1>1. 0 \in G
    OBVIOUS
  <1>2. ASSUME NEW m \in 0..n - 1, m \in G PROVE m + 1 \in G
    <2>1. m + 1 \in 1..n /\ m + 1 \in 1..k
      OBVIOUS
    <2>2. /\ g[m + 1] = IF m + 1 = 1 THEN s[m + 1] ELSE g[m] \o s[m + 1]
          /\ h[m + 1] = IF m + 1 = 1 THEN t[m + 1] ELSE h[m] \o t[m + 1]
      <3>1. (m + 1) - 1 = m
        OBVIOUS
      <3> QED BY <2>1, <3>1 DEF Upto
    <2>3. s[m + 1] = t[m + 1]
      BY <2>1
    <2> QED BY <1>2, <2>1, <2>2, <2>3
  <1> HIDE DEF G
  <1>3. n \in G
    BY <1>1, <1>2, Induction
  <1> QED BY <1>3 DEF G

LEMMA FlattenEmpty == FlattenSeq(<<>>) = <<>>
  BY DEF FlattenSeq

\* The flattening of a sequence that goes on is that of the sequence, going on.
LEMMA FlattenAppend ==
  ASSUME NEW S, NEW s \in Seq(Seq(S)), FlattenSeq(s) \in Seq(S), NEW x \in Seq(S)
  PROVE  /\ FlattenSeq(Append(s, x)) = FlattenSeq(s) \o x
         /\ FlattenSeq(Append(s, x)) \in Seq(S)
  <1> DEFINE n == Len(s)
             t == Append(s, x)
  <1>1. n \in Nat /\ Len(t) = n + 1 /\ t[n + 1] = x /\ \A i \in 1..n : t[i] = s[i]
    OBVIOUS
  <1> HIDE DEF t
  <1>2. PICK h : Flattening(t, h) /\ FlattenSeq(t) = h[n + 1]
    <2>1. PICK g : Flattening(t, g)
      BY <1>1, FlattenExists
    <2> QED BY <1>1, <2>1, FlattenUnfolds
  <1>3. h[n + 1] = IF n + 1 = 1 THEN x ELSE h[n] \o x
    <2>1. n + 1 \in 1..Len(t) /\ (n + 1) - 1 = n
      BY <1>1
    <2> QED BY <1>1, <1>2, <2>1 DEF Flattening, Upto
  <1>4. CASE n = 0
    <2>1. s = <<>>
      BY <1>4
    <2>2. <<>> \o x = x
      OBVIOUS
    <2> QED BY <1>2, <1>3, <1>4, <2>1, <2>2, FlattenEmpty DEF t
  <1>5. CASE n # 0
    <2>1. PICK g : Flattening(s, g)
      BY <1>1, FlattenExists
    <2>2. PICK f : Flattening(s, f) /\ FlattenSeq(s) = f[n]
      BY <1>5, <2>1, FlattenUnfolds
    <2>3. f[n] = h[n]
      <3>1. Len(t) \in Nat /\ Len(s) <= Len(t) /\ n \in 1..Len(s)
        BY <1>1, <1>5
      <3> DEFINE k == n + 1
      <3>2. Upto(s, n, f)
        BY <2>2 DEF Flattening
      <3>3. Upto(t, k, h)
        BY <1>1, <1>2 DEF Flattening
      <3>4. n \in Nat /\ k \in Nat /\ n <= k /\ n # 0
        BY <1>1, <1>5
      <3>5. \A i \in 1..n : s[i] = t[i]
        BY <1>1
      <3> HIDE DEF n, k
      <3> QED BY ONLY <3>2, <3>3, <3>4, <3>5, FlattenAgree
    <2>4. FlattenSeq(t) = FlattenSeq(s) \o x
      BY <1>1, <1>2, <1>3, <1>5, <2>2, <2>3
    <2> QED BY <2>4, ConcatProperties DEF t
  <1> QED BY <1>4, <1>5

-----------------------------------------------------------------------------
(* The tool calls of a chunk, one entry after the other. *)

FedUpto(st, calls, m, f) ==
  f = [n \in 0..m |->
         IF n = 0 THEN [order |-> st.order, args |-> st.args, events |-> <<>>]
         ELSE FeedCall(f[n - 1], calls[n])]

LEMMA FedCallsUnfolds ==
  ASSUME NEW st, NEW c, NEW f, FedUpto(st, c.calls, Len(c.calls), f)
  PROVE  \E h : FedUpto(st, c.calls, Len(c.calls), h) /\ FedCalls(st, c) = h[Len(c.calls)]
  BY DEF FedCalls, FedUpto

LEMMA FedUptoExists ==
  ASSUME NEW st, NEW calls, NEW n \in Nat
  PROVE  \E f : FedUpto(st, calls, n, f)
  <1> DEFINE base == [order |-> st.order, args |-> st.args, events |-> <<>>]
             Made(m, f) == f = [i \in 0..m |-> IF i = 0 THEN base ELSE FeedCall(f[i - 1], calls[i])]
             G == {m \in 0..n : \E f : Made(m, f)}
  <1> HIDE DEF base
  <1>1. 0 \in G
    <2> DEFINE f == [i \in 0..0 |-> base]
    <2>1. Made(0, f)
      OBVIOUS
    <2> HIDE DEF f, Made
    <2> QED BY <2>1
  <1>2. ASSUME NEW m \in 0..n - 1, m \in G PROVE m + 1 \in G
    <2>1. PICK g : Made(m, g)
      BY <1>2
    <2> DEFINE x == FeedCall(g[m], calls[m + 1])
               h == [i \in 0..m + 1 |-> IF i = m + 1 THEN x ELSE g[i]]
    <2>2. ASSUME NEW i \in 0..m + 1
          PROVE  h[i] = IF i = 0 THEN base ELSE FeedCall(h[i - 1], calls[i])
      <3>1. CASE i = m + 1
        <4>1. m \in 0..m + 1 /\ m # m + 1 /\ i - 1 = m /\ i # 0
          BY <3>1
        <4> HIDE DEF x
        <4>2. h[i] = x /\ h[m] = g[m]
          BY <3>1, <4>1
        <4> HIDE DEF h
        <4> QED BY <3>1, <4>1, <4>2 DEF x
      <3>2. CASE i # m + 1
        <4>1. i \in 0..m /\ h[i] = g[i]
          BY <3>2
        <4>2. i # 0 => h[i - 1] = g[i - 1]
          BY <4>1
        <4>3. g[i] = IF i = 0 THEN base ELSE FeedCall(g[i - 1], calls[i])
          BY <2>1, <4>1
        <4> HIDE DEF h
        <4> QED BY <4>1, <4>2, <4>3
      <3> QED BY <3>1, <3>2
    <2>3. Made(m + 1, h)
      <3>1. h = [i \in 0..m + 1 |-> h[i]]
        OBVIOUS
      <3> HIDE DEF h
      <3> QED BY <2>2, <3>1
    <2>4. m + 1 \in 0..n
      OBVIOUS
    <2> HIDE DEF h, Made
    <2> QED BY <2>3, <2>4
  <1> HIDE DEF G
  <1>3. n \in G
    BY <1>1, <1>2, Induction
  <1> QED BY <1>3 DEF G, base, FedUpto

\* What holds of what there was, and goes on from entry to entry, holds of all entries.
LEMMA FedCallsAre ==
  ASSUME NEW st, NEW c, Len(c.calls) \in Nat
  PROVE  \E f : /\ f[0] = [order |-> st.order, args |-> st.args, events |-> <<>>]
                /\ \A n \in 1..Len(c.calls) : f[n] = FeedCall(f[n - 1], c.calls[n])
                /\ FedCalls(st, c) = f[Len(c.calls)]
  <1>1. PICK f : FedUpto(st, c.calls, Len(c.calls), f) /\ FedCalls(st, c) = f[Len(c.calls)]
    BY FedUptoExists, FedCallsUnfolds
  <1>2. f[0] = [order |-> st.order, args |-> st.args, events |-> <<>>]
    <2>1. 0 \in 0..Len(c.calls)
      OBVIOUS
    <2> DEFINE base == [order |-> st.order, args |-> st.args, events |-> <<>>]
    <2>2. f = [n \in 0..Len(c.calls) |-> IF n = 0 THEN base ELSE FeedCall(f[n - 1], c.calls[n])]
      BY <1>1 DEF FedUpto
    <2> HIDE DEF base
    <2>3. f[0] = base
      BY <2>1, <2>2
    <2> QED BY <2>3 DEF base
  <1>3. ASSUME NEW n \in 1..Len(c.calls) PROVE f[n] = FeedCall(f[n - 1], c.calls[n])
    <2>1. n \in 0..Len(c.calls) /\ n # 0
      OBVIOUS
    <2> DEFINE base == [order |-> st.order, args |-> st.args, events |-> <<>>]
    <2>2. f = [k \in 0..Len(c.calls) |-> IF k = 0 THEN base ELSE FeedCall(f[k - 1], c.calls[k])]
      BY <1>1 DEF FedUpto
    <2> HIDE DEF base
    <2> QED BY <2>1, <2>2
  <1> QED BY <1>1, <1>2, <1>3

-----------------------------------------------------------------------------
(* The reader. *)

Pieces == Texts \cup Arguments
Bodies == [Items -> Seq(Pieces)]
Told == Usages \cup {Absent, "partial"}
Verdicts == {Absent, "completed", "incomplete"}

Views ==
  [status : {"none", "open", "over", "broken"}, number : Nat,
   item : [Items -> {"absent", "open", "full", "closed"}],
   body : Bodies, told : Bodies, output : Bodies, usage : Told, verdict : Verdicts]

\* The next event, with the number that is expected.
Got(v, e) == Read(v, [seq |-> v.number, event |-> e])

\* An event that a reader may get as the promise has it.
Legal(v, e) ==
  \/ e.type = "created" /\ v.status = "none"
  \/ e.type \in {"inProgress", "part", "refusal"} /\ v.status = "open"
  \/ /\ v.status = "open" /\ e.index \in Items
     /\ \/ e.type = "itemAdded" /\ v.item[e.index] = "absent"
        \/ e.type = "delta" /\ v.item[e.index] = "open" /\ e.data \in Pieces
        \/ e.type = "done" /\ v.item[e.index] = "open" /\ e.data = v.body[e.index]
        \/ e.type = "itemDone" /\ v.item[e.index] = "full" /\ e.data = v.told[e.index]
  \/ /\ e.type = "completed" /\ v.status = "open" /\ v.item[0] = "closed"
     /\ \A i \in Items : v.item[i] \in {"absent", "closed"}
     /\ e.data.output = v.told /\ e.data.usage \in Told /\ e.data.status \in Verdicts

\* What it makes of them.
Next1(v, e, w) ==
  /\ w \in Views /\ w.number = v.number + 1
  /\ w.status = IF e.type = "created" THEN "open"
                ELSE IF e.type = "completed" THEN "over" ELSE v.status
  /\ w.item = IF e.type = "itemAdded" THEN [v.item EXCEPT ![e.index] = "open"]
              ELSE IF e.type = "done" THEN [v.item EXCEPT ![e.index] = "full"]
              ELSE IF e.type = "itemDone" THEN [v.item EXCEPT ![e.index] = "closed"]
              ELSE v.item
  /\ w.body = IF e.type = "delta" THEN [v.body EXCEPT ![e.index] = Append(@, e.data)] ELSE v.body
  /\ w.told = IF e.type \in {"done", "itemDone"} THEN [v.told EXCEPT ![e.index] = e.data]
              ELSE v.told
  /\ w.output = IF e.type = "completed" THEN e.data.output ELSE v.output
  /\ w.usage = IF e.type = "completed" THEN e.data.usage ELSE v.usage

LEMMA GotIs ==
  ASSUME NEW v \in Views, NEW e, Legal(v, e)
  PROVE  Next1(v, e, Got(v, e))
  <1> DEFINE c == [v EXCEPT !.number = v.number + 1]
             n == [seq |-> v.number, event |-> e]
  <1>0. /\ v.number \in Nat /\ v.item \in [Items -> {"absent", "open", "full", "closed"}]
        /\ v.body \in Bodies /\ v.told \in Bodies
    BY DEF Views
  <1>1. /\ c \in Views /\ c.number = v.number + 1 /\ c.status = v.status /\ c.item = v.item
        /\ c.body = v.body /\ c.told = v.told /\ c.output = v.output /\ c.usage = v.usage
    BY DEF Views
  <1>2. n.seq = v.number /\ n.event = e
    OBVIOUS
  <1>3. [v EXCEPT !.number = IF n.seq = @ THEN @ + 1 ELSE @] = c
    BY <1>2
  <1> HIDE DEF c, n
  <1> DEFINE w == Got(v, e)
  <1>4. CASE e.type = "created"
    <2>1. w = [c EXCEPT !.status = "open"]
      BY <1>2, <1>3, <1>4 DEF Got, Read, n
    <2> HIDE DEF w
    <2>2. /\ w \in Views /\ w.status = "open" /\ w.number = c.number /\ w.item = c.item
          /\ w.body = c.body /\ w.told = c.told /\ w.output = c.output /\ w.usage = c.usage
      BY <1>1, <2>1 DEF Views
    <2> QED BY <1>1, <1>4, <2>2 DEF Next1, w
  <1>5. CASE e.type \in {"inProgress", "part", "refusal"}
    <2>1. w = c
      BY <1>2, <1>3, <1>5 DEF Got, Read, n
    <2> QED BY <1>1, <1>5, <2>1 DEF Next1
  <1>6. CASE e.type = "itemAdded"
    <2> DEFINE f == [v.item EXCEPT ![e.index] = "open"]
    <2>1. f \in [Items -> {"absent", "open", "full", "closed"}]
      BY <1>0
    <2>2. w = [c EXCEPT !.item = f]
      BY <1>1, <1>2, <1>3, <1>6 DEF Got, Read, n
    <2> HIDE DEF w, f
    <2>3. /\ w \in Views /\ w.status = c.status /\ w.number = c.number /\ w.item = f
          /\ w.body = c.body /\ w.told = c.told /\ w.output = c.output /\ w.usage = c.usage
      BY <1>1, <2>1, <2>2 DEF Views
    <2> QED BY <1>1, <1>6, <2>3 DEF Next1, w, f
  <1>7. CASE e.type = "delta"
    <2> DEFINE f == [v.body EXCEPT ![e.index] = Append(@, e.data)]
    <2>1. f \in Bodies
      <3>1. e.index \in Items /\ e.data \in Pieces
        BY <1>7 DEF Legal
      <3>2. Append(v.body[e.index], e.data) \in Seq(Pieces)
        BY <1>0, <3>1 DEF Bodies
      <3> QED BY <1>0, <3>2 DEF Bodies
    <2>2. w = [c EXCEPT !.body = f]
      BY <1>1, <1>2, <1>3, <1>7 DEF Got, Read, n
    <2> HIDE DEF w, f
    <2>3. /\ w \in Views /\ w.status = c.status /\ w.number = c.number /\ w.item = c.item
          /\ w.body = f /\ w.told = c.told /\ w.output = c.output /\ w.usage = c.usage
      BY <1>1, <2>1, <2>2 DEF Views
    <2> QED BY <1>1, <1>7, <2>3 DEF Next1, w, f
  <1>8. ASSUME NEW m \in {"full", "closed"}, e.type = IF m = "full" THEN "done" ELSE "itemDone"
        PROVE  Next1(v, e, w)
    <2> DEFINE f == [v.item EXCEPT ![e.index] = m]
               g == [v.told EXCEPT ![e.index] = e.data]
    <2>1. f \in [Items -> {"absent", "open", "full", "closed"}] /\ g \in Bodies
      <3>1. e.index \in Items /\ e.data \in Seq(Pieces)
        BY <1>0, <1>8 DEF Legal, Bodies
      <3> QED BY <1>0, <3>1 DEF Bodies
    <2>2. w = [c EXCEPT !.item[e.index] = m, !.told[e.index] = e.data]
      BY <1>2, <1>3, <1>8 DEF Got, Read, n
    <2>3. w = [[c EXCEPT !.item = f] EXCEPT !.told = g]
      BY <1>1, <2>2 DEF Views
    <2> HIDE DEF w, f, g
    <2>4. /\ w \in Views /\ w.status = c.status /\ w.number = c.number /\ w.item = f
          /\ w.body = c.body /\ w.told = g /\ w.output = c.output /\ w.usage = c.usage
      BY <1>1, <2>1, <2>3 DEF Views
    <2> QED BY <1>1, <1>8, <2>4 DEF Next1, w, f, g
  <1>9. CASE e.type = "completed"
    <2> DEFINE o == e.data.output
               u == e.data.usage
               s == e.data.status
    <2>1. o \in Bodies /\ u \in Told /\ s \in Verdicts
      BY <1>0, <1>9 DEF Legal
    <2>2. w = [c EXCEPT !.status = "over", !.output = o, !.verdict = s, !.usage = u]
      BY <1>2, <1>3, <1>9 DEF Got, Read, n
    <2> HIDE DEF w, o, u, s
    <2>3. /\ w \in Views /\ w.status = "over" /\ w.number = c.number /\ w.item = c.item
          /\ w.body = c.body /\ w.told = c.told /\ w.output = o /\ w.usage = u
      BY <1>1, <2>1, <2>2 DEF Views
    <2> QED BY <1>1, <1>9, <2>3 DEF Next1, w, o, u, s
  <1>10. e.type \in {"created", "inProgress", "part", "refusal", "itemAdded", "delta", "done",
                     "itemDone", "completed"}
    BY DEF Legal
  <1>11. CASE e.type = "done"
    BY <1>8, <1>11
  <1>12. CASE e.type = "itemDone"
    BY <1>8, <1>12
  <1> QED BY <1>4, <1>5, <1>6, <1>7, <1>9, <1>10, <1>11, <1>12

-----------------------------------------------------------------------------
(* Events that lead a reader from one view to another. *)

IsSeq(q) == \E Q : q \in Seq(Q)

Walk(V, q) ==
  /\ V \in [0..Len(q) -> Views]
  /\ \A k \in 1..Len(q) : Legal(V[k - 1], q[k]) /\ V[k] = Got(V[k - 1], q[k])

Leads(v, q, w) == IsSeq(q) /\ \E V : Walk(V, q) /\ V[0] = v /\ V[Len(q)] = w

LEMMA LeadsNone == ASSUME NEW v \in Views PROVE Leads(v, <<>>, v)
  <1> DEFINE V == [k \in 0..0 |-> v]
  <1>1. Walk(V, <<>>) /\ V[0] = v
    BY DEF Walk
  <1>2. <<>> \in Seq({}) /\ Len(<<>>) = 0
    OBVIOUS
  <1> HIDE DEF V
  <1> QED BY <1>1, <1>2 DEF Leads, IsSeq

LEMMA LeadsOne == ASSUME NEW v \in Views, NEW e, Legal(v, e) PROVE Leads(v, <<e>>, Got(v, e))
  <1> DEFINE w == Got(v, e)
             V == [k \in 0..1 |-> IF k = 0 THEN v ELSE w]
             q == <<e>>
  <1>1. w \in Views
    BY GotIs DEF Next1
  <1>2. q \in Seq({e}) /\ Len(q) = 1 /\ q[1] = e
    OBVIOUS
  <1>3. V \in [0..1 -> Views] /\ V[0] = v /\ V[1] = w
    <2> HIDE DEF w
    <2> QED BY <1>1
  <1> HIDE DEF V, q
  <1>4. \A k \in 1..1 : k = 1 /\ k - 1 = 0
    OBVIOUS
  <1>5. Walk(V, q)
    BY <1>2, <1>3, <1>4 DEF Walk
  <1> QED BY <1>2, <1>3, <1>5 DEF Leads, IsSeq, q

LEMMA LeadsThrough ==
  ASSUME NEW v, NEW q, NEW w, NEW r, NEW x, Leads(v, q, w), Leads(w, r, x)
  PROVE  Leads(v, q \o r, x)
  <1>1. PICK V : Walk(V, q) /\ V[0] = v /\ V[Len(q)] = w
    BY DEF Leads
  <1>2. PICK W : Walk(W, r) /\ W[0] = w /\ W[Len(r)] = x
    BY DEF Leads
  <1>3. PICK Q : q \in Seq(Q)
    BY DEF Leads, IsSeq
  <1>4. PICK R : r \in Seq(R)
    BY DEF Leads, IsSeq
  <1>5. q \in Seq(Q \cup R) /\ r \in Seq(Q \cup R)
    <2>1. Q \subseteq Q \cup R /\ R \subseteq Q \cup R
      OBVIOUS
    <2> QED BY <1>3, <1>4, <2>1, SeqMonotonic
  <1> DEFINE m == Len(q)
             n == Len(r)
             s == q \o r
             U == [k \in 0..m + n |-> IF k <= m THEN V[k] ELSE W[k - m]]
  <1>6. m \in Nat /\ n \in Nat
    BY <1>5
  <1>7. /\ s \in Seq(Q \cup R) /\ Len(s) = m + n
        /\ \A k \in 1..m + n : s[k] = IF k <= m THEN q[k] ELSE r[k - m]
    <2> HIDE DEF s
    <2> QED BY <1>5, ConcatProperties DEF s
  <1> HIDE DEF s, m, n
  <1>8. /\ V \in [0..m -> Views] /\ W \in [0..n -> Views] /\ V[0] = v /\ V[m] = w
        /\ W[0] = w /\ W[n] = x
    BY <1>1, <1>2 DEF Walk, m, n
  <1>9. U \in [0..m + n -> Views]
    <2>1. ASSUME NEW k \in 0..m + n PROVE (IF k <= m THEN V[k] ELSE W[k - m]) \in Views
      <3>1. CASE k <= m
        BY <1>6, <1>8, <3>1
      <3>2. CASE ~(k <= m)
        <4>1. k - m \in 0..n
          BY <1>6, <3>2
        <4> QED BY <1>8, <3>2, <4>1
      <3> QED BY <3>1, <3>2
    <2> QED BY <2>1
  <1>10. \A k \in 0..m : U[k] = V[k]
    BY <1>6
  <1>11. ASSUME NEW k \in 0..n PROVE U[k + m] = W[k]
    <2>1. CASE k = 0
      <3>1. k + m = m /\ m \in 0..m
        BY <1>6, <2>1
      <3> HIDE DEF U
      <3> QED BY <1>8, <1>10, <2>1, <3>1
    <2>2. CASE k # 0
      <3>1. k + m \in 0..m + n /\ ~(k + m <= m) /\ (k + m) - m = k
        BY <1>6, <2>2
      <3> QED BY <3>1
    <2> QED BY <2>1, <2>2
  <1> HIDE DEF U
  <1>12. ASSUME NEW k \in 1..m + n PROVE Legal(U[k - 1], s[k]) /\ U[k] = Got(U[k - 1], s[k])
    <2>1. CASE k <= m
      <3>1. k \in 1..m /\ k \in 0..m /\ k - 1 \in 0..m
        BY <1>6, <2>1
      <3>2. U[k] = V[k] /\ U[k - 1] = V[k - 1] /\ s[k] = q[k]
        BY <1>7, <1>10, <2>1, <3>1
      <3>3. Legal(V[k - 1], q[k]) /\ V[k] = Got(V[k - 1], q[k])
        BY <1>1, <3>1 DEF Walk, m
      <3> QED BY <3>2, <3>3
    <2>2. CASE ~(k <= m)
      <3> DEFINE j == k - m
      <3>1. j \in 1..n /\ j \in 0..n /\ j - 1 \in 0..n /\ j + m = k /\ (j - 1) + m = k - 1
        BY <1>6, <2>2
      <3>2. s[k] = r[j]
        BY <1>7, <2>2
      <3> HIDE DEF j
      <3>3. U[k] = W[j] /\ U[k - 1] = W[j - 1]
        <4>1. U[j + m] = W[j] /\ U[(j - 1) + m] = W[j - 1]
          BY <1>11, <3>1
        <4> QED BY <3>1, <4>1
      <3>4. Legal(W[j - 1], r[j]) /\ W[j] = Got(W[j - 1], r[j])
        BY <1>2, <3>1 DEF Walk, n
      <3> QED BY <3>2, <3>3, <3>4
    <2> QED BY <2>1, <2>2
  <1>13. Walk(U, s)
    BY <1>7, <1>9, <1>12 DEF Walk
  <1>14. U[0] = v /\ U[m + n] = x
    <2>1. 0 \in 0..m /\ n \in 0..n /\ n + m = m + n
      BY <1>6
    <2>2. U[n + m] = W[n]
      BY <1>11, <2>1
    <2> QED BY <1>8, <1>10, <2>1, <2>2
  <1>15. Leads(v, s, x)
    BY <1>7, <1>13, <1>14 DEF Leads, IsSeq
  <1> QED BY <1>15 DEF s

LEMMA LeadsEnds ==
  ASSUME NEW v, NEW q, NEW w, Leads(v, q, w)
  PROVE  /\ v \in Views /\ w \in Views /\ Len(q) \in Nat
         /\ q = <<>> => v = w
  <1>1. PICK V : Walk(V, q) /\ V[0] = v /\ V[Len(q)] = w
    BY DEF Leads
  <1>2. PICK Q : q \in Seq(Q)
    BY DEF Leads, IsSeq
  <1>3. Len(q) \in Nat /\ 0 \in 0..Len(q) /\ Len(q) \in 0..Len(q) /\ (q = <<>> => Len(q) = 0)
    BY <1>2
  <1> QED BY <1>1, <1>3 DEF Walk

LEMMA LeadsHead ==
  ASSUME NEW v, NEW q, NEW w, Leads(v, q, w), q # <<>>
  PROVE  /\ Legal(v, Head(q))
         /\ Leads(Got(v, Head(q)), Tail(q), w)
  <1>1. PICK V : Walk(V, q) /\ V[0] = v /\ V[Len(q)] = w
    BY DEF Leads
  <1>2. PICK Q : q \in Seq(Q)
    BY DEF Leads, IsSeq
  <1> DEFINE n == Len(q)
             t == Tail(q)
             W == [k \in 0..n - 1 |-> V[k + 1]]
  <1>3. /\ n \in Nat /\ n >= 1 /\ Head(q) = q[1] /\ t \in Seq(Q) /\ Len(t) = n - 1
        /\ \A k \in 1..n - 1 : t[k] = q[k + 1]
    BY <1>2
  <1> HIDE DEF t, n
  <1>4. V \in [0..n -> Views] /\ V[0] = v /\ V[n] = w
    BY <1>1 DEF Walk, n
  <1>5. \A k \in 1..n : Legal(V[k - 1], q[k]) /\ V[k] = Got(V[k - 1], q[k])
    BY <1>1 DEF Walk, n
  <1>6. Legal(v, q[1]) /\ V[1] = Got(v, q[1])
    <2>1. 1 \in 1..n /\ 1 - 1 = 0
      BY <1>3
    <2> QED BY <1>4, <1>5, <2>1
  <1>7. W \in [0..n - 1 -> Views]
    BY <1>3, <1>4
  <1>8. ASSUME NEW k \in 1..n - 1 PROVE Legal(W[k - 1], t[k]) /\ W[k] = Got(W[k - 1], t[k])
    <2>1. k + 1 \in 1..n /\ (k + 1) - 1 = k /\ (k - 1) + 1 = k /\ k - 1 \in 0..n - 1 /\ k \in 0..n - 1
      BY <1>3
    <2>2. W[k - 1] = V[k] /\ W[k] = V[k + 1] /\ t[k] = q[k + 1]
      BY <1>3, <2>1
    <2>3. Legal(V[k], q[k + 1]) /\ V[k + 1] = Got(V[k], q[k + 1])
      BY <1>5, <2>1
    <2> HIDE DEF W
    <2> QED BY <2>2, <2>3
  <1>9. W[0] = V[1] /\ W[n - 1] = w
    <2>1. 0 \in 0..n - 1 /\ n - 1 \in 0..n - 1 /\ 0 + 1 = 1 /\ (n - 1) + 1 = n
      BY <1>3
    <2> QED BY <1>4, <2>1
  <1> HIDE DEF W
  <1>10. Walk(W, t)
    BY <1>3, <1>7, <1>8 DEF Walk
  <1>11. Leads(V[1], t, w)
    BY <1>3, <1>9, <1>10 DEF Leads, IsSeq
  <1> QED BY <1>3, <1>6, <1>11 DEF t

-----------------------------------------------------------------------------
(* What a reader has of the answer while it is streamed. *)

Opened(order) == {order[k] : k \in 1..Len(order)}
Distinct(order) == \A j, k \in 1..Len(order) : order[j] = order[k] => j = k

\* The assistant's message and the calls that were opened are open, with what was fed of
\* them; nothing of them is published.
Relaying(w, order, args, text) ==
  /\ order \in Seq(Calls) /\ Distinct(order)
  /\ args \in [Calls -> Seq(Arguments)] /\ text \in Seq(Texts)
  /\ \A i \in Calls : i \notin Opened(order) => args[i] = <<>>
  /\ w.status = "open" /\ w.told = [i \in Items |-> <<>>]
  /\ w.item[0] = "open" /\ w.body[0] = text
  /\ \A i \in Calls : /\ w.item[i + 1] = IF i \in Opened(order) THEN "open" ELSE "absent"
                      /\ w.body[i + 1] = args[i]

LEMMA ItemsAre ==
  /\ 0 \in Items
  /\ \A i \in Calls : i \in Nat /\ i + 1 \in Items /\ i + 1 # 0
  /\ \A i, j \in Calls : i + 1 = j + 1 => i = j
  /\ \A n \in Items : n = 0 \/ \E i \in Calls : n = i + 1
  BY StreamAssumption DEF Items

LEMMA EventIs ==
  ASSUME NEW type, NEW index, NEW data
  PROVE  /\ Event(type, index, data).type = type
         /\ Event(type, index, data).index = index
         /\ Event(type, index, data).data = data
  BY DEF Event

LEMMA OpenCall ==
  ASSUME NEW w \in Views, NEW order, NEW args, NEW text, Relaying(w, order, args, text),
         NEW i \in Calls, i \notin Opened(order), NEW e, e.type = "itemAdded", e.index = i + 1
  PROVE  Legal(w, e) /\ Relaying(Got(w, e), Append(order, i), args, text)
  <1>1. Legal(w, e)
    BY ItemsAre DEF Legal, Relaying
  <1> DEFINE x == Got(w, e)
             more == Append(order, i)
  <1>2. /\ x.status = w.status /\ x.item = [w.item EXCEPT ![i + 1] = "open"]
        /\ x.body = w.body /\ x.told = w.told
    BY <1>1, GotIs DEF Next1
  <1> HIDE DEF x
  <1>3. w.item \in [Items -> {"absent", "open", "full", "closed"}]
    BY DEF Views
  <1>4. /\ more \in Seq(Calls) /\ Len(more) = Len(order) + 1 /\ Len(order) \in Nat
        /\ more[Len(order) + 1] = i /\ \A k \in 1..Len(order) : more[k] = order[k]
    BY DEF Relaying
  <1> HIDE DEF more
  <1>5. Opened(more) = Opened(order) \cup {i}
    BY <1>4 DEF Opened
  <1>6. Distinct(more)
    <2>1. \A k \in 1..Len(order) : order[k] # i
      BY DEF Opened
    <2>2. \A j, k \in 1..Len(order) : order[j] = order[k] => j = k
      BY DEF Relaying, Distinct
    <2>3. \A k \in 1..Len(more) : k \in 1..Len(order) \/ k = Len(order) + 1
      BY <1>4
    <2>4. ASSUME NEW j \in 1..Len(more), NEW k \in 1..Len(more), more[j] = more[k] PROVE j = k
      BY <1>4, <2>1, <2>2, <2>3, <2>4
    <2> QED BY <2>4 DEF Distinct
  <1>7. ASSUME NEW j \in Calls
        PROVE  x.item[j + 1] = IF j \in Opened(more) THEN "open" ELSE "absent"
    <2>1. CASE j = i
      BY <1>2, <1>3, <1>5, <2>1, ItemsAre
    <2>2. CASE j # i
      <3>1. j + 1 # i + 1 /\ j + 1 \in Items
        BY <2>2, ItemsAre
      <3>2. x.item[j + 1] = w.item[j + 1]
        BY <1>2, <1>3, <3>1
      <3> QED BY <1>5, <2>2, <3>2 DEF Relaying
    <2> QED BY <2>1, <2>2
  <1>8. x.item[0] = "open"
    BY <1>2, <1>3, ItemsAre DEF Relaying
  <1>9. Relaying(x, more, args, text)
    BY <1>2, <1>4, <1>5, <1>6, <1>7, <1>8 DEF Relaying
  <1> QED BY <1>1, <1>9 DEF x, more

LEMMA MoreOfCall ==
  ASSUME NEW w \in Views, NEW order, NEW args, NEW text, Relaying(w, order, args, text),
         NEW i \in Calls, i \in Opened(order), NEW p \in Arguments,
         NEW e, e.type = "delta", e.index = i + 1, e.data = p
  PROVE  Legal(w, e) /\ Relaying(Got(w, e), order, [args EXCEPT ![i] = Append(@, p)], text)
  <1>1. Legal(w, e)
    BY ItemsAre DEF Legal, Relaying, Pieces
  <1> DEFINE x == Got(w, e)
             more == [args EXCEPT ![i] = Append(@, p)]
  <1>2. /\ x.status = w.status /\ x.item = w.item /\ x.told = w.told
        /\ x.body = [w.body EXCEPT ![i + 1] = Append(w.body[i + 1], p)]
    BY <1>1, GotIs DEF Next1
  <1> HIDE DEF x
  <1>3. w.body \in [Items -> Seq(Pieces)]
    BY DEF Views, Bodies
  <1>4. args \in [Calls -> Seq(Arguments)] /\ \A j \in Calls : w.body[j + 1] = args[j]
    BY DEF Relaying
  <1>5. /\ more \in [Calls -> Seq(Arguments)]
        /\ more[i] = Append(args[i], p) /\ \A j \in Calls : j # i => more[j] = args[j]
    BY <1>4
  <1> HIDE DEF more
  <1>6. ASSUME NEW j \in Calls PROVE x.body[j + 1] = more[j]
    <2>1. CASE j = i
      BY <1>2, <1>3, <1>4, <1>5, <2>1, ItemsAre
    <2>2. CASE j # i
      <3>1. j + 1 # i + 1 /\ j + 1 \in Items
        BY <2>2, ItemsAre
      <3> QED BY <1>2, <1>3, <1>4, <1>5, <2>2, <3>1
    <2> QED BY <2>1, <2>2
  <1>7. x.body[0] = text
    BY <1>2, <1>3, ItemsAre DEF Relaying
  <1>8. Relaying(x, order, more, text)
    BY <1>2, <1>5, <1>6, <1>7 DEF Relaying
  <1> QED BY <1>1, <1>8 DEF x, more

LEMMA MoreText ==
  ASSUME NEW w \in Views, NEW order, NEW args, NEW text, Relaying(w, order, args, text),
         NEW p \in Texts, NEW e, e.type = "delta", e.index = 0, e.data = p
  PROVE  Legal(w, e) /\ Relaying(Got(w, e), order, args, Append(text, p))
  <1>1. Legal(w, e)
    BY ItemsAre DEF Legal, Relaying, Pieces
  <1> DEFINE x == Got(w, e)
  <1>2. /\ x.status = w.status /\ x.item = w.item /\ x.told = w.told
        /\ x.body = [w.body EXCEPT ![0] = Append(w.body[0], p)]
    BY <1>1, GotIs DEF Next1
  <1> HIDE DEF x
  <1>3. w.body \in [Items -> Seq(Pieces)] /\ 0 \in Items
    BY ItemsAre DEF Views, Bodies
  <1>4. x.body[0] = Append(text, p)
    BY <1>2, <1>3 DEF Relaying
  <1>5. ASSUME NEW j \in Calls PROVE x.body[j + 1] = args[j]
    <2>1. j + 1 # 0 /\ j + 1 \in Items
      BY ItemsAre
    <2> QED BY <1>2, <1>3, <2>1 DEF Relaying
  <1>6. Append(text, p) \in Seq(Texts)
    BY DEF Relaying
  <1>7. Relaying(x, order, args, Append(text, p))
    BY <1>2, <1>4, <1>5, <1>6 DEF Relaying
  <1> QED BY <1>1, <1>7 DEF x

LEMMA RefusalTold ==
  ASSUME NEW w \in Views, NEW order, NEW args, NEW text, Relaying(w, order, args, text),
         NEW e, e.type = "refusal"
  PROVE  Legal(w, e) /\ Relaying(Got(w, e), order, args, text)
  <1>1. Legal(w, e)
    BY DEF Legal, Relaying
  <1> DEFINE x == Got(w, e)
  <1>2. x.status = w.status /\ x.item = w.item /\ x.told = w.told /\ x.body = w.body
    BY <1>1, GotIs DEF Next1
  <1> HIDE DEF x
  <1> QED BY <1>1, <1>2 DEF Relaying, x

-----------------------------------------------------------------------------
(* The events of a chunk. *)

LEMMA SingleIs ==
  ASSUME NEW S, NEW s \in Seq(S), NEW p \in S \cup {Absent}
  PROVE  /\ Single(p) \in Seq(S) /\ s \o Single(p) \in Seq(S)
         /\ s \o Single(p) = IF p = Absent THEN s ELSE Append(s, p)
  <1>1. CASE p = Absent
    <2>1. Single(p) = <<>> /\ s \o <<>> = s
      BY <1>1 DEF Single
    <2> QED BY <1>1, <2>1
  <1>2. CASE p # Absent
    <2>1. p \in S /\ Single(p) = <<p>> /\ s \o <<p>> = Append(s, p)
      BY <1>2 DEF Single
    <2>2. <<p>> \in Seq(S) /\ Append(s, p) \in Seq(S)
      BY <2>1
    <2> QED BY <1>2, <2>1, <2>2
  <1> QED BY <1>1, <1>2

LEMMA TextLeads ==
  ASSUME NEW w \in Views, NEW order, NEW args, NEW text, Relaying(w, order, args, text),
         NEW p \in Texts \cup {Absent}
  PROVE  \E x : Leads(w, Deltas("delta", 0, p), x) /\ Relaying(x, order, args, text \o Single(p))
  <1>0. text \o Single(p) = IF p = Absent THEN text ELSE Append(text, p)
    BY SingleIs DEF Relaying
  <1>1. CASE p = Absent
    <2>1. Deltas("delta", 0, p) = <<>>
      BY <1>1 DEF Deltas
    <2> QED BY <1>0, <1>1, <2>1, LeadsNone
  <1>2. CASE p # Absent
    <2> DEFINE e == Event("delta", 0, p)
    <2>1. Deltas("delta", 0, p) = <<e>> /\ e.type = "delta" /\ e.index = 0 /\ e.data = p
      BY <1>2, EventIs DEF Deltas
    <2> HIDE DEF e
    <2>2. Legal(w, e) /\ Relaying(Got(w, e), order, args, Append(text, p))
      BY <1>2, <2>1, MoreText
    <2> QED BY <1>0, <1>2, <2>1, <2>2, LeadsOne
  <1> QED BY <1>1, <1>2

LEMMA RefusalLeads ==
  ASSUME NEW w \in Views, NEW order, NEW args, NEW text, Relaying(w, order, args, text), NEW p
  PROVE  \E x : Leads(w, Deltas("refusal", 0, p), x) /\ Relaying(x, order, args, text)
  <1>1. CASE p = Absent
    <2>1. Deltas("refusal", 0, p) = <<>>
      BY <1>1 DEF Deltas
    <2> QED BY <2>1, LeadsNone
  <1>2. CASE p # Absent
    <2> DEFINE e == Event("refusal", 0, p)
    <2>1. Deltas("refusal", 0, p) = <<e>> /\ e.type = "refusal"
      BY <1>2, EventIs DEF Deltas
    <2> HIDE DEF e
    <2> QED BY <2>1, RefusalTold, LeadsOne
  <1> QED BY <1>1, <1>2

\* One entry of the tool calls: its item is opened if it is not yet, then it grows.
LEMMA FeedCallLeads ==
  ASSUME NEW v, NEW w, NEW acc, NEW text,
         Leads(v, acc.events, w), Relaying(w, acc.order, acc.args, text),
         NEW tc, tc.index \in Calls, tc.arg \in Arguments \cup {Absent},
         NEW b, b = FeedCall(acc, tc)
  PROVE  \E x : Leads(v, b.events, x) /\ Relaying(x, b.order, b.args, text)
  <1> DEFINE i == tc.index
             known == Contains(acc.order, i)
             order1 == IF known THEN acc.order ELSE Append(acc.order, i)
             args1 == [acc.args EXCEPT ![i] = @ \o Single(tc.arg)]
             opening == IF known THEN <<>> ELSE <<Event("itemAdded", i + 1, <<>>)>>
             growing == Deltas("delta", i + 1, tc.arg)
  <1>1. b.order = order1 /\ b.args = args1 /\ b.events = (acc.events \o opening) \o growing
    BY DEF FeedCall
  <1>2. /\ acc.args \in [Calls -> Seq(Arguments)] /\ acc.order \in Seq(Calls)
        /\ \A j \in Calls : acc.args[j] \in Seq(Arguments)
    BY DEF Relaying
  <1>3. known <=> i \in Opened(acc.order)
    BY DEF Contains, Opened
  <1>4. PICK y : Leads(w, opening, y) /\ Relaying(y, order1, acc.args, text)
    <2>1. w \in Views
      BY LeadsEnds
    <2>2. CASE known
      BY <2>1, <2>2, LeadsNone
    <2>3. CASE ~known
      <3> DEFINE e == Event("itemAdded", i + 1, <<>>)
      <3>1. e.type = "itemAdded" /\ e.index = i + 1 /\ opening = <<e>>
        BY <2>3, EventIs
      <3> HIDE DEF e
      <3>2. Legal(w, e) /\ Relaying(Got(w, e), Append(acc.order, i), acc.args, text)
        BY <1>3, <2>1, <2>3, <3>1, OpenCall
      <3>3. Leads(w, <<e>>, Got(w, e))
        BY <2>1, <3>2, LeadsOne
      <3> QED BY <2>3, <3>1, <3>2, <3>3
    <2> QED BY <2>2, <2>3
  <1>5. i \in Opened(order1)
    <2>1. CASE known
      BY <1>3, <2>1
    <2>2. CASE ~known
      <3>1. Len(order1) = Len(acc.order) + 1 /\ order1[Len(acc.order) + 1] = i /\ Len(acc.order) \in Nat
        BY <1>2, <2>2
      <3> HIDE DEF order1
      <3> QED BY <3>1 DEF Opened
    <2> QED BY <2>1, <2>2
  <1> HIDE DEF order1, opening
  <1>6. PICK x : Leads(y, growing, x) /\ Relaying(x, order1, args1, text)
    <2>1. y \in Views
      BY <1>4, LeadsEnds
    <2>2. acc.args[i] \o Single(tc.arg)
            = IF tc.arg = Absent THEN acc.args[i] ELSE Append(acc.args[i], tc.arg)
      <3> DEFINE a == acc.args[i]
                 p == tc.arg
      <3>1. a \in Seq(Arguments) /\ p \in Arguments \cup {Absent}
        BY <1>2
      <3> HIDE DEF a, p
      <3>2. a \o Single(p) = IF p = Absent THEN a ELSE Append(a, p)
        BY <3>1, SingleIs
      <3> QED BY <3>2 DEF a, p
    <2>3. CASE tc.arg = Absent
      <3>1. growing = <<>> /\ args1 = acc.args
        BY <1>2, <2>2, <2>3 DEF Deltas
      <3> QED BY <1>4, <2>1, <3>1, LeadsNone
    <2>4. CASE tc.arg # Absent
      <3> DEFINE e == Event("delta", i + 1, tc.arg)
      <3>1. /\ e.type = "delta" /\ e.index = i + 1 /\ e.data = tc.arg /\ growing = <<e>>
            /\ tc.arg \in Arguments
        BY <2>4, EventIs DEF Deltas
      <3>2. args1 = [acc.args EXCEPT ![i] = Append(@, tc.arg)]
        BY <2>2, <2>4
      <3> HIDE DEF e, growing
      <3>3. Legal(y, e) /\ Relaying(Got(y, e), order1, [acc.args EXCEPT ![i] = Append(@, tc.arg)], text)
        BY <1>4, <1>5, <2>1, <3>1, MoreOfCall
      <3>4. Leads(y, <<e>>, Got(y, e))
        BY <2>1, <3>3, LeadsOne
      <3> HIDE DEF args1
      <3> QED BY <3>1, <3>2, <3>3, <3>4
    <2> QED BY <2>3, <2>4
  <1>7. Leads(v, (acc.events \o opening) \o growing, x)
    <2> HIDE DEF growing
    <2> QED BY <1>4, <1>6, LeadsThrough
  <1> HIDE DEF args1, growing
  <1> QED BY <1>1, <1>6, <1>7

LEMMA FeedCallArguments ==
  ASSUME NEW acc, acc.args \in [Calls -> Seq(Arguments)],
         NEW tc, tc.index \in Calls, tc.arg \in Arguments \cup {Absent},
         NEW b, b = FeedCall(acc, tc), NEW j \in Calls
  PROVE  b.args[j] = acc.args[j] \o ArgumentOf(tc, j)
  <1> DEFINE a == acc.args
             p == Single(tc.arg)
  <1>1. b.args = [a EXCEPT ![tc.index] = @ \o p] /\ a \in [Calls -> Seq(Arguments)]
    BY DEF FeedCall
  <1>2. ArgumentOf(tc, j) = IF tc.index = j THEN p ELSE <<>>
    BY DEF ArgumentOf
  <1> HIDE DEF a, p
  <1>3. a[j] \o <<>> = a[j]
    BY <1>1
  <1>4. b.args[j] = a[j] \o ArgumentOf(tc, j)
    BY <1>1, <1>2, <1>3
  <1> QED BY <1>4 DEF a

LEMMA FlattenUpto ==
  ASSUME NEW S, NEW g \in Seq(Seq(S))
  PROVE  /\ \A m \in 0..Len(g) : FlattenSeq([j \in 1..m |-> g[j]]) \in Seq(S)
         /\ \A m \in 0..Len(g) - 1 :
              FlattenSeq([j \in 1..m + 1 |-> g[j]]) = FlattenSeq([j \in 1..m |-> g[j]]) \o g[m + 1]
  <1> DEFINE n == Len(g)
             Part(m) == [j \in 1..m |-> g[j]]
             G == {m \in 0..n : FlattenSeq(Part(m)) \in Seq(S)}
  <1>0. n \in Nat /\ \A j \in 1..n : g[j] \in Seq(S)
    OBVIOUS
  <1> HIDE DEF n
  <1>1. ASSUME NEW m \in 0..n - 1
        PROVE  /\ Part(m) \in Seq(Seq(S)) /\ g[m + 1] \in Seq(S)
               /\ Part(m + 1) = Append(Part(m), g[m + 1])
    <2>1. m \in Nat /\ m + 1 \in 1..n /\ \A j \in 1..m : g[j] \in Seq(S)
      BY <1>0
    <2>2. Part(m) \in Seq(Seq(S)) /\ Len(Part(m)) = m
      BY <2>1
    <2> DEFINE p == Part(m)
               a == Append(p, g[m + 1])
    <2>3. /\ a \in Seq(Seq(S)) /\ Len(a) = m + 1 /\ a[m + 1] = g[m + 1]
          /\ \A j \in 1..m : a[j] = p[j]
      <3> HIDE DEF p
      <3>1. p \in Seq(Seq(S)) /\ Len(p) = m /\ g[m + 1] \in Seq(S)
        BY <1>0, <2>1, <2>2 DEF p
      <3> HIDE DEF a
      <3> QED BY <3>1, AppendProperties DEF a
    <2>4. \A j \in 1..m : p[j] = g[j]
      OBVIOUS
    <2> HIDE DEF a, p
    <2>5. a = [j \in 1..m + 1 |-> g[j]]
      <3>1. DOMAIN a = 1..m + 1 /\ a = [j \in 1..m + 1 |-> a[j]]
        BY <2>1, <2>3
      <3>2. \A j \in 1..m + 1 : a[j] = g[j]
        BY <2>1, <2>3, <2>4
      <3> QED BY <3>1, <3>2
    <2> QED BY <1>0, <2>1, <2>2, <2>5 DEF a, p
  <1>2. 0 \in G
    <2>1. Part(0) = <<>> /\ <<>> \in Seq(S) /\ 0 \in 0..n
      BY <1>0
    <2> HIDE DEF Part
    <2> QED BY <2>1, FlattenEmpty
  <1>3. ASSUME NEW m \in 0..n - 1, FlattenSeq(Part(m)) \in Seq(S)
        PROVE  /\ FlattenSeq(Part(m + 1)) = FlattenSeq(Part(m)) \o g[m + 1]
               /\ FlattenSeq(Part(m + 1)) \in Seq(S)
    <2> DEFINE p == Part(m)
               x == g[m + 1]
    <2>1. p \in Seq(Seq(S)) /\ FlattenSeq(p) \in Seq(S) /\ x \in Seq(S)
      BY <1>1, <1>3
    <2> HIDE DEF p, x
    <2>2. FlattenSeq(Append(p, x)) = FlattenSeq(p) \o x /\ FlattenSeq(Append(p, x)) \in Seq(S)
      BY <2>1, FlattenAppend
    <2>3. Part(m + 1) = Append(p, x)
      BY <1>1 DEF p, x
    <2> HIDE DEF Part
    <2> QED BY <2>2, <2>3 DEF p, x
  <1> HIDE DEF Part
  <1>4. \A m \in 0..n : m \in G
    <2>1. \A m \in 0..n - 1 : m \in G => m + 1 \in G
      BY <1>0, <1>3
    <2> HIDE DEF G
    <2> QED BY <1>0, <1>2, <2>1, Induction
  <1>5. \A m \in 0..n : FlattenSeq(Part(m)) \in Seq(S)
    BY <1>4
  <1>6. \A m \in 0..n - 1 : FlattenSeq(Part(m + 1)) = FlattenSeq(Part(m)) \o g[m + 1]
    BY <1>0, <1>3, <1>5
  <1> QED BY <1>5, <1>6 DEF Part, n

LEMMA FlattenType ==
  ASSUME NEW S, NEW g \in Seq(Seq(S))
  PROVE  FlattenSeq(g) \in Seq(S)
  <1>1. Len(g) \in 0..Len(g) /\ g = [j \in 1..Len(g) |-> g[j]]
    OBVIOUS
  <1>2. FlattenSeq([j \in 1..Len(g) |-> g[j]]) \in Seq(S)
    BY <1>1, FlattenUpto
  <1> QED BY <1>1, <1>2

LEMMA LeadsNumber ==
  ASSUME NEW v, NEW q, NEW w, Leads(v, q, w)
  PROVE  w.number = v.number + Len(q)
  <1>1. PICK V : Walk(V, q) /\ V[0] = v /\ V[Len(q)] = w
    BY DEF Leads
  <1> DEFINE n == Len(q)
             G == {k \in 0..n : V[k].number = v.number + k}
  <1>2. n \in Nat /\ V \in [0..n -> Views]
    BY <1>1, LeadsEnds DEF Walk
  <1>3. \A k \in 0..n : V[k] \in Views /\ V[k].number \in Nat
    BY <1>2 DEF Views
  <1>4. 0 \in G
    <2>1. 0 \in 0..n /\ V[0].number \in Nat
      BY <1>2, <1>3
    <2> HIDE DEF n
    <2> QED BY <1>1, <2>1
  <1>5. ASSUME NEW k \in 0..n - 1, k \in G PROVE k + 1 \in G
    <2>1. k + 1 \in 1..n /\ k + 1 \in 0..n /\ k \in 0..n /\ (k + 1) - 1 = k
      BY <1>2
    <2>2. Legal(V[k], q[k + 1]) /\ V[k + 1] = Got(V[k], q[k + 1])
      BY <1>1, <2>1 DEF Walk
    <2>3. V[k + 1].number = V[k].number + 1
      <3> DEFINE a == V[k]
                 e == q[k + 1]
      <3>1. a \in Views /\ Legal(a, e) /\ V[k + 1] = Got(a, e)
        BY <1>3, <2>1, <2>2
      <3> HIDE DEF a, e
      <3>2. Got(a, e).number = a.number + 1
        BY <3>1, GotIs DEF Next1
      <3> QED BY <3>1, <3>2 DEF a
    <2>4. v.number \in Nat
      BY <1>1, <1>2, <1>3
    <2> HIDE DEF n
    <2> QED BY <1>5, <2>1, <2>3, <2>4
  <1> HIDE DEF n, G
  <1>6. n \in G
    <2>1. \A k \in 0..n : k \in G
      BY <1>2, <1>4, <1>5, Induction
    <2> QED BY <1>2, <2>1
  <1> QED BY <1>1, <1>6 DEF G, n

-----------------------------------------------------------------------------
(* All events of a chunk. *)

ChunkArguments(c, i) == FlattenSeq([j \in DOMAIN c.calls |-> ArgumentOf(c.calls[j], i)])

LEMMA ArgumentIs ==
  ASSUME NEW tc, tc.arg \in Arguments \cup {Absent}, NEW i
  PROVE  ArgumentOf(tc, i) \in Seq(Arguments)
  <1>1. <<>> \in Seq(Arguments)
    OBVIOUS
  <1> DEFINE p == tc.arg
  <1>2. Single(p) \in Seq(Arguments)
    <2> HIDE DEF p
    <2> QED BY <1>1, SingleIs DEF p
  <1> QED BY <1>1, <1>2 DEF ArgumentOf

LEMMA FedCallsLead ==
  ASSUME NEW v \in Views, NEW st, NEW c, NEW text, Relaying(v, st.order, st.args, text),
         c.calls \in Seq([index : Calls, arg : Arguments \cup {Absent}])
  PROVE  /\ \E x : /\ Leads(v, FedCalls(st, c).events, x)
                   /\ Relaying(x, FedCalls(st, c).order, FedCalls(st, c).args, text)
         /\ \A i \in Calls : /\ FedCalls(st, c).args[i] = st.args[i] \o ChunkArguments(c, i)
                             /\ ChunkArguments(c, i) \in Seq(Arguments)
  <1> DEFINE cs == c.calls
             n == Len(cs)
             g == [i \in Calls |-> [j \in 1..n |-> ArgumentOf(cs[j], i)]]
             D(m, i) == FlattenSeq([j \in 1..m |-> g[i][j]])
  <1>1. n \in Nat /\ DOMAIN cs = 1..n
        /\ \A j \in 1..n : cs[j].index \in Calls /\ cs[j].arg \in Arguments \cup {Absent}
    <2>1. cs \in Seq([index : Calls, arg : Arguments \cup {Absent}])
      OBVIOUS
    <2> HIDE DEF cs
    <2> DEFINE R == [index : Calls, arg : Arguments \cup {Absent}]
    <2>2. \A r \in R : r.index \in Calls /\ r.arg \in Arguments \cup {Absent}
      OBVIOUS
    <2> HIDE DEF R
    <2>3. cs \in Seq(R)
      BY <2>1 DEF R
    <2>4. \A j \in 1..n : cs[j] \in R
      BY <2>3
    <2> QED BY <2>2, <2>3, <2>4
  <1>2. PICK f : /\ f[0] = [order |-> st.order, args |-> st.args, events |-> <<>>]
                 /\ \A m \in 1..n : f[m] = FeedCall(f[m - 1], cs[m])
                 /\ FedCalls(st, c) = f[n]
    BY <1>1, FedCallsAre
  <1> HIDE DEF n, cs
  <1>3. /\ \A i \in Calls : g[i] \in Seq(Seq(Arguments)) /\ Len(g[i]) = n
        /\ \A i \in Calls, j \in 1..n : g[i][j] = ArgumentOf(cs[j], i)
    <2>1. ASSUME NEW i \in Calls PROVE [j \in 1..n |-> ArgumentOf(cs[j], i)] \in Seq(Seq(Arguments))
                                       /\ Len([j \in 1..n |-> ArgumentOf(cs[j], i)]) = n
      <3>1. ASSUME NEW j \in 1..n PROVE ArgumentOf(cs[j], i) \in Seq(Arguments)
        <4> DEFINE tc == cs[j]
        <4>1. tc.arg \in Arguments \cup {Absent}
          BY <1>1
        <4> HIDE DEF tc
        <4> QED BY <4>1, ArgumentIs DEF tc
      <3> DEFINE a == [j \in 1..n |-> ArgumentOf(cs[j], i)]
      <3>2. a \in [1..n -> Seq(Arguments)]
        BY <3>1
      <3> HIDE DEF a
      <3>3. a \in Seq(Seq(Arguments)) /\ Len(a) = n
        BY <1>1, <3>2
      <3> QED BY <3>3 DEF a
    <2> QED BY <2>1
  <1>4. \A i \in Calls : ChunkArguments(c, i) = D(n, i)
    <2>1. ASSUME NEW i \in Calls PROVE ChunkArguments(c, i) = D(n, i)
      <3>1. [j \in 1..n |-> g[i][j]] = [j \in 1..n |-> ArgumentOf(cs[j], i)]
        BY <1>3
      <3> QED BY <1>1, <3>1 DEF ChunkArguments, cs
    <2> QED BY <2>1
  <1> HIDE DEF g
  <1>5. \A i \in Calls : \A m \in 0..n : D(m, i) \in Seq(Arguments)
    BY <1>3, FlattenUpto
  <1>6. \A i \in Calls : \A m \in 0..n - 1 : D(m + 1, i) = D(m, i) \o ArgumentOf(cs[m + 1], i)
    <2>1. ASSUME NEW i \in Calls, NEW m \in 0..n - 1
          PROVE  D(m + 1, i) = D(m, i) \o ArgumentOf(cs[m + 1], i)
      <3>1. D(m + 1, i) = D(m, i) \o g[i][m + 1]
        BY <1>3, FlattenUpto
      <3>2. m + 1 \in 1..n
        BY <1>1
      <3> HIDE DEF D
      <3> QED BY <1>3, <3>1, <3>2
    <2> QED BY <2>1
  <1>7. \A i \in Calls : D(0, i) = <<>>
    <2>1. \A i \in Calls : [j \in 1..0 |-> g[i][j]] = <<>>
      OBVIOUS
    <2> QED BY <2>1, FlattenEmpty
  <1> HIDE DEF D
  <1> DEFINE P(m) == /\ \E x : Leads(v, f[m].events, x) /\ Relaying(x, f[m].order, f[m].args, text)
                     /\ \A i \in Calls : f[m].args[i] = st.args[i] \o D(m, i)
             G == {m \in 0..n : P(m)}
  <1>8. 0 \in G
    <2>1. f[0].events = <<>> /\ f[0].order = st.order /\ f[0].args = st.args
      BY <1>2
    <2>2. Leads(v, <<>>, v)
      BY LeadsNone
    <2>3. \A i \in Calls : st.args[i] \o <<>> = st.args[i]
      BY DEF Relaying
    <2>4. P(0)
      <3>1. Leads(v, f[0].events, v) /\ Relaying(v, f[0].order, f[0].args, text)
        BY <2>1, <2>2
      <3>2. \A i \in Calls : f[0].args[i] = st.args[i] \o D(0, i)
        BY <1>7, <2>1, <2>3
      <3> QED BY <3>1, <3>2
    <2> HIDE DEF P
    <2> QED BY <1>1, <2>4
  <1>9. ASSUME NEW m \in 0..n - 1, m \in G PROVE m + 1 \in G
    <2>1. m + 1 \in 1..n /\ m + 1 \in 0..n /\ m \in 0..n /\ (m + 1) - 1 = m
      BY <1>1
    <2> DEFINE tc == cs[m + 1]
               acc == f[m]
               b == f[m + 1]
    <2>2. b = FeedCall(acc, tc) /\ tc.index \in Calls /\ tc.arg \in Arguments \cup {Absent}
      BY <1>1, <1>2, <2>1
    <2>3. PICK w : Leads(v, acc.events, w) /\ Relaying(w, acc.order, acc.args, text)
      BY <1>9
    <2> HIDE DEF acc, b, tc
    <2>4. \E x : Leads(v, b.events, x) /\ Relaying(x, b.order, b.args, text)
      BY <2>2, <2>3, FeedCallLeads
    <2>7. \A i \in Calls : b.args[i] = acc.args[i] \o ArgumentOf(tc, i)
      <3>1. acc.args \in [Calls -> Seq(Arguments)]
        BY <2>3 DEF Relaying
      <3> QED BY <2>2, <3>1, FeedCallArguments
    <2>5. ASSUME NEW i \in Calls PROVE b.args[i] = st.args[i] \o D(m + 1, i)
      <3>1. acc.args[i] = st.args[i] \o D(m, i) /\ b.args[i] = acc.args[i] \o ArgumentOf(tc, i)
        BY <1>9, <2>7 DEF acc
      <3> DEFINE s1 == st.args[i]
                 s2 == D(m, i)
                 s3 == ArgumentOf(tc, i)
      <3>2. s1 \in Seq(Arguments) /\ s2 \in Seq(Arguments) /\ s3 \in Seq(Arguments)
        BY <1>5, <2>1, <2>2, ArgumentIs DEF Relaying
      <3>3. D(m + 1, i) = s2 \o s3
        BY <1>6 DEF tc
      <3> HIDE DEF s1, s2, s3
      <3>4. (s1 \o s2) \o s3 = s1 \o (s2 \o s3)
        BY <3>2
      <3> QED BY <3>1, <3>3, <3>4 DEF s1, s2, s3
    <2>6. P(m + 1)
      BY <2>4, <2>5 DEF b
    <2> HIDE DEF P
    <2> QED BY <2>1, <2>6
  <1> HIDE DEF G
  <1>10. n \in G
    <2>1. \A k \in 0..n : k \in G
      BY <1>1, <1>8, <1>9, Induction
    <2> QED BY <1>1, <2>1
  <1>11. P(n)
    BY <1>10 DEF G
  <1>12. n \in 0..n
    BY <1>1
  <1> QED BY <1>2, <1>4, <1>5, <1>11, <1>12

LEMMA ChunkLeads ==
  ASSUME NEW v \in Views, NEW st, NEW c \in ChunkType, Relaying(v, st.order, st.args, st.text)
  PROVE  /\ \E x : /\ Leads(v, FedEvents(st, c), x)
                   /\ Relaying(x, Fed(st, c).order, Fed(st, c).args, Fed(st, c).text)
         /\ \A i \in Calls : /\ Fed(st, c).args[i] = st.args[i] \o ChunkArguments(c, i)
                             /\ ChunkArguments(c, i) \in Seq(Arguments)
  <1> DEFINE text == st.text \o Single(c.content)
             b == FedCalls(st, c)
             d1 == Deltas("delta", 0, c.content)
             d2 == Deltas("refusal", 0, c.refusal)
  <1>1. /\ c.content \in Texts \cup {Absent}
        /\ c.calls \in Seq([index : Calls, arg : Arguments \cup {Absent}])
    BY DEF ChunkType
  <1>2. /\ Fed(st, c).order = b.order /\ Fed(st, c).args = b.args /\ Fed(st, c).text = text
        /\ FedEvents(st, c) = (d1 \o d2) \o b.events
    BY DEF Fed, FedEvents
  <1>3. PICK x1 : Leads(v, d1, x1) /\ Relaying(x1, st.order, st.args, text)
    BY <1>1, TextLeads
  <1>4. x1 \in Views
    BY <1>3, LeadsEnds
  <1>5. PICK x2 : Leads(x1, d2, x2) /\ Relaying(x2, st.order, st.args, text)
    BY <1>3, <1>4, RefusalLeads
  <1>6. x2 \in Views
    BY <1>5, LeadsEnds
  <1> HIDE DEF d1, d2, text
  <1>7. /\ \E x : Leads(x2, FedCalls(st, c).events, x)
                    /\ Relaying(x, FedCalls(st, c).order, FedCalls(st, c).args, text)
        /\ \A i \in Calls : /\ FedCalls(st, c).args[i] = st.args[i] \o ChunkArguments(c, i)
                            /\ ChunkArguments(c, i) \in Seq(Arguments)
    BY <1>1, <1>5, <1>6, FedCallsLead
  <1> HIDE DEF b
  <1>8. /\ \E x : Leads(x2, b.events, x) /\ Relaying(x, b.order, b.args, text)
        /\ \A i \in Calls : /\ b.args[i] = st.args[i] \o ChunkArguments(c, i)
                            /\ ChunkArguments(c, i) \in Seq(Arguments)
    BY <1>7 DEF b
  <1>9. PICK x : Leads(x2, b.events, x) /\ Relaying(x, b.order, b.args, text)
    BY <1>8
  <1>10. Leads(v, d1 \o d2, x2)
    BY <1>3, <1>5, LeadsThrough
  <1>11. Leads(v, (d1 \o d2) \o b.events, x)
    BY <1>9, <1>10, LeadsThrough
  <1> QED BY <1>2, <1>8, <1>9, <1>11

\* One event more.
LEMMA LeadsMore ==
  ASSUME NEW v, NEW q, NEW w, Leads(v, q, w), NEW e, Legal(w, e),
         NEW r, NEW R, r \in Seq(R), NEW n, n = Len(q), Len(r) = n + 1, r[n + 1] = e,
         \A k \in 1..n : r[k] = q[k]
  PROVE  Leads(v, r, Got(w, e))
  <1>1. w \in Views /\ n \in Nat
    BY LeadsEnds
  <1>2. Leads(w, <<e>>, Got(w, e))
    BY <1>1, LeadsOne
  <1>3. Leads(v, q \o <<e>>, Got(w, e))
    BY <1>2, LeadsThrough
  <1>4. PICK Q : q \in Seq(Q)
    BY DEF Leads, IsSeq
  <1> DEFINE S == (Q \cup {e}) \cup R
             t == q \o <<e>>
  <1>5. q \in Seq(S) /\ <<e>> \in Seq(S) /\ r \in Seq(S)
    <2>1. Q \subseteq S /\ R \subseteq S /\ e \in S
      OBVIOUS
    <2> HIDE DEF S
    <2> QED BY <1>4, <2>1, SeqMonotonic
  <1> HIDE DEF S
  <1>6. /\ t \in Seq(S) /\ Len(t) = n + 1 /\ t[n + 1] = e
        /\ \A k \in 1..n : t[k] = q[k]
    BY <1>1, <1>5
  <1> HIDE DEF t
  <1>7. \A k \in 1..n + 1 : r[k] = t[k]
    <2>1. \A k \in 1..n + 1 : k \in 1..n \/ k = n + 1
      BY <1>1
    <2> QED BY <1>6, <2>1
  <1>8. r = t
    BY <1>5, <1>6, <1>7, SeqEqual
  <1> QED BY <1>3, <1>8 DEF t

LEMMA LeadsTwo ==
  ASSUME NEW v, NEW w, NEW e1, NEW e2, Leads(v, <<e1>>, w), Legal(w, e2)
  PROVE  Leads(v, <<e1, e2>>, Got(w, e2))
  <1> DEFINE q == <<e1>>
             r == <<e1, e2>>
             R == {e1, e2}
             n == 1
  <1>1. /\ r \in Seq(R) /\ n = Len(q) /\ Len(r) = n + 1 /\ r[n + 1] = e2
        /\ \A k \in 1..n : r[k] = q[k]
    OBVIOUS
  <1>2. Leads(v, q, w)
    OBVIOUS
  <1> HIDE DEF q, r, R, n
  <1>3. Leads(v, r, Got(w, e2))
    BY <1>1, <1>2, LeadsMore
  <1> QED BY <1>3 DEF r

LEMMA LeadsThree ==
  ASSUME NEW v, NEW w, NEW e1, NEW e2, NEW e3, Leads(v, <<e1, e2>>, w), Legal(w, e3)
  PROVE  Leads(v, <<e1, e2, e3>>, Got(w, e3))
  <1> DEFINE q == <<e1, e2>>
             r == <<e1, e2, e3>>
             R == {e1, e2, e3}
             n == 2
  <1>1. /\ r \in Seq(R) /\ n = Len(q) /\ Len(r) = n + 1 /\ r[n + 1] = e3
        /\ \A k \in 1..n : r[k] = q[k]
    OBVIOUS
  <1>2. Leads(v, q, w)
    OBVIOUS
  <1> HIDE DEF q, r, R, n
  <1>3. Leads(v, r, Got(w, e3))
    BY <1>1, <1>2, LeadsMore
  <1> QED BY <1>3 DEF r

LEMMA LeadsFour ==
  ASSUME NEW v, NEW w, NEW e1, NEW e2, NEW e3, NEW e4, Leads(v, <<e1, e2, e3>>, w), Legal(w, e4)
  PROVE  Leads(v, <<e1, e2, e3, e4>>, Got(w, e4))
  <1> DEFINE q == <<e1, e2, e3>>
             r == <<e1, e2, e3, e4>>
             R == {e1, e2, e3, e4}
             n == 3
  <1>1. /\ r \in Seq(R) /\ n = Len(q) /\ Len(r) = n + 1 /\ r[n + 1] = e4
        /\ \A k \in 1..n : r[k] = q[k]
    OBVIOUS
  <1>2. Leads(v, q, w)
    OBVIOUS
  <1> HIDE DEF q, r, R, n
  <1>3. Leads(v, r, Got(w, e4))
    BY <1>1, <1>2, LeadsMore
  <1> QED BY <1>3 DEF r

-----------------------------------------------------------------------------
(* The first events and the last. *)

LEMMA NoViewIs == NoView \in Views
  <1>1. <<>> \in Seq(Pieces)
    OBVIOUS
  <1>2. [i \in Items |-> <<>>] \in Bodies
    BY <1>1 DEF Bodies
  <1>3. [i \in Items |-> "absent"] \in [Items -> {"absent", "open", "full", "closed"}]
    OBVIOUS
  <1> QED BY <1>2, <1>3 DEF NoView, Views, Told, Verdicts

LEMMA HeaderLeads ==
  \E x : Leads(NoView, Header, x) /\ Relaying(x, <<>>, [i \in Calls |-> <<>>], <<>>)
  <1> DEFINE e1 == Event("created", 0, <<>>)
             e2 == Event("inProgress", 0, <<>>)
             e3 == Event("itemAdded", 0, <<>>)
             e4 == Event("part", 0, <<>>)
             v == NoView
             x1 == Got(v, e1)
             x2 == Got(x1, e2)
             x3 == Got(x2, e3)
             x4 == Got(x3, e4)
             none == [i \in Items |-> <<>>]
             empty == [i \in Calls |-> <<>>]
             shut == [i \in Items |-> "absent"]
  <1>1. /\ v.status = "none" /\ v.item = shut /\ v.body = none /\ v.told = none
    BY DEF NoView
  <1>2. Header = <<e1, e2, e3, e4>>
    BY DEF Header
  <1>3. /\ e1.type = "created" /\ e2.type = "inProgress" /\ e3.type = "itemAdded"
        /\ e3.index = 0 /\ e4.type = "part"
    BY EventIs
  <1> HIDE DEF v, e1, e2, e3, e4
  <1>4. v \in Views /\ Legal(v, e1)
    BY <1>1, <1>3, NoViewIs DEF Legal, v
  <1>5. Leads(v, <<e1>>, x1)
    BY <1>4, LeadsOne
  <1>6. /\ x1 \in Views /\ x1.status = "open" /\ x1.item = shut /\ x1.body = none /\ x1.told = none
    BY <1>1, <1>3, <1>4, GotIs DEF Next1
  <1> HIDE DEF x1
  <1>7. Legal(x1, e2)
    BY <1>3, <1>6 DEF Legal
  <1>8. Leads(v, <<e1, e2>>, x2)
    BY <1>5, <1>7, LeadsTwo
  <1>9. /\ x2 \in Views /\ x2.status = "open" /\ x2.item = shut /\ x2.body = none /\ x2.told = none
    BY <1>3, <1>6, <1>7, GotIs DEF Next1
  <1> HIDE DEF x2
  <1>10. Legal(x2, e3)
    <2>1. 0 \in Items
      BY ItemsAre
    <2>2. shut[0] = "absent"
      BY <2>1
    <2> QED BY <1>3, <1>9, <2>1, <2>2 DEF Legal
  <1>11. Leads(v, <<e1, e2, e3>>, x3)
    BY <1>8, <1>10, LeadsThree
  <1> DEFINE first == [shut EXCEPT ![0] = "open"]
  <1>12. /\ x3 \in Views /\ x3.status = "open" /\ x3.item = first /\ x3.body = none
         /\ x3.told = none
    <2>1. x3.item = [x2.item EXCEPT ![e3.index] = "open"]
      BY <1>3, <1>9, <1>10, GotIs DEF Next1
    <2>2. x3 \in Views /\ x3.status = "open" /\ x3.body = none /\ x3.told = none
      BY <1>3, <1>9, <1>10, GotIs DEF Next1
    <2> HIDE DEF shut, x3
    <2>3. x3.item = [x2.item EXCEPT ![0] = "open"]
      BY <1>3, <2>1
    <2> QED BY <1>9, <2>2, <2>3
  <1> HIDE DEF x3
  <1>13. Legal(x3, e4)
    BY <1>3, <1>12 DEF Legal
  <1>14. Leads(v, <<e1, e2, e3, e4>>, x4)
    BY <1>11, <1>13, LeadsFour
  <1>15. /\ x4 \in Views /\ x4.status = "open" /\ x4.item = first /\ x4.body = none
         /\ x4.told = none
    BY <1>3, <1>12, <1>13, GotIs DEF Next1
  <1> HIDE DEF x4
  <1>16. Relaying(x4, <<>>, empty, <<>>)
    <2>1. <<>> \in Seq(Calls) /\ <<>> \in Seq(Arguments) /\ <<>> \in Seq(Texts) /\ Len(<<>>) = 0
      OBVIOUS
    <2>2. Distinct(<<>>) /\ Opened(<<>>) = {}
      BY DEF Distinct, Opened
    <2>3. empty \in [Calls -> Seq(Arguments)] /\ \A i \in Calls : empty[i] = <<>>
      BY <2>1
    <2>4. first[0] = "open" /\ none[0] = <<>>
      BY ItemsAre
    <2>5. \A i \in Calls : first[i + 1] = "absent" /\ none[i + 1] = <<>>
      BY ItemsAre
    <2> HIDE DEF first, none, empty
    <2>6. x4.told = [i \in Items |-> <<>>]
      BY <1>15 DEF none
    <2> QED BY <1>15, <2>1, <2>2, <2>3, <2>4, <2>5, <2>6 DEF Relaying
  <1> QED BY <1>2, <1>14, <1>16 DEF v

\* An item that is open is published as it was streamed, then closed.
ItemClosed(w, n, x) ==
  /\ x.status = "open" /\ x.body = w.body
  /\ x.item = [w.item EXCEPT ![n] = "closed"]
  /\ x.told = [w.told EXCEPT ![n] = w.body[n]]

LEMMA ItemEnds ==
  ASSUME NEW w \in Views, w.status = "open", NEW n \in Items, w.item[n] = "open",
         NEW e1, e1.type = "done", e1.index = n, e1.data = w.body[n],
         NEW e2, e2.type = "itemDone", e2.index = n, e2.data = w.body[n]
  PROVE  \E x : Leads(w, <<e1, e2>>, x) /\ ItemClosed(w, n, x)
  <1> DEFINE y == Got(w, e1)
             x == Got(y, e2)
  <1>0. /\ w.item \in [Items -> {"absent", "open", "full", "closed"}] /\ w.told \in Bodies
    BY DEF Views
  <1>1. Legal(w, e1)
    BY DEF Legal
  <1>2. /\ y \in Views /\ y.status = "open" /\ y.body = w.body
        /\ y.item = [w.item EXCEPT ![n] = "full"] /\ y.told = [w.told EXCEPT ![n] = w.body[n]]
    <2>1. /\ y.item = [w.item EXCEPT ![e1.index] = "full"]
          /\ y.told = [w.told EXCEPT ![e1.index] = e1.data]
      BY <1>1, GotIs DEF Next1
    <2>2. y \in Views /\ y.status = "open" /\ y.body = w.body
      BY <1>1, GotIs DEF Next1
    <2> HIDE DEF y
    <2> QED BY <2>1, <2>2
  <1>3. Leads(w, <<e1>>, y)
    BY <1>1, LeadsOne
  <1> HIDE DEF y
  <1>4. y.item[n] = "full" /\ y.told[n] = w.body[n]
    BY <1>0, <1>2 DEF Bodies
  <1>5. Legal(y, e2)
    BY <1>2, <1>4 DEF Legal
  <1>6. /\ x.status = "open" /\ x.body = w.body
        /\ x.item = [y.item EXCEPT ![n] = "closed"] /\ x.told = [y.told EXCEPT ![n] = w.body[n]]
    <2>1. /\ x.item = [y.item EXCEPT ![e2.index] = "closed"]
          /\ x.told = [y.told EXCEPT ![e2.index] = e2.data]
      BY <1>2, <1>5, GotIs DEF Next1
    <2>2. x.status = "open" /\ x.body = w.body
      BY <1>2, <1>5, GotIs DEF Next1
    <2> HIDE DEF x
    <2> QED BY <2>1, <2>2
  <1>7. Leads(w, <<e1, e2>>, x)
    BY <1>3, <1>5, LeadsTwo
  <1> HIDE DEF x
  <1>8. x.item = [w.item EXCEPT ![n] = "closed"]
    BY <1>0, <1>2, <1>6
  <1>9. x.told = [w.told EXCEPT ![n] = w.body[n]]
    BY <1>0, <1>2, <1>6 DEF Bodies
  <1> QED BY <1>6, <1>7, <1>8, <1>9 DEF ItemClosed

TextClosed(w, x) ==
  /\ x.status = "open" /\ x.item = [w.item EXCEPT ![0] = "closed"]
  /\ x.told = [w.told EXCEPT ![0] = w.body[0]]

\* The message's text has an event of its own between the two.
LEMMA TextEnds ==
  ASSUME NEW w \in Views, w.status = "open", w.item[0] = "open",
         NEW e1, e1.type = "done", e1.index = 0, e1.data = w.body[0],
         NEW e2, e2.type = "part",
         NEW e3, e3.type = "itemDone", e3.index = 0, e3.data = w.body[0]
  PROVE  \E x : Leads(w, <<e1, e2, e3>>, x) /\ TextClosed(w, x)
  <1> DEFINE y == Got(w, e1)
             z == Got(y, e2)
             x == Got(z, e3)
  <1>0. /\ w.item \in [Items -> {"absent", "open", "full", "closed"}] /\ w.told \in Bodies
        /\ 0 \in Items
    BY ItemsAre DEF Views
  <1>1. Legal(w, e1)
    BY <1>0 DEF Legal
  <1>2. /\ y \in Views /\ y.status = "open"
        /\ y.item = [w.item EXCEPT ![0] = "full"] /\ y.told = [w.told EXCEPT ![0] = w.body[0]]
    <2>1. /\ y.item = [w.item EXCEPT ![e1.index] = "full"]
          /\ y.told = [w.told EXCEPT ![e1.index] = e1.data]
      BY <1>1, GotIs DEF Next1
    <2>2. y \in Views /\ y.status = "open"
      BY <1>1, GotIs DEF Next1
    <2> HIDE DEF y
    <2> QED BY <2>1, <2>2
  <1>3. Leads(w, <<e1>>, y)
    BY <1>1, LeadsOne
  <1> HIDE DEF y
  <1>4. Legal(y, e2)
    BY <1>2 DEF Legal
  <1>5. z \in Views /\ z.status = "open" /\ z.item = y.item /\ z.told = y.told
    BY <1>2, <1>4, GotIs DEF Next1
  <1>6. Leads(w, <<e1, e2>>, z)
    BY <1>3, <1>4, LeadsTwo
  <1> HIDE DEF z
  <1>7. z.item[0] = "full" /\ z.told[0] = w.body[0]
    BY <1>0, <1>2, <1>5 DEF Bodies
  <1>8. Legal(z, e3)
    BY <1>0, <1>5, <1>7 DEF Legal
  <1>9. /\ x.status = "open"
        /\ x.item = [z.item EXCEPT ![0] = "closed"] /\ x.told = [z.told EXCEPT ![0] = w.body[0]]
    <2>1. /\ x.item = [z.item EXCEPT ![e3.index] = "closed"]
          /\ x.told = [z.told EXCEPT ![e3.index] = e3.data]
      BY <1>5, <1>8, GotIs DEF Next1
    <2>2. x.status = "open"
      BY <1>5, <1>8, GotIs DEF Next1
    <2> HIDE DEF x
    <2> QED BY <2>1, <2>2
  <1>10. Leads(w, <<e1, e2, e3>>, x)
    BY <1>6, <1>8, LeadsThree
  <1> HIDE DEF x
  <1>11. x.item = [w.item EXCEPT ![0] = "closed"]
    BY <1>0, <1>2, <1>5, <1>9
  <1>12. x.told = [w.told EXCEPT ![0] = w.body[0]]
    BY <1>0, <1>2, <1>5, <1>9 DEF Bodies
  <1> QED BY <1>9, <1>10, <1>11, <1>12 DEF TextClosed

\* The first m calls are closed, the others and the text are not.
Firsts(order, m) == {order[k] : k \in 1..m}

Ending(x, order, args, text, m) ==
  /\ x \in Views /\ x.status = "open" /\ x.item[0] = "open" /\ x.body[0] = text
  /\ \A i \in Calls :
       /\ x.body[i + 1] = args[i]
       /\ x.item[i + 1] = IF i \in Firsts(order, m) THEN "closed"
                          ELSE IF i \in Opened(order) THEN "open" ELSE "absent"
       /\ x.told[i + 1] = IF i \in Firsts(order, m) THEN args[i] ELSE <<>>

LEMMA EndingStarts ==
  ASSUME NEW w \in Views, NEW order, NEW args, NEW text, Relaying(w, order, args, text)
  PROVE  Ending(w, order, args, text, 0)
  <1>1. Firsts(order, 0) = {}
    BY DEF Firsts
  <1>2. \A i \in Calls : w.told[i + 1] = <<>>
    BY ItemsAre DEF Relaying
  <1> QED BY <1>1, <1>2 DEF Ending, Relaying

LEMMA CallEnds ==
  ASSUME NEW order \in Seq(Calls), Distinct(order), NEW args, NEW text, NEW m \in Nat,
         m + 1 \in 1..Len(order), NEW x, Ending(x, order, args, text, m),
         NEW e1, e1.type = "done", e1.index = order[m + 1] + 1, e1.data = args[order[m + 1]],
         NEW e2, e2.type = "itemDone", e2.index = order[m + 1] + 1, e2.data = args[order[m + 1]]
  PROVE  \E y : Leads(x, <<e1, e2>>, y) /\ Ending(y, order, args, text, m + 1)
  <1> DEFINE i == order[m + 1]
             n == i + 1
  <1>1. i \in Calls
    OBVIOUS
  <1>2. n \in Items /\ n # 0 /\ 0 \in Items /\ \A j \in Calls : j + 1 \in Items /\ (j + 1 = n => j = i)
    BY <1>1, ItemsAre
  <1>3. i \in Opened(order) /\ i \notin Firsts(order, m)
    <2>1. i \in Opened(order)
      BY DEF Opened
    <2>2. ASSUME NEW k \in 1..m, order[k] = i PROVE FALSE
      <3>1. k \in 1..Len(order) /\ k # m + 1
        OBVIOUS
      <3> QED BY <2>2, <3>1 DEF Distinct
    <2> QED BY <2>1, <2>2 DEF Firsts
  <1>4. Firsts(order, m + 1) = Firsts(order, m) \cup {i}
    BY DEF Firsts
  <1>5. e1.index = n /\ e2.index = n /\ e1.data = args[i] /\ e2.data = args[i]
    OBVIOUS
  <1>6. /\ x \in Views /\ x.status = "open" /\ x.item[n] = "open" /\ x.body[n] = args[i]
    BY <1>1, <1>3 DEF Ending
  <1> HIDE DEF n, i
  <1>7. PICK y : Leads(x, <<e1, e2>>, y) /\ ItemClosed(x, n, y)
    <2>1. e1.data = x.body[n] /\ e2.data = x.body[n]
      BY <1>5, <1>6
    <2>2. x \in Views
      BY <1>6
    <2>3. x.status = "open" /\ x.item[n] = "open"
      BY <1>6
    <2>4. n \in Items
      BY <1>2
    <2>5. e1.type = "done" /\ e1.index = n /\ e2.type = "itemDone" /\ e2.index = n
      BY <1>5
    <2> QED BY ONLY <2>1, <2>2, <2>3, <2>4, <2>5, ItemEnds
  <1>8. /\ y \in Views /\ y.status = "open" /\ y.body = x.body
        /\ y.item = [x.item EXCEPT ![n] = "closed"]
        /\ y.told = [x.told EXCEPT ![n] = x.body[n]]
    BY <1>7, LeadsEnds DEF ItemClosed
  <1>9. /\ x.item \in [Items -> {"absent", "open", "full", "closed"}]
        /\ x.told \in [Items -> Seq(Pieces)]
    BY <1>6 DEF Views, Bodies
  <1>10. ASSUME NEW j \in Calls
         PROVE  /\ y.item[j + 1] = IF j \in Firsts(order, m + 1) THEN "closed"
                                   ELSE IF j \in Opened(order) THEN "open" ELSE "absent"
                /\ y.told[j + 1] = IF j \in Firsts(order, m + 1) THEN args[j] ELSE <<>>
    <2>1. CASE j = i
      <3>1. j + 1 = n
        BY <2>1 DEF n
      <3> QED BY <1>2, <1>4, <1>6, <1>8, <1>9, <2>1, <3>1
    <2>2. CASE j # i
      <3>1. j + 1 # n /\ j + 1 \in Items
        BY <1>2, <2>2
      <3>2. y.item[j + 1] = x.item[j + 1] /\ y.told[j + 1] = x.told[j + 1]
        BY <1>8, <1>9, <3>1
      <3> QED BY <1>4, <2>2, <3>2 DEF Ending
    <2> QED BY <2>1, <2>2
  <1>11. y.item[0] = "open" /\ y.body[0] = text
    BY <1>2, <1>8, <1>9 DEF Ending
  <1>12. \A j \in Calls : y.body[j + 1] = args[j]
    BY <1>8 DEF Ending
  <1>13. Ending(y, order, args, text, m + 1)
    BY <1>8, <1>10, <1>11, <1>12 DEF Ending
  <1> QED BY <1>7, <1>13

LEMMA CallsEnd ==
  ASSUME NEW w \in Views, NEW st, Relaying(w, st.order, st.args, st.text)
  PROVE  \E x : /\ Leads(w, FlattenSeq([k \in DOMAIN st.order |-> CallClosed(st, st.order[k])]), x)
                /\ Ending(x, st.order, st.args, st.text, Len(st.order))
  <1> DEFINE order == st.order
             args == st.args
             text == st.text
             n == Len(order)
             g == [k \in 1..n |-> CallClosed(st, order[k])]
             E(i) == Event("done", i + 1, args[i])
             F(i) == Event("itemDone", i + 1, args[i])
             S == {E(i) : i \in Calls} \cup {F(i) : i \in Calls}
             Q(m) == FlattenSeq([j \in 1..m |-> g[j]])
  <1>1. order \in Seq(Calls) /\ Distinct(order) /\ n \in Nat /\ DOMAIN order = 1..n
    BY DEF Relaying
  <1>2. \A i \in Calls : CallClosed(st, i) = <<E(i), F(i)>>
    BY DEF CallClosed
  <1>3. \A i \in Calls : E(i) \in S /\ F(i) \in S
    OBVIOUS
  <1>4. \A i \in Calls : /\ E(i).type = "done" /\ E(i).index = i + 1 /\ E(i).data = args[i]
                         /\ F(i).type = "itemDone" /\ F(i).index = i + 1 /\ F(i).data = args[i]
    BY EventIs
  <1>5. \A k \in 1..n : order[k] \in Calls
    BY <1>1
  <1> HIDE DEF S, E, F, order, args, text, n
  <1>6. \A k \in 1..n : g[k] = <<E(order[k]), F(order[k])>>
    BY <1>2, <1>5
  <1>7. g \in Seq(Seq(S)) /\ Len(g) = n
    <2>1. ASSUME NEW k \in 1..n PROVE CallClosed(st, order[k]) \in Seq(S)
      <3> DEFINE a == E(order[k])
                 b == F(order[k])
      <3>1. a \in S /\ b \in S /\ CallClosed(st, order[k]) = <<a, b>>
        BY <1>2, <1>3, <1>5
      <3> HIDE DEF a, b
      <3> QED BY <3>1
    <2>2. g \in [1..n -> Seq(S)]
      BY <2>1
    <2> HIDE DEF g
    <2> QED BY <1>1, <2>2
  <1> HIDE DEF g
  <1>8. \A m \in 0..n - 1 : Q(m + 1) = Q(m) \o g[m + 1]
    BY <1>7, FlattenUpto
  <1>9. Q(0) = <<>>
    <2>1. [j \in 1..0 |-> g[j]] = <<>>
      OBVIOUS
    <2> QED BY <2>1, FlattenEmpty
  <1>10. Q(n) = FlattenSeq(g)
    <2>1. g = [j \in 1..n |-> g[j]]
      BY <1>7
    <2> QED BY <2>1
  <1> HIDE DEF Q
  <1> DEFINE P(m) == \E x : Leads(w, Q(m), x) /\ Ending(x, order, args, text, m)
             G == {m \in 0..n : P(m)}
  <1>11. 0 \in G
    <2>1. Ending(w, order, args, text, 0)
      BY EndingStarts DEF order, args, text
    <2>2. P(0)
      BY <1>9, <2>1, LeadsNone
    <2> HIDE DEF P
    <2> QED BY <1>1, <2>2
  <1>12. ASSUME NEW m \in 0..n - 1, m \in G PROVE m + 1 \in G
    <2>1. m \in Nat /\ m + 1 \in 1..n /\ m + 1 \in 0..n
      BY <1>1
    <2>2. PICK x : Leads(w, Q(m), x) /\ Ending(x, order, args, text, m)
      BY <1>12
    <2> DEFINE i == order[m + 1]
               e1 == E(i)
               e2 == F(i)
    <2>3. i \in Calls
      BY <1>5, <2>1
    <2>4. /\ e1.type = "done" /\ e1.index = order[m + 1] + 1 /\ e1.data = args[order[m + 1]]
          /\ e2.type = "itemDone" /\ e2.index = order[m + 1] + 1 /\ e2.data = args[order[m + 1]]
      BY <1>4, <2>3
    <2>5. g[m + 1] = <<e1, e2>>
      BY <1>6, <2>1
    <2> HIDE DEF e1, e2, i
    <2>6. PICK y : Leads(x, <<e1, e2>>, y) /\ Ending(y, order, args, text, m + 1)
      BY <1>1, <2>1, <2>2, <2>4, CallEnds DEF n
    <2>7. Leads(w, Q(m) \o <<e1, e2>>, y)
      BY <2>2, <2>6, LeadsThrough
    <2>8. Q(m + 1) = Q(m) \o <<e1, e2>>
      BY <1>8, <2>5
    <2>9. P(m + 1)
      BY <2>6, <2>7, <2>8
    <2> HIDE DEF P
    <2> QED BY <2>1, <2>9
  <1> HIDE DEF G
  <1>13. n \in G
    <2>1. \A k \in 0..n : k \in G
      BY <1>1, <1>11, <1>12, Induction
    <2> QED BY <1>1, <2>1
  <1>14. P(n)
    BY <1>13 DEF G
  <1>15. g = [k \in DOMAIN order |-> CallClosed(st, order[k])]
    BY <1>1 DEF g
  <1> QED BY <1>10, <1>14, <1>15 DEF order, args, text, n

LEMMA FinalLeads ==
  ASSUME NEW w \in Views, NEW st, Relaying(w, st.order, st.args, st.text), st.usage \in Told
  PROVE  \E x : /\ Leads(w, FinalEvents(st), x) /\ x.status = "over"
                /\ x.output = Output(st) /\ x.usage = st.usage
  <1> DEFINE text == st.text
             args == st.args
             order == st.order
             q == FlattenSeq([k \in DOMAIN st.order |-> CallClosed(st, st.order[k])])
             e1 == Event("done", 0, text)
             e2 == Event("part", 0, text)
             e3 == Event("itemDone", 0, text)
             e4 == Completed(st)
  <1>1. FinalEvents(st) = q \o <<e1, e2, e3, e4>>
    BY DEF FinalEvents
  <1>2. PICK y : Leads(w, q, y) /\ Ending(y, order, args, text, Len(order))
    BY CallsEnd
  <1>3. /\ e1.type = "done" /\ e1.index = 0 /\ e1.data = text
        /\ e2.type = "part" /\ e3.type = "itemDone" /\ e3.index = 0 /\ e3.data = text
    BY EventIs
  <1>4. /\ e4.type = "completed" /\ e4.data.output = Output(st) /\ e4.data.usage = st.usage
        /\ e4.data.status \in Verdicts
    BY DEF Completed, Event, Verdicts
  <1>5. /\ text = st.text /\ args = st.args /\ order = st.order
    OBVIOUS
  <1> HIDE DEF q, e1, e2, e3, e4, text, args, order
  <1>6. /\ y \in Views /\ y.status = "open" /\ y.item[0] = "open" /\ y.body[0] = text
        /\ y.item \in [Items -> {"absent", "open", "full", "closed"}]
        /\ y.told \in [Items -> Seq(Pieces)]
    BY <1>2 DEF Ending, Views, Bodies
  <1>7. PICK z : /\ Leads(y, <<e1, e2, e3>>, z) /\ TextClosed(y, z)
    BY <1>3, <1>6, TextEnds
  <1>8. /\ z \in Views /\ z.status = "open" /\ z.item = [y.item EXCEPT ![0] = "closed"]
        /\ z.told = [y.told EXCEPT ![0] = text]
    BY <1>6, <1>7, LeadsEnds DEF TextClosed
  <1>9. z.item[0] = "closed" /\ z.told[0] = text
    BY <1>6, <1>8, ItemsAre
  <1>10. Opened(order) = Firsts(order, Len(order))
    BY DEF Opened, Firsts
  <1>11. ASSUME NEW i \in Calls
         PROVE  z.item[i + 1] \in {"absent", "closed"} /\ z.told[i + 1] = args[i]
    <2>1. i + 1 \in Items /\ i + 1 # 0
      BY ItemsAre
    <2>2. z.item[i + 1] = y.item[i + 1] /\ z.told[i + 1] = y.told[i + 1]
      BY <1>6, <1>8, <2>1
    <2>3. i \notin Opened(order) => args[i] = <<>>
      BY DEF Relaying, args, order
    <2> QED BY <1>2, <1>10, <2>2, <2>3 DEF Ending
  <1>12. \A n \in Items : z.item[n] \in {"absent", "closed"}
    BY <1>9, <1>11, ItemsAre
  <1>13. Output(st) = z.told
    <2>1. z.told \in [Items -> Seq(Pieces)]
      BY <1>8 DEF Views, Bodies
    <2>2. ASSUME NEW n \in Items PROVE (IF n = 0 THEN st.text ELSE st.args[n - 1]) = z.told[n]
      <3>1. CASE n = 0
        BY <1>5, <1>9, <3>1
      <3>2. CASE n # 0
        <4>1. PICK i \in Calls : n = i + 1
          BY <3>2, ItemsAre
        <4>2. n - 1 = i
          BY <4>1, ItemsAre
        <4> QED BY <1>5, <1>11, <3>2, <4>1, <4>2
      <3> QED BY <3>1, <3>2
    <2> QED BY <2>1, <2>2 DEF Output
  <1>14. Legal(z, e4)
    BY <1>4, <1>8, <1>9, <1>12, <1>13 DEF Legal
  <1> DEFINE x == Got(z, e4)
  <1>15. x.status = "over" /\ x.output = Output(st) /\ x.usage = st.usage
    BY <1>4, <1>8, <1>14, GotIs DEF Next1
  <1> HIDE DEF x
  <1>16. Leads(y, <<e1, e2, e3, e4>>, x)
    BY <1>7, <1>14, LeadsFour DEF x
  <1>17. Leads(w, q \o <<e1, e2, e3, e4>>, x)
    BY <1>2, <1>16, LeadsThrough
  <1> QED BY <1>1, <1>15, <1>17

LEMMA NumberedIs ==
  ASSUME NEW q, IsSeq(q), NEW n \in Nat
  PROVE  /\ Numbered(q, n) = <<>> <=> q = <<>>
         /\ q # <<>> => /\ Head(Numbered(q, n)) = [seq |-> n, event |-> Head(q)]
                        /\ Tail(Numbered(q, n)) = Numbered(Tail(q), n + 1)
  <1>1. PICK Q : q \in Seq(Q)
    BY DEF IsSeq
  <1> DEFINE R == {[seq |-> n + k - 1, event |-> q[k]] : k \in 1..Len(q)}
             s == Numbered(q, n)
  <1>2. /\ Len(q) \in Nat /\ DOMAIN q = 1..Len(q)
    BY <1>1
  <1>3. s = [k \in 1..Len(q) |-> [seq |-> n + k - 1, event |-> q[k]]]
    BY <1>2 DEF Numbered
  <1> HIDE DEF s
  <1>4. s \in Seq(R) /\ Len(s) = Len(q)
    <2>1. s \in [1..Len(q) -> R]
      BY <1>3
    <2> HIDE DEF R
    <2> QED BY <1>2, <2>1
  <1> HIDE DEF R
  <1>5. s = <<>> <=> q = <<>>
    BY <1>1, <1>4
  <1>6. ASSUME q # <<>>
        PROVE  Head(s) = [seq |-> n, event |-> Head(q)] /\ Tail(s) = Numbered(Tail(q), n + 1)
    <2>1. 1 \in 1..Len(q) /\ Head(q) = q[1] /\ Head(s) = s[1]
      BY <1>1, <1>4, <1>6
    <2>2. Head(s) = [seq |-> n, event |-> Head(q)]
      <3>1. s[1] = [seq |-> n + 1 - 1, event |-> q[1]] /\ n + 1 - 1 = n
        BY <1>3, <2>1
      <3> QED BY <2>1, <3>1
    <2> DEFINE t == Tail(q)
               u == Tail(s)
               m == Len(q) - 1
    <2>3. /\ t \in Seq(Q) /\ Len(t) = m /\ DOMAIN t = 1..m /\ m \in Nat
          /\ \A k \in 1..m : t[k] = q[k + 1]
      BY <1>1, <1>6
    <2>4. /\ DOMAIN u = 1..m /\ u = [k \in 1..m |-> u[k]]
          /\ \A k \in 1..m : u[k] = s[k + 1]
      <3>1. s # <<>> /\ Len(s) = m + 1 /\ m \in Nat
        BY <1>4, <1>5, <1>6, <2>3
      <3>2. u \in Seq(R) /\ Len(u) = m /\ \A k \in 1..m : u[k] = s[k + 1]
        <4> HIDE DEF m
        <4> QED BY <1>4, <3>1
      <3> HIDE DEF u
      <3> QED BY <3>2
    <2> HIDE DEF t, u, m
    <2>5. ASSUME NEW k \in 1..m PROVE u[k] = [seq |-> (n + 1) + k - 1, event |-> t[k]]
      <3>1. k + 1 \in 1..Len(q) /\ n + (k + 1) - 1 = (n + 1) + k - 1
        BY <1>2, <2>3 DEF m
      <3>2. s[k + 1] = [seq |-> n + (k + 1) - 1, event |-> q[k + 1]]
        BY <1>3, <3>1
      <3> QED BY <2>3, <2>4, <3>1, <3>2
    <2>6. u = [k \in 1..m |-> [seq |-> (n + 1) + k - 1, event |-> t[k]]]
      BY <2>4, <2>5
    <2>7. u = Numbered(t, n + 1)
      BY <2>3, <2>6 DEF Numbered
    <2> QED BY <2>2, <2>7 DEF t, u
  <1> QED BY <1>5, <1>6 DEF s

\* Nothing follows the end.
LEMMA NothingFollows ==
  ASSUME NEW v, NEW q, NEW w, Leads(v, q, w), v.status \in {"over", "broken"}
  PROVE  q = <<>> /\ w = v
  <1>1. q = <<>>
    <2> SUFFICES ASSUME q # <<>> PROVE FALSE
      OBVIOUS
    <2>1. Legal(v, Head(q))
      BY LeadsHead
    <2> QED BY <2>1 DEF Legal
  <1> QED BY <1>1, LeadsEnds

-----------------------------------------------------------------------------
(* The two readings of the usage. *)

\* The usage noted is that of the last chunk that has one.
Noted(chunks, usage) ==
  IF usage = Absent THEN \A k \in 1..Len(chunks) : chunks[k].usage = Absent
  ELSE \E k \in 1..Len(chunks) :
         chunks[k].usage = usage /\ \A j \in k + 1..Len(chunks) : chunks[j].usage = Absent

LEMMA UsageNoted ==
  ASSUME NEW chunks \in Seq(Chunks), NEW st, Noted(chunks, st.usage), NEW c \in Chunks
  PROVE  Noted(Append(chunks, c), NotedUsage(st, c))
  <1> DEFINE n == Len(chunks)
             more == Append(chunks, c)
  <1>1. /\ n \in Nat /\ Len(more) = n + 1 /\ more[n + 1] = c
        /\ \A k \in 1..n : more[k] = chunks[k]
    OBVIOUS
  <1> HIDE DEF more, n
  <1>2. CASE c.usage = Absent
    <2>1. NotedUsage(st, c) = st.usage
      BY <1>2 DEF NotedUsage
    <2>2. CASE st.usage = Absent
      <3>1. \A k \in 1..n : chunks[k].usage = Absent
        BY <2>2 DEF Noted, n
      <3>2. \A k \in 1..n + 1 : more[k].usage = Absent
        BY <1>1, <1>2, <3>1
      <3> QED BY <1>1, <2>1, <2>2, <3>2 DEF Noted, more
    <2>3. CASE st.usage # Absent
      <3>1. PICK k \in 1..n : /\ chunks[k].usage = st.usage
                              /\ \A j \in k + 1..n : chunks[j].usage = Absent
        BY <2>3 DEF Noted, n
      <3>2. k \in 1..n + 1 /\ more[k].usage = st.usage
        BY <1>1, <3>1
      <3>3. \A j \in k + 1..n + 1 : more[j].usage = Absent
        <4>1. \A j \in k + 1..n + 1 : j \in k + 1..n \/ j = n + 1
          BY <1>1
        <4>2. \A j \in k + 1..n : j \in 1..n
          BY <1>1
        <4> QED BY <1>1, <1>2, <3>1, <4>1, <4>2
      <3> QED BY <1>1, <2>1, <2>3, <3>2, <3>3 DEF Noted, more
    <2> QED BY <2>2, <2>3
  <1>3. CASE c.usage # Absent
    <2>1. NotedUsage(st, c) = c.usage
      BY <1>3 DEF NotedUsage
    <2>2. n + 1 \in 1..n + 1 /\ more[n + 1].usage = c.usage
          /\ \A j \in (n + 1) + 1..n + 1 : FALSE
      BY <1>1
    <2>3. \E k \in 1..n + 1 : /\ more[k].usage = c.usage
                              /\ \A j \in k + 1..n + 1 : more[j].usage = Absent
      BY <2>2
    <2> QED BY <1>1, <1>3, <2>1, <2>3 DEF Noted, more
  <1> QED BY <1>2, <1>3

LEMMA LastUsageIs ==
  ASSUME NEW chunks \in Seq(Chunks), NEW usage, Noted(chunks, usage)
  PROVE  /\ usage \in Usages => LastUsage(chunks) = usage
         /\ LastUsage(chunks) # "zero" => usage # Absent
  <1> DEFINE I == {i \in 1..Len(chunks) : Complete(chunks[i])}
             k == SelectLastInSeq(chunks, Complete)
  <1>1. k = IF I # {} THEN Max(I) ELSE 0
    BY DEF SelectLastInSeq
  <1>2. LastUsage(chunks) = IF k = 0 THEN "zero" ELSE chunks[k].usage
    BY DEF LastUsage
  <1>3. Absent \notin Usages
    BY StreamAssumption
  <1>4. Len(chunks) \in Nat
    OBVIOUS
  <1> HIDE DEF k
  <1>5. ASSUME usage \in Usages PROVE LastUsage(chunks) = usage
    <2>1. PICK m \in 1..Len(chunks) : /\ chunks[m].usage = usage
                                      /\ \A j \in m + 1..Len(chunks) : chunks[j].usage = Absent
      BY <1>3, <1>5 DEF Noted
    <2>2. m \in I
      BY <1>5, <2>1 DEF Complete
    <2>3. ASSUME NEW y \in I PROVE m >= y
      <3>1. chunks[y].usage # Absent /\ y \in 1..Len(chunks)
        BY <1>3 DEF Complete
      <3>2. y \notin m + 1..Len(chunks)
        BY <2>1, <3>1
      <3> QED BY <1>4, <3>1, <3>2
    <2>4. \A x \in I : (\A y \in I : x >= y) => x = m
      <3>1. I \subseteq Int
        OBVIOUS
      <3> HIDE DEF I
      <3> QED BY <2>2, <2>3, <3>1
    <2> HIDE DEF I
    <2>5. Max(I) = m
      BY <2>2, <2>3, <2>4 DEF Max
    <2>6. k = m /\ m # 0
      BY <1>1, <2>2, <2>5
    <2> QED BY <1>2, <2>1, <2>6
  <1>6. ASSUME LastUsage(chunks) # "zero" PROVE usage # Absent
    <2>1. I # {}
      BY <1>1, <1>2, <1>6
    <2>2. PICK m \in 1..Len(chunks) : chunks[m].usage \in Usages
      BY <2>1 DEF Complete
    <2> QED BY <1>3, <2>2 DEF Noted
  <1> QED BY <1>5, <1>6

-----------------------------------------------------------------------------
(* What a stream keeps: the state is the chunks taken together. *)

States ==
  [seq : Nat, text : Seq(Texts), order : Seq(Calls), args : [Calls -> Seq(Arguments)],
   usage : Told, finish : {"stop", "length"}]

TypeInv ==
  /\ phase \in {"waiting", "relaying", "closing", "over"}
  /\ raw \in Seq(Chunks) /\ state \in States

TextOf(chunks) == FlattenSeq([k \in DOMAIN chunks |-> Single(chunks[k].content)])
ArgumentsOf(chunks, i) == FlattenSeq([k \in DOMAIN chunks |-> ChunkArguments(chunks[k], i)])

Kept(st, chunks) ==
  /\ st.text = TextOf(chunks)
  /\ \A i \in Calls : st.args[i] = ArgumentsOf(chunks, i)
  /\ Noted(chunks, st.usage)

\* What the bill says, once it is made.
Billed(chunks) ==
  /\ bill # "none" => phase = "over"
  /\ bill \notin {"none", "due"} => bill = ParsedUsage(chunks)

\* Where the events that wait lead the reader to.
Settled(st, q, w) ==
  /\ phase = "waiting" => q = <<>> /\ w = NoView /\ st = NewState
  /\ phase = "relaying" => w.number = st.seq /\ Relaying(w, st.order, st.args, st.text)
  /\ phase = "closing" => w.status = "over" /\ w.output = Output(st) /\ w.usage = st.usage

Queue ==
  IF phase = "over"
  THEN /\ out = <<>> /\ view.status \in {"over", "broken"}
       /\ view.status = "over" => view.output = Output(state) /\ view.usage = state.usage
  ELSE \E q, w : /\ out = Numbered(q, view.number) /\ Leads(view, q, w)
                 /\ Settled(state, q, w)

StreamInv == TypeInv /\ Kept(state, raw) /\ Billed(raw) /\ Queue

-----------------------------------------------------------------------------

LEMMA NewStateIs == NewState \in States
  <1>1. <<>> \in Seq(Texts) /\ <<>> \in Seq(Calls) /\ <<>> \in Seq(Arguments)
    OBVIOUS
  <1>2. [i \in Calls |-> <<>>] \in [Calls -> Seq(Arguments)]
    BY <1>1
  <1> QED BY <1>1, <1>2 DEF NewState, States, Told

LEMMA SequenceIs ==
  ASSUME NEW S, NEW n \in Nat, NEW f \in [1..n -> S]
  PROVE  f \in Seq(S) /\ Len(f) = n
  OBVIOUS

\* A sequence that goes on, given by its elements.
GoesOn(h, g, x) ==
  /\ Len(h) = Len(g) + 1 /\ h[Len(g) + 1] = x
  /\ \A k \in 1..Len(g) : h[k] = g[k]

LEMMA FlattenMore ==
  ASSUME NEW S, NEW g \in Seq(Seq(S)), NEW x \in Seq(S), NEW h \in Seq(Seq(S)), GoesOn(h, g, x)
  PROVE  FlattenSeq(h) = FlattenSeq(g) \o x
  <1> DEFINE n == Len(g)
             a == Append(g, x)
  <1>1. n \in Nat
    OBVIOUS
  <1>2. a \in Seq(Seq(S)) /\ Len(a) = n + 1 /\ a[n + 1] = x /\ \A k \in 1..n : a[k] = g[k]
    OBVIOUS
  <1>3. Len(h) = n + 1 /\ h[n + 1] = x /\ \A k \in 1..n : h[k] = g[k]
    BY DEF GoesOn
  <1> HIDE DEF a, n
  <1>4. \A k \in 1..n + 1 : k \in 1..n \/ k = n + 1
    BY <1>1
  <1>5. \A k \in 1..n + 1 : a[k] = h[k]
    BY <1>2, <1>3, <1>4
  <1>6. a = h
    BY <1>2, <1>3, <1>5, SeqEqual
  <1>7. FlattenSeq(g) \in Seq(S)
    BY FlattenType
  <1>8. FlattenSeq(Append(g, x)) = FlattenSeq(g) \o x
    BY <1>7, FlattenAppend
  <1> QED BY <1>6, <1>8 DEF a

LEMMA TextAppended ==
  ASSUME NEW chunks \in Seq(Chunks), NEW c \in Chunks
  PROVE  TextOf(Append(chunks, c)) = TextOf(chunks) \o Single(c.content)
  <1> DEFINE n == Len(chunks)
             more == Append(chunks, c)
             g == [k \in 1..n |-> Single(chunks[k].content)]
             x == Single(c.content)
             h == [k \in 1..n + 1 |-> Single(more[k].content)]
  <1>1. /\ n \in Nat /\ DOMAIN chunks = 1..n /\ DOMAIN more = 1..n + 1
        /\ more[n + 1] = c /\ \A k \in 1..n : more[k] = chunks[k] /\ chunks[k] \in Chunks
    OBVIOUS
  <1>2. \A d \in Chunks : d.content \in Texts \cup {Absent}
    BY StreamAssumption DEF ChunkType
  <1>3. \A d \in Chunks : Single(d.content) \in Seq(Texts)
    <2>1. ASSUME NEW d \in Chunks PROVE Single(d.content) \in Seq(Texts)
      <3> DEFINE p == d.content
      <3>1. p \in Texts \cup {Absent} /\ <<>> \in Seq(Texts)
        BY <1>2
      <3> HIDE DEF p
      <3>2. Single(p) \in Seq(Texts)
        BY <3>1, SingleIs
      <3> QED BY <3>2 DEF p
    <2> QED BY <2>1
  <1>4. TextOf(chunks) = FlattenSeq(g) /\ TextOf(more) = FlattenSeq(h)
    <2> HIDE DEF more
    <2> QED BY <1>1 DEF TextOf
  <1> HIDE DEF n, more
  <1>5. g \in Seq(Seq(Texts)) /\ Len(g) = n
    <2> DEFINE Q == Seq(Texts)
    <2>1. g \in [1..n -> Q]
      BY <1>1, <1>3
    <2> HIDE DEF g, Q
    <2>2. g \in Seq(Q) /\ Len(g) = n
      BY <1>1, <2>1, SequenceIs
    <2> QED BY <2>2 DEF Q
  <1>6. x \in Seq(Texts)
    BY <1>3
  <1>7. /\ \A k \in 1..n : g[k] = h[k]
        /\ h[n + 1] = x
    <2>1. n + 1 \in 1..n + 1 /\ \A k \in 1..n : k \in 1..n + 1
      BY <1>1
    <2>2. \A k \in 1..n : g[k] = h[k]
      BY <1>1, <2>1
    <2>3. h[n + 1] = x
      BY <1>1, <2>1
    <2> QED BY <2>2, <2>3
  <1>8. h \in Seq(Seq(Texts)) /\ Len(h) = n + 1
    <2> DEFINE m == n + 1
               Q == Seq(Texts)
    <2>1. ASSUME NEW k \in 1..n + 1 PROVE more[k] \in Chunks
      <3>1. k \in 1..n \/ k = n + 1
        BY <1>1
      <3> QED BY <1>1, <3>1
    <2>2. h \in [1..m -> Q] /\ m \in Nat
      BY <1>1, <2>1, <1>3
    <2> HIDE DEF h, m, Q
    <2>3. h \in Seq(Q) /\ Len(h) = m
      BY <2>2, SequenceIs
    <2> QED BY <2>3 DEF m, Q
  <1> HIDE DEF g, h, x
  <1>9. FlattenSeq(h) = FlattenSeq(g) \o x
    <2>1. GoesOn(h, g, x)
      BY <1>1, <1>5, <1>7, <1>8 DEF GoesOn
    <2> QED BY <1>5, <1>6, <1>8, <2>1, FlattenMore
  <1> QED BY <1>4, <1>9 DEF more, x

LEMMA ArgumentsAppended ==
  ASSUME NEW chunks \in Seq(Chunks), NEW c \in Chunks, NEW i \in Calls,
         \A d \in Chunks : ChunkArguments(d, i) \in Seq(Arguments)
  PROVE  ArgumentsOf(Append(chunks, c), i) = ArgumentsOf(chunks, i) \o ChunkArguments(c, i)
  <1> DEFINE n == Len(chunks)
             more == Append(chunks, c)
             g == [k \in 1..n |-> ChunkArguments(chunks[k], i)]
             x == ChunkArguments(c, i)
             h == [k \in 1..n + 1 |-> ChunkArguments(more[k], i)]
  <1>1. /\ n \in Nat /\ DOMAIN chunks = 1..n /\ DOMAIN more = 1..n + 1
        /\ more[n + 1] = c /\ \A k \in 1..n : more[k] = chunks[k] /\ chunks[k] \in Chunks
    OBVIOUS
  <1>4. ArgumentsOf(chunks, i) = FlattenSeq(g) /\ ArgumentsOf(more, i) = FlattenSeq(h)
    <2> HIDE DEF more
    <2> QED BY <1>1 DEF ArgumentsOf
  <1> HIDE DEF n, more
  <1>5. g \in Seq(Seq(Arguments)) /\ Len(g) = n
    <2> DEFINE Q == Seq(Arguments)
    <2>1. g \in [1..n -> Q]
      BY <1>1
    <2> HIDE DEF g, Q
    <2>2. g \in Seq(Q) /\ Len(g) = n
      BY <1>1, <2>1, SequenceIs
    <2> QED BY <2>2 DEF Q
  <1>6. x \in Seq(Arguments)
    OBVIOUS
  <1>7. /\ \A k \in 1..n : g[k] = h[k]
        /\ h[n + 1] = x
    <2>1. n + 1 \in 1..n + 1 /\ \A k \in 1..n : k \in 1..n + 1
      BY <1>1
    <2>2. \A k \in 1..n : g[k] = h[k]
      BY <1>1, <2>1
    <2>3. h[n + 1] = x
      BY <1>1, <2>1
    <2> QED BY <2>2, <2>3
  <1>8. h \in Seq(Seq(Arguments)) /\ Len(h) = n + 1
    <2> DEFINE m == n + 1
               Q == Seq(Arguments)
    <2>1. ASSUME NEW k \in 1..n + 1 PROVE more[k] \in Chunks
      <3>1. k \in 1..n \/ k = n + 1
        BY <1>1
      <3> QED BY <1>1, <3>1
    <2>2. h \in [1..m -> Q] /\ m \in Nat
      BY <1>1, <2>1
    <2> HIDE DEF h, m, Q
    <2>3. h \in Seq(Q) /\ Len(h) = m
      BY <2>2, SequenceIs
    <2> QED BY <2>3 DEF m, Q
  <1> HIDE DEF g, h, x
  <1>9. FlattenSeq(h) = FlattenSeq(g) \o x
    <2>1. GoesOn(h, g, x)
      BY <1>1, <1>5, <1>7, <1>8 DEF GoesOn
    <2> QED BY <1>5, <1>6, <1>8, <2>1, FlattenMore
  <1> QED BY <1>4, <1>9 DEF more, x

LEMMA StreamInit == Init => StreamInv
  <1> SUFFICES ASSUME Init PROVE StreamInv
    OBVIOUS
  <1>1. phase = "waiting" /\ state = NewState /\ raw = <<>> /\ out = <<>> /\ view = NoView
        /\ bill = "none"
    BY DEF Init
  <1>2. TypeInv
    <2>1. <<>> \in Seq(Chunks)
      OBVIOUS
    <2> QED BY <1>1, <2>1, NewStateIs DEF TypeInv
  <1>3. Kept(NewState, <<>>)
    <2>1. TextOf(<<>>) = <<>>
      <3>1. [k \in DOMAIN <<>> |-> Single(<<>>[k].content)] = <<>>
        OBVIOUS
      <3> QED BY <3>1, FlattenEmpty DEF TextOf
    <2>2. \A i \in Calls : ArgumentsOf(<<>>, i) = <<>>
      <3>1. \A i \in Calls : [k \in DOMAIN <<>> |-> ChunkArguments(<<>>[k], i)] = <<>>
        OBVIOUS
      <3> QED BY <3>1, FlattenEmpty DEF ArgumentsOf
    <2>3. /\ NewState.text = <<>> /\ NewState.usage = Absent
          /\ \A i \in Calls : NewState.args[i] = <<>>
      BY DEF NewState
    <2>4. \A k \in 1..Len(<<>>) : FALSE
      OBVIOUS
    <2> QED BY <2>1, <2>2, <2>3, <2>4 DEF Kept, Noted
  <1>4. Queue
    <2>1. Leads(NoView, <<>>, NoView)
      BY LeadsNone, NoViewIs
    <2>2. <<>> = Numbered(<<>>, NoView.number)
      <3>1. IsSeq(<<>>) /\ NoView.number \in Nat
        BY <2>1, NoViewIs DEF Views, Leads
      <3> QED BY <3>1, NumberedIs
    <2>3. Settled(state, <<>>, NoView)
      BY <1>1 DEF Settled
    <2> QED BY <1>1, <2>1, <2>2, <2>3 DEF Queue
  <1>5. Billed(raw)
    BY <1>1 DEF Billed
  <1> QED BY <1>1, <1>2, <1>3, <1>4, <1>5 DEF StreamInv

\* Nothing waits exactly when the reader is where the events lead.
LEMMA NothingWaits ==
  ASSUME Queue, phase # "over", out = <<>>
  PROVE  Settled(state, <<>>, view) /\ view \in Views
  <1>1. PICK q, w : out = Numbered(q, view.number) /\ Leads(view, q, w) /\ Settled(state, q, w)
    BY DEF Queue
  <1>2. view \in Views /\ IsSeq(q)
    BY <1>1, LeadsEnds DEF Leads
  <1>3. q = <<>>
    BY <1>1, <1>2, NumberedIs DEF Views
  <1>4. w = view
    BY <1>1, <1>3, LeadsEnds
  <1> QED BY <1>1, <1>2, <1>3, <1>4

LEMMA UpstreamAnswersKeeps == ASSUME StreamInv, UpstreamAnswers PROVE StreamInv'
  <1>1. /\ phase = "waiting" /\ phase' = "relaying" /\ state' = [state EXCEPT !.seq = Len(Header)]
        /\ out' = Numbered(Header, 0) /\ raw' = raw /\ view' = view /\ bill' = bill
        /\ provider' = provider
    BY DEF UpstreamAnswers
  <1>2. PICK q, w : /\ out = Numbered(q, view.number) /\ Leads(view, q, w)
                    /\ Settled(state, q, w)
    BY <1>1 DEF StreamInv, Queue
  <1>3. view = NoView /\ state = NewState
    BY <1>1, <1>2, LeadsEnds DEF Settled
  <1>4. PICK x : Leads(NoView, Header, x) /\ Relaying(x, <<>>, [i \in Calls |-> <<>>], <<>>)
    BY HeaderLeads
  <1>5. Len(Header) \in Nat /\ x.number = Len(Header)
    <2>1. x.number = NoView.number + Len(Header) /\ Len(Header) \in Nat /\ NoView.number = 0
      BY <1>4, LeadsNumber, LeadsEnds DEF NoView
    <2> DEFINE n == Len(Header)
    <2>2. n \in Nat /\ x.number = 0 + n
      BY <2>1
    <2> HIDE DEF n
    <2>3. x.number = n
      BY <2>2
    <2> QED BY <2>2, <2>3 DEF n
  <1> DEFINE n == Len(Header)
  <1>6. /\ state' \in States /\ state'.seq = n
        /\ state'.text = state.text /\ state'.args = state.args /\ state'.usage = state.usage
        /\ state'.order = state.order
    <2>1. n \in Nat /\ state' = [state EXCEPT !.seq = n] /\ state \in States
      BY <1>1, <1>5 DEF StreamInv, TypeInv
    <2> HIDE DEF n
    <2> QED BY <2>1 DEF States
  <1>7. state.text = <<>> /\ state.order = <<>> /\ state.args = [i \in Calls |-> <<>>]
    BY <1>3 DEF NewState
  <1>8. Settled(state, Header, x)'
    BY <1>1, <1>4, <1>5, <1>6, <1>7 DEF Settled
  <1>9. Queue'
    <2>1. out' = Numbered(Header, view'.number) /\ Leads(view', Header, x)
      BY <1>1, <1>3, <1>4 DEF NoView
    <2> QED BY <1>1, <1>8, <2>1 DEF Queue
  <1>10. TypeInv'
    BY <1>1, <1>6 DEF StreamInv, TypeInv
  <1>11. Kept(state, raw)'
    BY <1>1, <1>6 DEF StreamInv, Kept
  <1>12. Billed(raw)'
    BY <1>1 DEF StreamInv, Billed, ParsedUsage
  <1> QED BY <1>9, <1>10, <1>11, <1>12 DEF StreamInv

LEMMA FeedKeeps == ASSUME StreamInv, NEW c \in Chunks, Feed(c) PROVE StreamInv'
  <1>1. /\ phase = "relaying" /\ phase' = phase /\ raw' = Append(raw, c)
        /\ state' = Fed(state, c) /\ out' = Numbered(FedEvents(state, c), state.seq)
        /\ out = <<>> /\ view' = view /\ bill' = bill /\ provider' = provider
    BY DEF Feed
  <1>2. raw \in Seq(Chunks) /\ state \in States /\ Kept(state, raw) /\ Queue /\ Billed(raw)
    BY DEF StreamInv, TypeInv
  <1>3. Settled(state, <<>>, view) /\ view \in Views
    BY <1>1, <1>2, NothingWaits
  <1>4. view.number = state.seq /\ Relaying(view, state.order, state.args, state.text)
    BY <1>1, <1>3 DEF Settled
  <1>5. c \in ChunkType /\ \A d \in Chunks : d \in ChunkType
    BY StreamAssumption
  <1>6. PICK x : /\ Leads(view, FedEvents(state, c), x)
                 /\ Relaying(x, Fed(state, c).order, Fed(state, c).args, Fed(state, c).text)
    BY <1>3, <1>4, <1>5, ChunkLeads
  <1>7. \A i \in Calls : Fed(state, c).args[i] = state.args[i] \o ChunkArguments(c, i)
    BY <1>3, <1>4, <1>5, ChunkLeads
  <1>8. \A d \in Chunks, i \in Calls : ChunkArguments(d, i) \in Seq(Arguments)
    BY <1>3, <1>4, <1>5, ChunkLeads
  <1>9. /\ state'.seq = state.seq + Len(FedEvents(state, c))
        /\ state'.text = state.text \o Single(c.content)
        /\ state'.usage = NotedUsage(state, c)
        /\ state'.finish = IF c.finish = Absent THEN state.finish ELSE c.finish
    BY <1>1 DEF Fed
  <1>10. Len(FedEvents(state, c)) \in Nat
         /\ x.number = view.number + Len(FedEvents(state, c))
    BY <1>6, LeadsNumber, LeadsEnds
  <1>11. x.number = state'.seq /\ state'.seq \in Nat
    BY <1>2, <1>4, <1>9, <1>10 DEF States
  <1>12. Relaying(x, state'.order, state'.args, state'.text)
    BY <1>1, <1>6
  <1>13. state' \in States
    <2>1. state'.usage \in Told
      BY <1>2, <1>5, <1>9 DEF NotedUsage, Told, States, ChunkType
    <2>2. state'.finish \in {"stop", "length"}
      BY <1>2, <1>5, <1>9 DEF States, ChunkType
    <2>3. /\ state'.order \in Seq(Calls) /\ state'.args \in [Calls -> Seq(Arguments)]
          /\ state'.text \in Seq(Texts)
      BY <1>12 DEF Relaying
    <2>4. state' = [seq |-> state'.seq, text |-> state'.text, order |-> state'.order,
                    args |-> state'.args, usage |-> state'.usage, finish |-> state'.finish]
      BY <1>1 DEF Fed
    <2> QED BY <1>11, <2>1, <2>2, <2>3, <2>4 DEF States
  <1>14. TypeInv'
    BY <1>1, <1>2, <1>13 DEF StreamInv, TypeInv
  <1>15. Kept(state, raw)'
    <2>1. state'.text = TextOf(raw')
      BY <1>1, <1>2, <1>9, TextAppended DEF Kept
    <2>2. ASSUME NEW i \in Calls PROVE state'.args[i] = ArgumentsOf(raw', i)
      <3>1. state'.args[i] = state.args[i] \o ChunkArguments(c, i)
        BY <1>1, <1>7
      <3>2. ArgumentsOf(Append(raw, c), i) = ArgumentsOf(raw, i) \o ChunkArguments(c, i)
        BY <1>2, <1>8, ArgumentsAppended
      <3> QED BY <1>1, <1>2, <3>1, <3>2 DEF Kept
    <2>3. Noted(raw', state'.usage)
      BY <1>1, <1>2, <1>9, UsageNoted DEF Kept
    <2> QED BY <2>1, <2>2, <2>3 DEF Kept
  <1>16. Queue'
    <2> DEFINE q == FedEvents(state, c)
    <2>2. out' = Numbered(q, view'.number) /\ Leads(view', q, x)
      BY <1>1, <1>4, <1>6
    <2> HIDE DEF q
    <2>3. PICK r : r = q
      OBVIOUS
    <2>5. phase' = "relaying"
      BY <1>1
    <2>6. \E p, w : /\ out' = Numbered(p, view'.number) /\ Leads(view', p, w)
                    /\ Settled(state, p, w)'
      <3>1. out' = Numbered(r, view'.number) /\ Leads(view', r, x)
        BY <2>2, <2>3
      <3>2. Settled(state, r, x)'
        BY <1>11, <1>12, <2>5 DEF Settled
      <3> QED BY <3>1, <3>2
    <2> QED BY <2>5, <2>6 DEF Queue
  <1>17. Billed(raw)'
    BY <1>1, <1>2 DEF Billed
  <1> QED BY <1>14, <1>15, <1>16, <1>17 DEF StreamInv

LEMMA YieldKeeps == ASSUME StreamInv, Yield PROVE StreamInv'
  <1>1. /\ phase # "over" /\ phase' = phase /\ out # <<>> /\ view' = Read(view, Head(out))
        /\ out' = Tail(out) /\ state' = state /\ raw' = raw /\ bill' = bill
        /\ provider' = provider
    BY DEF Yield, Active
  <1>2. PICK q, w : /\ out = Numbered(q, view.number) /\ Leads(view, q, w)
                    /\ Settled(state, q, w)
    BY <1>1 DEF StreamInv, Queue
  <1>3. view \in Views /\ IsSeq(q) /\ view.number \in Nat
    <2>1. view \in Views
      BY <1>2, LeadsEnds
    <2>2. IsSeq(q)
      BY <1>2 DEF Leads
    <2> QED BY <2>1, <2>2 DEF Views
  <1>4. q # <<>> /\ Head(out) = [seq |-> view.number, event |-> Head(q)]
        /\ Tail(out) = Numbered(Tail(q), view.number + 1)
    BY <1>1, <1>2, <1>3, NumberedIs
  <1> DEFINE e == Head(q)
             t == Tail(q)
  <1>5. Legal(view, e) /\ Leads(Got(view, e), t, w)
    BY <1>2, <1>4, LeadsHead
  <1> HIDE DEF e, t
  <1>6. view' = Got(view, e)
    BY <1>1, <1>4 DEF Got, e
  <1>7. view'.number = view.number + 1
    BY <1>3, <1>5, <1>6, GotIs DEF Next1
  <1>8. out' = Numbered(t, view'.number) /\ Leads(view', t, w)
    BY <1>1, <1>4, <1>5, <1>6, <1>7 DEF t
  <1>9. Settled(state, t, w)'
    <2>1. phase # "waiting"
      BY <1>2, <1>4 DEF Settled
    <2>2. \A r : Settled(state, q, w) => (Settled(state, r, w))'
      BY <1>1, <2>1 DEF Settled
    <2> QED BY <1>2, <2>2
  <1>10. Queue'
    <2>1. PICK r : out' = Numbered(r, view'.number) /\ Leads(view', r, w) /\ Settled(state, r, w)'
      <3>1. \E r : r = t /\ out' = Numbered(r, view'.number) /\ Leads(view', r, w)
        BY <1>8
      <3>2. \A r : Settled(state, r, w)'
        <4>1. phase # "waiting"
          BY <1>2, <1>4 DEF Settled
        <4> QED BY <1>1, <1>2, <4>1 DEF Settled
      <3> QED BY <3>1, <3>2
    <2> QED BY <1>1, <2>1 DEF Queue
  <1>11. TypeInv' /\ Kept(state, raw)'
    BY <1>1 DEF StreamInv, TypeInv, Kept
  <1>12. Billed(raw)'
    BY <1>1 DEF StreamInv, Billed, ParsedUsage
  <1> QED BY <1>10, <1>11, <1>12 DEF StreamInv

LEMMA UpstreamEndsKeeps == ASSUME StreamInv, UpstreamEnds PROVE StreamInv'
  <1>1. /\ phase = "relaying" /\ phase' = "closing" /\ out = <<>>
        /\ out' = Numbered(FinalEvents(state), state.seq)
        /\ state' = [state EXCEPT !.seq = @ + Len(FinalEvents(state))]
        /\ raw' = raw /\ view' = view /\ bill' = bill /\ provider' = provider
    BY DEF UpstreamEnds
  <1>2. raw \in Seq(Chunks) /\ state \in States /\ Kept(state, raw) /\ Queue /\ Billed(raw)
    BY DEF StreamInv, TypeInv
  <1>3. Settled(state, <<>>, view) /\ view \in Views
    BY <1>1, <1>2, NothingWaits
  <1>4. view.number = state.seq /\ Relaying(view, state.order, state.args, state.text)
    BY <1>1, <1>3 DEF Settled
  <1>5. state.usage \in Told
    BY <1>2 DEF States
  <1> DEFINE q == FinalEvents(state)
             n == state.seq + Len(q)
  <1>6. PICK x : /\ Leads(view, q, x) /\ x.status = "over" /\ x.output = Output(state)
                 /\ x.usage = state.usage
    BY <1>3, <1>4, <1>5, FinalLeads
  <1>7. n \in Nat /\ state' = [state EXCEPT !.seq = n]
    BY <1>1, <1>2, <1>6, LeadsEnds DEF States
  <1>8. out' = Numbered(q, view'.number) /\ Leads(view', q, x)
    BY <1>1, <1>4, <1>6
  <1> HIDE DEF q, n
  <1>9. /\ state' \in States /\ state'.text = state.text /\ state'.args = state.args
        /\ state'.usage = state.usage
    BY <1>2, <1>7 DEF States
  <1>10. Output(state') = Output(state)
    BY <1>9 DEF Output
  <1>11. Queue'
    <2>1. PICK r : out' = Numbered(r, view'.number) /\ Leads(view', r, x)
      BY <1>8
    <2>2. Settled(state, r, x)'
      BY <1>1, <1>6, <1>9, <1>10 DEF Settled
    <2> QED BY <1>1, <2>1, <2>2 DEF Queue
  <1>12. TypeInv' /\ Kept(state, raw)'
    BY <1>1, <1>2, <1>9 DEF TypeInv, Kept
  <1>13. Billed(raw)'
    BY <1>1, <1>2 DEF Billed
  <1> QED BY <1>11, <1>12, <1>13 DEF StreamInv

\* Wherever the reader is when the stream stops, it was told all or nothing.
LEMMA StopsAnywhere ==
  ASSUME StreamInv, phase # "over"
  PROVE  /\ view.status = "over" => view.output = Output(state) /\ view.usage = state.usage
         /\ view.status \in {"none", "open", "over"} /\ view \in Views
         /\ phase = "closing" /\ out = <<>> => view.status = "over"
         /\ phase \in {"waiting", "relaying"} /\ out = <<>> => view.status \in {"none", "open"}
  <1>1. PICK q, w : /\ out = Numbered(q, view.number) /\ Leads(view, q, w)
                    /\ Settled(state, q, w)
    BY DEF StreamInv, Queue
  <1>2. view \in Views
    BY <1>1, LeadsEnds
  <1>3. phase = "waiting" => w.status = "none"
    BY <1>1 DEF Settled, NoView
  <1>4. phase = "relaying" => w.status = "open"
    BY <1>1 DEF Settled, Relaying
  <1>5. phase = "closing" => /\ w.status = "over" /\ w.output = Output(state)
                             /\ w.usage = state.usage
    BY <1>1 DEF Settled
  <1>6. view.status \in {"none", "open", "over", "broken"}
    BY <1>2 DEF Views
  <1>7. view.status \in {"over", "broken"} => w = view
    BY <1>1, NothingFollows
  <1>8. ASSUME out = <<>> PROVE w = view
    <2>1. IsSeq(q) /\ view.number \in Nat
      BY <1>1, <1>2 DEF Leads, Views
    <2>2. q = <<>>
      BY <1>1, <1>8, <2>1, NumberedIs
    <2> QED BY <1>1, <2>2, LeadsEnds
  <1>9. phase \in {"waiting", "relaying", "closing"}
    BY DEF StreamInv, TypeInv
  <1>10. w.status \in {"none", "open", "over"}
    BY <1>3, <1>4, <1>5, <1>9
  <1>11. view.status \in {"none", "open", "over"}
    BY <1>6, <1>7, <1>10
  <1>12. view.status = "over" => phase = "closing" /\ w = view
    BY <1>3, <1>4, <1>7, <1>9
  <1> QED BY <1>2, <1>3, <1>4, <1>5, <1>8, <1>11, <1>12

\* The actions that end the stream leave the state and the chunks as they are.
LEMMA OverKeeps ==
  ASSUME StreamInv, phase # "over", phase' = "over", bill' = "due", out' = <<>>,
         state' = state, raw' = raw, view'.output = view.output, view'.usage = view.usage,
         view'.status \in {"over", "broken"}, view'.status = "over" => view.status = "over"
  PROVE  StreamInv'
  <1>1. TypeInv' /\ Kept(state, raw)'
    BY DEF StreamInv, TypeInv, Kept
  <1>2. Billed(raw)'
    BY DEF Billed
  <1>3. view.status = "over" => view.output = Output(state) /\ view.usage = state.usage
    BY StopsAnywhere
  <1>4. Queue'
    BY <1>3 DEF Queue
  <1> QED BY <1>1, <1>2, <1>4 DEF StreamInv

LEMMA FailsKeeps == ASSUME StreamInv, Fails PROVE StreamInv'
  <1>1. /\ phase # "over" /\ phase' = "over" /\ bill' = "due" /\ out' = <<>>
        /\ state' = state /\ raw' = raw /\ view' = [view EXCEPT !.status = "broken"]
    BY DEF Fails, Over
  <1>2. view \in Views
    BY <1>1, StopsAnywhere
  <1>3. view'.status = "broken" /\ view'.output = view.output /\ view'.usage = view.usage
    BY <1>1, <1>2 DEF Views
  <1> QED BY <1>1, <1>3, OverKeeps

LEMMA StreamEndsKeeps == ASSUME StreamInv, StreamEnds PROVE StreamInv'
  <1>1. /\ phase = "closing" /\ phase' = "over" /\ bill' = "due" /\ out = <<>> /\ out' = <<>>
        /\ state' = state /\ raw' = raw /\ view' = view
    BY DEF StreamEnds, Over
  <1>2. view.status = "over"
    BY <1>1, StopsAnywhere
  <1> QED BY <1>1, <1>2, OverKeeps

LEMMA ClientLeavesKeeps == ASSUME StreamInv, ClientLeaves PROVE StreamInv'
  <1>1. /\ phase # "over" /\ phase' = "over" /\ bill' = "due" /\ out' = <<>>
        /\ state' = state /\ raw' = raw
        /\ view' = [view EXCEPT !.status = IF @ = "over" THEN @ ELSE "broken"]
    BY DEF ClientLeaves, Over, Active
  <1>2. view \in Views
    BY <1>1, StopsAnywhere
  <1>3. /\ view'.status = IF view.status = "over" THEN "over" ELSE "broken"
        /\ view'.output = view.output /\ view'.usage = view.usage
    BY <1>1, <1>2 DEF Views
  <1> QED BY <1>1, <1>3, OverKeeps

LEMMA BillUsageKeeps == ASSUME StreamInv, BillUsage PROVE StreamInv'
  <1>1. /\ bill = "due" /\ bill' = ParsedUsage(raw) /\ provider' = provider /\ phase' = phase
        /\ state' = state /\ raw' = raw /\ out' = out /\ view' = view
    BY DEF BillUsage
  <1>2. phase = "over"
    BY <1>1 DEF StreamInv, Billed
  <1>3. TypeInv' /\ Kept(state, raw)' /\ Queue'
    BY <1>1, <1>2 DEF StreamInv, TypeInv, Kept, Queue
  <1>4. Billed(raw)'
    BY <1>1, <1>2 DEF Billed, ParsedUsage
  <1> QED BY <1>3, <1>4 DEF StreamInv

LEMMA StreamStep == StreamInv /\ [Next]_vars => StreamInv'
  <1> SUFFICES ASSUME StreamInv, [Next]_vars PROVE StreamInv'
    OBVIOUS
  <1>1. CASE UpstreamAnswers
    BY <1>1, UpstreamAnswersKeeps
  <1>2. CASE Fails
    BY <1>2, FailsKeeps
  <1>3. CASE Yield
    BY <1>3, YieldKeeps
  <1>4. CASE UpstreamEnds
    BY <1>4, UpstreamEndsKeeps
  <1>5. CASE StreamEnds
    BY <1>5, StreamEndsKeeps
  <1>6. ASSUME NEW c \in Chunks, Feed(c) PROVE StreamInv'
    BY <1>6, FeedKeeps
  <1>7. CASE ClientLeaves
    BY <1>7, ClientLeavesKeeps
  <1>8. CASE BillUsage
    BY <1>8, BillUsageKeeps
  <1>9. CASE UNCHANGED vars
    <2>1. /\ provider' = provider /\ phase' = phase /\ state' = state /\ raw' = raw
          /\ out' = out /\ view' = view /\ bill' = bill
      BY <1>9 DEF vars
    <2>2. TypeInv' /\ Kept(state, raw)' /\ Billed(raw)'
      BY <2>1 DEF StreamInv, TypeInv, Kept, Billed, ParsedUsage
    <2>3. Queue'
      <3>1. CASE phase = "over"
        BY <2>1, <3>1 DEF StreamInv, Queue
      <3>2. CASE phase # "over"
        <4>1. PICK q, w : /\ out = Numbered(q, view.number) /\ Leads(view, q, w)
                          /\ Settled(state, q, w)
          BY <3>2 DEF StreamInv, Queue
        <4>2. Settled(state, q, w)'
          BY <2>1, <4>1 DEF Settled
        <4>3. out' = Numbered(q, view'.number) /\ Leads(view', q, w)
          BY <2>1, <4>1
        <4> QED BY <2>1, <3>2, <4>2, <4>3 DEF Queue
      <3> QED BY <3>1, <3>2
    <2> QED BY <2>2, <2>3 DEF StreamInv
  <1> QED BY <1>1, <1>2, <1>3, <1>4, <1>5, <1>6, <1>7, <1>8, <1>9 DEF Next, Relay

LEMMA StreamAlways == Spec => []StreamInv
  BY StreamInit, StreamStep, PTL DEF Spec

-----------------------------------------------------------------------------
(* The theorems. *)

LEMMA WholeFollows == StreamInv => CompletedIsWhole
  <1> SUFFICES ASSUME StreamInv PROVE CompletedIsWhole
    OBVIOUS
  <1>1. view.status = "over" => view.output = Output(state) /\ view.usage = state.usage
    <2>1. CASE phase = "over"
      BY <2>1 DEF StreamInv, Queue
    <2>2. CASE phase # "over"
      BY <2>2, StopsAnywhere
    <2> QED BY <2>1, <2>2
  <1>2. state.text = SentText /\ \A i \in Calls : state.args[i] = SentArguments(i)
    BY DEF StreamInv, Kept, TextOf, ArgumentsOf, ChunkArguments, SentText, SentArguments
  <1>3. NothingIsLost
    <2>1. Output(state)[0] = state.text
      BY ItemsAre DEF Output
    <2>2. ASSUME NEW i \in Calls PROVE Output(state)[i + 1] = state.args[i]
      <3>1. i + 1 \in Items /\ i + 1 # 0 /\ (i + 1) - 1 = i
        BY ItemsAre
      <3> QED BY <3>1 DEF Output
    <2> QED BY <1>1, <1>2, <2>1, <2>2 DEF NothingIsLost
  <1>4. ReportedIsBilled
    <2> SUFFICES ASSUME view.status = "over", bill \notin {"none", "due"}, provider \notin Foreign
                 PROVE  /\ view.usage \in Usages => bill = view.usage
                        /\ bill # "zero" => view.usage # Absent
      BY DEF ReportedIsBilled
    <2>1. bill = LastUsage(raw)
      BY DEF StreamInv, Billed, ParsedUsage
    <2>2. raw \in Seq(Chunks) /\ Noted(raw, state.usage)
      BY DEF StreamInv, TypeInv, Kept
    <2>3. /\ state.usage \in Usages => LastUsage(raw) = state.usage
          /\ LastUsage(raw) # "zero" => state.usage # Absent
      BY <2>2, LastUsageIs
    <2> QED BY <1>1, <2>1, <2>3
  <1> QED BY <1>3, <1>4 DEF CompletedIsWhole

\* A completed response has all of the text and of the calls' arguments, wherever the chunks
\* cut them, and the usage it tells is the usage that is billed.
THEOREM ResponsesCompletedIsWhole == Spec => []CompletedIsWhole
  BY StreamAlways, WholeFollows, PTL

\* An event the reader may get is a step of the promise.
LEMMA LegalIsPromised ==
  ASSUME NEW e, view \in Views, Legal(view, e), view' = Got(view, e)
  PROVE  Promise!Next
  <1>1. Next1(view, e, view')
    BY GotIs
  <1>2. /\ view'.number = view.number + 1 /\ view.told \in Bodies
        /\ view.item \in [Items -> {"absent", "open", "full", "closed"}]
        /\ view.body \in Bodies
    BY <1>1 DEF Next1, Views
  <1>3. CASE e.type = "created"
    <2>1. /\ view.status = "none" /\ view'.status = "open" /\ view'.item = view.item
          /\ view'.body = view.body /\ view'.told = view.told /\ view'.output = view.output
      BY <1>1, <1>3 DEF Next1, Legal
    <2> QED BY <1>2, <2>1 DEF Promise!Next, Promise!Begin, Promise!Counted
  <1>4. CASE e.type \in {"inProgress", "part", "refusal"}
    <2>1. /\ view.status = "open" /\ view'.status = "open" /\ view'.item = view.item
          /\ view'.body = view.body /\ view'.told = view.told /\ view'.output = view.output
      BY <1>1, <1>4 DEF Next1, Legal
    <2> QED BY <1>2, <2>1 DEF Promise!Next, Promise!Announce, Promise!Counted
  <1>5. CASE e.type = "itemAdded"
    <2> DEFINE i == e.index
    <2>1. /\ i \in Items /\ view.status = "open" /\ view.item[i] = "absent"
          /\ view'.item = [view.item EXCEPT ![i] = "open"] /\ view'.status = view.status
          /\ view'.body = view.body /\ view'.told = view.told /\ view'.output = view.output
      BY <1>1, <1>5 DEF Next1, Legal
    <2> HIDE DEF i
    <2>2. Promise!Add(i)
      BY <1>2, <2>1 DEF Promise!Add, Promise!Counted
    <2> QED BY <2>1, <2>2 DEF Promise!Next
  <1>6. CASE e.type = "delta"
    <2> DEFINE i == e.index
               p == e.data
    <2>1. /\ i \in Items /\ p \in Pieces /\ view.status = "open" /\ view.item[i] = "open"
          /\ view'.body = [view.body EXCEPT ![i] = Append(@, p)] /\ view'.status = view.status
          /\ view'.item = view.item /\ view'.told = view.told /\ view'.output = view.output
      BY <1>1, <1>6 DEF Next1, Legal
    <2> HIDE DEF i, p
    <2>2. Promise!Extend(i, p)
      BY <1>2, <2>1 DEF Promise!Extend, Promise!Counted
    <2> QED BY <2>1, <2>2 DEF Promise!Next, Pieces
  <1>7. CASE e.type = "done"
    <2> DEFINE i == e.index
    <2>1. /\ i \in Items /\ view.status = "open" /\ view.item[i] = "open"
          /\ e.data = view.body[i] /\ view'.item = [view.item EXCEPT ![i] = "full"]
          /\ view'.told = [view.told EXCEPT ![i] = e.data] /\ view'.status = view.status
          /\ view'.body = view.body /\ view'.output = view.output
      BY <1>1, <1>7 DEF Next1, Legal
    <2> HIDE DEF i
    <2>2. Promise!Publish(i)
      BY <1>2, <2>1 DEF Promise!Publish, Promise!Counted
    <2> QED BY <2>1, <2>2 DEF Promise!Next
  <1>8. CASE e.type = "itemDone"
    <2> DEFINE i == e.index
    <2>1. /\ i \in Items /\ view.status = "open" /\ view.item[i] = "full"
          /\ e.data = view.told[i] /\ view'.item = [view.item EXCEPT ![i] = "closed"]
          /\ view'.told = [view.told EXCEPT ![i] = e.data] /\ view'.status = view.status
          /\ view'.body = view.body /\ view'.output = view.output
      BY <1>1, <1>8 DEF Next1, Legal
    <2> HIDE DEF i
    <2>2. view'.told = view.told
      <3>1. view'.told = [view.told EXCEPT ![i] = view.told[i]]
        BY <2>1
      <3>2. view.told \in [Items -> Seq(Pieces)]
        BY <1>2 DEF Bodies
      <3> QED BY <3>1, <3>2
    <2>3. Promise!Close(i)
      BY <1>2, <2>1, <2>2 DEF Promise!Close, Promise!Counted
    <2> QED BY <2>1, <2>3 DEF Promise!Next
  <1>9. CASE e.type = "completed"
    <2>1. /\ view.status = "open" /\ view.item[0] = "closed"
          /\ \A i \in Items : view.item[i] \in {"absent", "closed"}
          /\ view'.status = "over" /\ view'.output = view.told /\ view'.item = view.item
          /\ view'.body = view.body /\ view'.told = view.told
      BY <1>1, <1>9 DEF Next1, Legal
    <2> QED BY <1>2, <2>1 DEF Promise!Next, Promise!Complete, Promise!Counted
  <1>10. e.type \in {"created", "inProgress", "part", "refusal", "itemAdded", "delta", "done",
                     "itemDone", "completed"}
    BY DEF Legal
  <1> QED BY <1>3, <1>4, <1>5, <1>6, <1>7, <1>8, <1>9, <1>10

LEMMA BreakIsPromised ==
  ASSUME view \in Views, view.status \in {"none", "open"},
         view' = [view EXCEPT !.status = "broken"]
  PROVE  Promise!Next
  <1>1. /\ view'.status = "broken" /\ view'.number = view.number /\ view'.item = view.item
        /\ view'.body = view.body /\ view'.told = view.told /\ view'.output = view.output
    BY DEF Views
  <1> QED BY <1>1 DEF Promise!Next, Promise!Break

LEMMA StepIsPromised == StreamInv /\ [Next]_vars => [Promise!Next]_Promise!vars
  <1> SUFFICES ASSUME StreamInv, [Next]_vars PROVE [Promise!Next]_Promise!vars
    OBVIOUS
  <1>1. view' = view => UNCHANGED Promise!vars
    BY DEF Promise!vars
  <1>2. CASE UpstreamAnswers
    BY <1>1, <1>2 DEF UpstreamAnswers
  <1>3. CASE Fails
    <2>1. /\ phase \in {"waiting", "relaying"} /\ out = <<>>
          /\ view' = [view EXCEPT !.status = "broken"]
      BY <1>3 DEF Fails
    <2>2. view \in Views /\ view.status \in {"none", "open"}
      BY <2>1, StopsAnywhere
    <2> QED BY <2>1, <2>2, BreakIsPromised
  <1>4. CASE Yield
    <2>1. phase # "over" /\ out # <<>> /\ view' = Read(view, Head(out))
      BY <1>4 DEF Yield, Active
    <2>2. PICK q, w : /\ out = Numbered(q, view.number) /\ Leads(view, q, w)
                      /\ Settled(state, q, w)
      BY <2>1 DEF StreamInv, Queue
    <2>3. view \in Views /\ IsSeq(q) /\ view.number \in Nat
      <3>1. view \in Views
        BY <2>2, LeadsEnds
      <3>2. IsSeq(q)
        BY <2>2 DEF Leads
      <3> QED BY <3>1, <3>2 DEF Views
    <2>4. q # <<>> /\ Head(out) = [seq |-> view.number, event |-> Head(q)]
      BY <2>1, <2>2, <2>3, NumberedIs
    <2> DEFINE e == Head(q)
    <2>5. Legal(view, e)
      BY <2>2, <2>4, LeadsHead
    <2>6. view' = Got(view, e)
      <3>1. view' = Read(view, [seq |-> view.number, event |-> e])
        BY <2>1, <2>4
      <3> QED BY <3>1 DEF Got
    <2> HIDE DEF e
    <2> QED BY <2>3, <2>5, <2>6, LegalIsPromised
  <1>5. CASE UpstreamEnds
    BY <1>1, <1>5 DEF UpstreamEnds
  <1>6. CASE StreamEnds
    BY <1>1, <1>6 DEF StreamEnds
  <1>7. ASSUME NEW c \in Chunks, Feed(c) PROVE UNCHANGED Promise!vars
    BY <1>1, <1>7 DEF Feed
  <1>8. CASE ClientLeaves
    <2>1. /\ phase # "over"
          /\ view' = [view EXCEPT !.status = IF @ = "over" THEN @ ELSE "broken"]
      BY <1>8 DEF ClientLeaves, Active
    <2>2. view \in Views /\ view.status \in {"none", "open", "over"}
      BY <2>1, StopsAnywhere
    <2>3. CASE view.status = "over"
      <3>1. view' = [view EXCEPT !.status = "over"]
        BY <2>1, <2>3
      <3>2. view' = view
        BY <2>2, <2>3, <3>1 DEF Views
      <3> QED BY <1>1, <3>2
    <2>4. CASE view.status # "over"
      <3>1. view' = [view EXCEPT !.status = "broken"]
        BY <2>1, <2>4
      <3> QED BY <2>2, <2>4, <3>1, BreakIsPromised
    <2> QED BY <2>3, <2>4
  <1>9. CASE BillUsage
    BY <1>1, <1>9 DEF BillUsage
  <1>10. CASE UNCHANGED vars
    BY <1>1, <1>10 DEF vars
  <1> QED BY <1>2, <1>3, <1>4, <1>5, <1>6, <1>7, <1>8, <1>9, <1>10 DEF Next, Relay

\* What the client reads is an item stream: items are opened once, streamed, published as
\* they were streamed and closed before the response is completed, and no number is missing.
THEOREM ResponsesImplementItemStream == Spec => ImplementsItemStream
  <1>1. Init => Promise!Init
    BY DEF Init, NoView, Promise!Init
  <1>2. StreamInv /\ [Next]_vars => [Promise!Next]_Promise!vars
    BY StepIsPromised
  <1> QED BY <1>1, <1>2, StreamAlways, PTL DEF Spec, ImplementsItemStream, Promise!Spec
=============================================================================
