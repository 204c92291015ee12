---------------------------- MODULE WsSessionProofs ----------------------------
(***************************************************************************)
(* Proofs about the message log (LogWriter) and the speech sessions that    *)
(* write to it (WsSession), for any number of sessions, entries and frames. *)
(***************************************************************************)
EXTENDS WsSession, FiniteSetTheorems, SequenceTheorems, TLAPS

-----------------------------------------------------------------------------
(* The message log: the counter is exact and bounded, and files match what   *)
(* became of the entries.                                                   *)

LogIInv == LogTypeOK /\ InflightExact

LEMMA WritesFinite ==
  ASSUME LogTypeOK
  PROVE  IsFiniteSet(Writes) /\ Cardinality(Writes) \in Nat
  <1>1. Writes \subseteq Requests
    BY DEF Writes
  <1> QED BY <1>1, LogAssumption, FS_Subset, FS_CardinalityType

LEMMA LogInitInv == LogInit => LogIInv
  <1> SUFFICES ASSUME LogInit PROVE LogIInv
    OBVIOUS
  <1>1. LogTypeOK
    BY DEF LogInit, LogTypeOK, EntryState
  <1>2. Writes = {}
    BY DEF LogInit, Writes
  <1>3. InflightExact
    BY <1>2, FS_EmptySet, LogAssumption DEF LogInit, InflightExact
  <1> QED BY <1>1, <1>3 DEF LogIInv

\* Entries whose steps touch no write keep the counter exact.
LEMMA SameWritesInv ==
  ASSUME LogIInv, LogTypeOK', Writes' = Writes, inflight' = inflight
  PROVE  LogIInv'
  BY DEF LogIInv, InflightExact

LEMMA StartLogInv ==
  ASSUME LogIInv, NEW e \in Requests, StartLog(e) \/ DropLog(e) \/ OpenFile(e)
  PROVE  LogIInv'
  <1>1. LogTypeOK'
    BY DEF LogIInv, LogTypeOK, EntryState, StartLog, DropLog, OpenFile, Become
  <1>2. Writes' = Writes
    BY DEF LogIInv, LogTypeOK, Writes, StartLog, DropLog, OpenFile, Become
  <1>3. inflight' = inflight
    BY DEF StartLog, DropLog, OpenFile
  <1> QED BY <1>1, <1>2, <1>3, SameWritesInv

\* The test and the increment are one step, so the bound is never passed.
LEMMA EnterLogInv ==
  ASSUME LogIInv, NEW e \in Requests, EnterLog(e)
  PROVE  LogIInv'
  <1>1. LogTypeOK'
    BY DEF LogIInv, LogTypeOK, EntryState, EnterLog, Become
  <1>2. Writes' = Writes \cup {e} /\ e \notin Writes
    BY DEF LogIInv, LogTypeOK, Writes, EnterLog, Become
  <1>3. Cardinality(Writes') = Cardinality(Writes) + 1 /\ Cardinality(Writes) \in Nat
    BY <1>2, WritesFinite, FS_AddElement DEF LogIInv
  <1>4. InflightExact'
    BY <1>3, LogAssumption DEF LogIInv, InflightExact, EnterLog, Admits
  <1> QED BY <1>1, <1>4 DEF LogIInv

LEMMA EndLogInv ==
  ASSUME LogIInv, NEW e \in Requests, CompleteFile(e) \/ LogFails(e)
  PROVE  LogIInv'
  <1>1. LogTypeOK'
    BY DEF LogIInv, LogTypeOK, EntryState, CompleteFile, LogFails, Become
  <1>2. e \in Writes /\ Writes' = Writes \ {e} /\ inflight' = inflight - 1
    BY DEF LogIInv, LogTypeOK, Writes, CompleteFile, LogFails, Become
  <1>3. Cardinality(Writes') = Cardinality(Writes) - 1 /\ Cardinality(Writes) \in Nat
    BY <1>2, WritesFinite, FS_RemoveElement DEF LogIInv
  <1>4. InflightExact'
    BY <1>2, <1>3, LogAssumption DEF LogIInv, InflightExact
  <1> QED BY <1>1, <1>4 DEF LogIInv

LEMMA CancelLogInv ==
  ASSUME LogIInv, CancelLogs
  PROVE  LogIInv'
  <1>1. Cardinality(Writes) \in Nat
    BY WritesFinite DEF LogIInv
  <1>2. LogTypeOK'
    BY <1>1 DEF LogIInv, LogTypeOK, EntryState, CancelLogs
  <1>3. Writes' = {}
    BY DEF CancelLogs, Writes, LogsPending
  <1>4. inflight' = 0
    BY <1>1 DEF LogIInv, InflightExact, CancelLogs
  <1>5. InflightExact'
    BY <1>3, <1>4, FS_EmptySet, LogAssumption DEF InflightExact
  <1> QED BY <1>2, <1>5 DEF LogIInv

LEMMA LogNextInv == LogIInv /\ [LogNext]_logVars => LogIInv'
  <1> SUFFICES ASSUME LogIInv, [LogNext]_logVars PROVE LogIInv'
    OBVIOUS
  <1>1. CASE UNCHANGED logVars
    BY <1>1 DEF logVars, LogIInv, LogTypeOK, InflightExact, Writes
  <1> QED BY <1>1, StartLogInv, EnterLogInv, EndLogInv, CancelLogInv DEF LogNext, LogStep

-----------------------------------------------------------------------------
THEOREM LogSpecInv == LogSpec => []LogIInv
  BY LogInitInv, LogNextInv, PTL DEF LogSpec

\* The counter equals the writes in progress and never passes the limit,
\* whatever fails or is cancelled: no place leaks.
THEOREM LogInflightExact == LogSpec => []InflightExact
  <1>1. LogIInv => InflightExact
    BY DEF LogIInv
  <1> QED BY <1>1, LogSpecInv, PTL

\* A readable file is there exactly for what was written (or cut off late); a
\* broken one only for a write that was cut off.
THEOREM LogFilesMatchEntries == LogSpec => []FilesMatchEntries
  <1>1. LogInit => FilesMatchEntries
    BY DEF LogInit, FilesMatchEntries
  <1>2. LogIInv /\ FilesMatchEntries /\ [LogNext]_logVars => FilesMatchEntries'
    <2> SUFFICES ASSUME LogIInv, FilesMatchEntries, [LogNext]_logVars
                 PROVE  FilesMatchEntries'
      OBVIOUS
    <2> USE DEF LogIInv, LogTypeOK, FilesMatchEntries
    <2>1. CASE UNCHANGED logVars
      BY <2>1 DEF logVars
    <2>2. ASSUME NEW e \in Requests, StartLog(e) \/ EnterLog(e) \/ DropLog(e)
          PROVE  FilesMatchEntries'
      BY <2>2 DEF StartLog, EnterLog, DropLog, Become
    <2>3. ASSUME NEW e \in Requests, OpenFile(e) \/ CompleteFile(e)
          PROVE  FilesMatchEntries'
      BY <2>3 DEF OpenFile, CompleteFile, Become
    <2>4. ASSUME NEW e \in Requests, LogFails(e)
          PROVE  FilesMatchEntries'
      BY <2>4 DEF LogFails, Writes, Become
    <2>5. CASE CancelLogs
      BY <2>5 DEF CancelLogs, LogsPending, Writes
    <2> QED BY <2>1, <2>2, <2>3, <2>4, <2>5 DEF LogNext, LogStep
  <1> QED BY <1>1, <1>2, LogSpecInv, PTL DEF LogSpec

-----------------------------------------------------------------------------
(* What the upstream is due, frame by frame.                                *)

\* Of a nonempty set of positions one is the first.
LEMMA FirstExists ==
  ASSUME NEW n \in Nat, NEW I \in SUBSET (1..n), I # {}
  PROVE  \E m \in I : \A i \in I : m <= i
  <1> DEFINE Upto == {1..i : i \in I}
  <1>1. Upto # {} /\ Upto \subseteq FiniteSubsetsOf(1..n)
    <2>1. \A i \in I : (1..i) \subseteq 1..n
      OBVIOUS
    <2>2. FiniteSubsetsOf(1..n) = SUBSET (1..n)
      <3>1. IsFiniteSet(1..n)
        BY FS_Interval
      <3> QED BY <3>1, FS_FiniteSubsetsOfFinite
    <2>3. \A U \in Upto : U \in SUBSET (1..n)
      BY <2>1
    <2> QED BY <2>2, <2>3
  <1> HIDE DEF Upto
  <1>2. PICK T \in Upto : \A U \in Upto : <<U, T>> \notin StrictSubsetOrdering(1..n)
    BY <1>1, FS_StrictSubsetOrderingWellFounded, WFMin
  <1>3. PICK m \in I : T = 1..m
    BY DEF Upto
  <1>4. ASSUME NEW i \in I, i < m PROVE FALSE
    <2>1. (1..i) \in Upto /\ T \in Upto
      BY <1>3 DEF Upto
    <2>2. (1..i) \subseteq T /\ m \in T /\ m \notin 1..i
      BY <1>3, <1>4
    <2>3. T \subseteq 1..n
      BY <1>3
    <2> QED BY <1>2, <2>1, <2>2, <2>3 DEF StrictSubsetOrdering
  <1> QED BY <1>4

\* What FirstText computes.
LEMMA FirstTextIs ==
  ASSUME NEW q \in Seq(Frames)
  PROVE  /\ FirstText(q) \in 0..Len(q)
         /\ \A j \in 1..Len(q) : IsText(q[j]) => FirstText(q) # 0 /\ FirstText(q) <= j
         /\ FirstText(q) # 0 => IsText(q[FirstText(q)])
  <1> DEFINE I == {i \in 1..Len(q) : IsText(q[i])}
  <1>1. FirstText(q) = IF I # {} THEN Min(I) ELSE 0
    BY DEF FirstText, SelectInSeq
  <1>2. CASE I = {}
    BY <1>1, <1>2
  <1>3. CASE I # {}
    <2>1. \E m \in I : \A i \in I : m <= i
      <3>1. I \in SUBSET (1..Len(q)) /\ Len(q) \in Nat
        OBVIOUS
      <3> HIDE DEF I
      <3> QED BY <1>3, <3>1, FirstExists
    <2>2. Min(I) \in I /\ \A i \in I : Min(I) <= i
      BY <2>1 DEF Min
    <2>3. FirstText(q) \in I /\ \A i \in I : FirstText(q) <= i
      <3> HIDE DEF I
      <3> QED BY <1>1, <1>3, <2>2
    <2> QED BY <2>3
  <1> QED BY <1>2, <1>3

LEMMA FirstTextUnique ==
  ASSUME NEW q \in Seq(Frames), NEW i \in 1..Len(q), IsText(q[i]),
         \A j \in 1..Len(q) : IsText(q[j]) => i <= j
  PROVE  FirstText(q) = i
  <1> QED BY FirstTextIs

-----------------------------------------------------------------------------
PassedOn == Frames \cup {"runCanonical"}

\* The place of the declaration that is taken out, 0 if there is none.
Removed(q) == IF FirstText(q) # 0 /\ q[FirstText(q)] = "meta" THEN FirstText(q) ELSE 0

LEMMA DueIs ==
  ASSUME NEW q \in Seq(Frames)
  PROVE  /\ Due(q) \in Seq(PassedOn)
         /\ Removed(q) = 0 =>
              /\ Len(Due(q)) = Len(q)
              /\ \A j \in 1..Len(q) : Due(q)[j] = Rewritten(q[j])
         /\ Removed(q) # 0 =>
              /\ Removed(q) \in 1..Len(q)
              /\ Len(Due(q)) = Len(q) - 1
              /\ \A j \in 1..(Len(q) - 1) :
                   Due(q)[j] = Rewritten(IF j < Removed(q) THEN q[j] ELSE q[j + 1])
  <1> DEFINE rest == IF Removed(q) # 0 THEN RemoveAt(q, Removed(q)) ELSE q
  <1>1. Due(q) = [j \in DOMAIN rest |-> Rewritten(rest[j])]
    BY FirstTextIs DEF Due, Removed
  <1>2. Removed(q) \in 0..Len(q) /\ Len(q) \in Nat
    BY FirstTextIs DEF Removed
  <1>3. rest \in Seq(Frames)
    BY <1>2 DEF RemoveAt
  <1>4. Removed(q) # 0 =>
              /\ Len(rest) = Len(q) - 1
              /\ \A j \in 1..(Len(q) - 1) :
                   rest[j] = IF j < Removed(q) THEN q[j] ELSE q[j + 1]
    <2> SUFFICES ASSUME Removed(q) # 0
                 PROVE  /\ Len(rest) = Len(q) - 1
                        /\ \A j \in 1..(Len(q) - 1) :
                             rest[j] = IF j < Removed(q) THEN q[j] ELSE q[j + 1]
      OBVIOUS
    <2> DEFINE k == Removed(q)
               a == SubSeq(q, 1, k - 1)
               b == SubSeq(q, k + 1, Len(q))
    <2>1. /\ a \in Seq(Frames) /\ Len(a) = k - 1
          /\ \A j \in 1..(k - 1) : a[j] = q[j]
      BY <1>2
    <2>2. /\ b \in Seq(Frames) /\ Len(b) = Len(q) - k
          /\ \A j \in 1..(Len(q) - k) : b[j] = q[k + j]
      BY <1>2
    <2>3. rest = a \o b
      BY DEF RemoveAt
    <2> HIDE DEF a, b, rest
    <2> QED BY <1>2, <2>1, <2>2, <2>3
  <1>5. \A f \in Frames : Rewritten(f) \in PassedOn
    BY DEF Rewritten, PassedOn
  <1>6. /\ Due(q) \in Seq(PassedOn) /\ Len(Due(q)) = Len(rest)
        /\ \A j \in 1..Len(rest) : Due(q)[j] = Rewritten(rest[j])
    <2> HIDE DEF rest
    <2>1. DOMAIN rest = 1..Len(rest) /\ Len(rest) \in Nat /\ \A j \in 1..Len(rest) : rest[j] \in Frames
      BY <1>3
    <2>2. Due(q) \in [1..Len(rest) -> PassedOn]
      BY <1>1, <1>5, <2>1
    <2>3. Due(q) \in Seq(PassedOn)
      BY <2>1, <2>2, SeqDef
    <2> QED BY <1>1, <2>1, <2>2, <2>3
  <1>7. CASE Removed(q) = 0
    BY <1>6, <1>7
  <1>8. CASE Removed(q) # 0
    <2> HIDE DEF rest
    <2> QED BY <1>2, <1>4, <1>6, <1>8
  <1> QED BY <1>7, <1>8

-----------------------------------------------------------------------------
\* One frame more.
LEMMA FirstTextOfMore ==
  ASSUME NEW q \in Seq(Frames), NEW f \in Frames
  PROVE  FirstText(Append(q, f)) =
           IF FirstText(q) # 0 THEN FirstText(q)
           ELSE IF IsText(f) THEN Len(q) + 1 ELSE 0
  <1> DEFINE r == Append(q, f)
  <1>1. /\ r \in Seq(Frames) /\ Len(r) = Len(q) + 1 /\ Len(q) \in Nat
        /\ \A j \in 1..Len(q) : r[j] = q[j]
        /\ r[Len(q) + 1] = f
    OBVIOUS
  <1> HIDE DEF r
  <1>2. /\ FirstText(q) \in 0..Len(q)
        /\ \A j \in 1..Len(q) : IsText(q[j]) => FirstText(q) # 0 /\ FirstText(q) <= j
        /\ FirstText(q) # 0 => IsText(q[FirstText(q)])
    BY FirstTextIs
  <1>3. /\ FirstText(r) \in 0..Len(r)
        /\ \A j \in 1..Len(r) : IsText(r[j]) => FirstText(r) # 0 /\ FirstText(r) <= j
        /\ FirstText(r) # 0 => IsText(r[FirstText(r)])
    BY <1>1, FirstTextIs
  <1>4. CASE FirstText(q) # 0
    <2>1. IsText(r[FirstText(q)]) /\ FirstText(q) \in 1..Len(q)
      BY <1>1, <1>2, <1>4
    <2>2. FirstText(r) # 0 /\ FirstText(r) <= FirstText(q)
      BY <1>1, <1>3, <2>1
    <2>3. IsText(q[FirstText(r)]) /\ FirstText(r) \in 1..Len(q)
      BY <1>1, <1>3, <2>1, <2>2
    <2> QED BY <1>2, <1>4, <2>2, <2>3 DEF r
  <1>5. CASE FirstText(q) = 0
    <2>1. \A j \in 1..Len(q) : ~IsText(r[j])
      BY <1>1, <1>2, <1>5
    <2> QED BY <1>1, <1>3, <1>5, <2>1 DEF r
  <1> QED BY <1>4, <1>5

LEMMA DueOfMore ==
  ASSUME NEW q \in Seq(Frames), NEW f \in Frames
  PROVE  Due(Append(q, f)) =
           IF f = "meta" /\ FirstText(q) = 0 THEN Due(q)
           ELSE Append(Due(q), Rewritten(f))
  <1> DEFINE r == Append(q, f)
  <1>1. /\ r \in Seq(Frames) /\ Len(r) = Len(q) + 1 /\ Len(q) \in Nat
        /\ \A j \in 1..Len(q) : r[j] = q[j]
        /\ r[Len(q) + 1] = f
    OBVIOUS
  <1>2. FirstText(r) = IF FirstText(q) # 0 THEN FirstText(q)
                       ELSE IF IsText(f) THEN Len(q) + 1 ELSE 0
    BY FirstTextOfMore
  <1>3. Removed(r) = IF f = "meta" /\ FirstText(q) = 0 THEN Len(q) + 1 ELSE Removed(q)
    <2> HIDE DEF r
    <2>1. FirstText(q) \in 0..Len(q)
      BY FirstTextIs
    <2> QED BY <1>1, <1>2, <2>1 DEF Removed, IsText
  <1>4. Removed(q) \in 0..Len(q) /\ (FirstText(q) = 0 => Removed(q) = 0)
    BY FirstTextIs DEF Removed
  <1>5. Rewritten(f) \in PassedOn
    BY DEF Rewritten, PassedOn
  <1> HIDE DEF r
  <1>6. CASE f = "meta" /\ FirstText(q) = 0
    <2>1. /\ Due(r) \in Seq(PassedOn) /\ Len(Due(r)) = Len(q)
          /\ \A j \in 1..Len(q) : Due(r)[j] = Rewritten(q[j])
      BY <1>1, <1>3, <1>6, DueIs
    <2>2. /\ Due(q) \in Seq(PassedOn) /\ Len(Due(q)) = Len(q)
          /\ \A j \in 1..Len(q) : Due(q)[j] = Rewritten(q[j])
      BY <1>4, <1>6, DueIs
    <2>3. Due(r) = Due(q)
      BY <2>1, <2>2, SeqEqual
    <2> QED BY <1>6, <2>3 DEF r
  <1>7. CASE ~(f = "meta" /\ FirstText(q) = 0)
    <2> DEFINE d == Due(q)
               e == Append(d, Rewritten(f))
    <2>1. Removed(r) = Removed(q)
      BY <1>3, <1>7
    <2>2. d \in Seq(PassedOn) /\ Due(r) \in Seq(PassedOn)
      BY <1>1, DueIs
    <2>3. /\ e \in Seq(PassedOn) /\ Len(e) = Len(d) + 1
          /\ \A j \in 1..Len(d) : e[j] = d[j]
          /\ e[Len(d) + 1] = Rewritten(f)
      BY <1>5, <2>2
    <2> HIDE DEF d, e
    <2>4. CASE Removed(q) = 0
      <3>1. Len(d) = Len(q) /\ \A j \in 1..Len(q) : d[j] = Rewritten(q[j])
        BY <2>4, DueIs DEF d
      <3>2. Len(Due(r)) = Len(q) + 1 /\ \A j \in 1..(Len(q) + 1) : Due(r)[j] = Rewritten(r[j])
        BY <1>1, <2>1, <2>4, DueIs
      <3>3. \A j \in 1..Len(e) : Due(r)[j] = e[j]
        BY <1>1, <2>3, <3>1, <3>2
      <3>4. Due(r) = e
        BY <1>1, <2>2, <2>3, <3>1, <3>2, <3>3, SeqEqual
      <3> QED BY <1>7, <3>4 DEF r, d, e
    <2>5. CASE Removed(q) # 0
      <3>1. /\ Len(d) = Len(q) - 1
            /\ \A j \in 1..(Len(q) - 1) :
                 d[j] = Rewritten(IF j < Removed(q) THEN q[j] ELSE q[j + 1])
        BY <2>5, DueIs DEF d
      <3>2. /\ Len(Due(r)) = Len(q)
            /\ \A j \in 1..Len(q) :
                 Due(r)[j] = Rewritten(IF j < Removed(q) THEN r[j] ELSE r[j + 1])
        BY <1>1, <2>1, <2>5, DueIs
      <3>3. \A j \in 1..Len(e) : Due(r)[j] = e[j]
        <4>1. Len(e) = Len(q) /\ Removed(q) \in 1..Len(q)
          BY <1>1, <1>4, <2>3, <2>5, <3>1
        <4>2. ASSUME NEW j \in 1..(Len(q) - 1) PROVE Due(r)[j] = d[j]
          <5>1. Due(r)[j] = Rewritten(IF j < Removed(q) THEN r[j] ELSE r[j + 1])
            BY <1>1, <3>2
          <5>2. d[j] = Rewritten(IF j < Removed(q) THEN q[j] ELSE q[j + 1])
            BY <3>1
          <5>3. r[j] = q[j] /\ r[j + 1] = q[j + 1]
            BY <1>1
          <5> QED BY <5>1, <5>2, <5>3
        <4>3. Due(r)[Len(q)] = Rewritten(f)
          BY <1>1, <3>2, <4>1
        <4> QED BY <1>1, <2>3, <3>1, <4>1, <4>2, <4>3
      <3>4. Due(r) = e
        BY <1>1, <2>2, <2>3, <3>1, <3>2, <3>3, SeqEqual
      <3> QED BY <1>7, <3>4 DEF r, d, e
    <2> QED BY <2>4, <2>5
  <1> QED BY <1>6, <1>7

\* What is due does not change under later frames: of the first frames it is a
\* prefix of what is due for all of them.
LEMMA DueOfPrefix ==
  ASSUME NEW q \in Seq(Frames), NEW n \in 0..Len(q)
  PROVE  IsPrefix(Due(SubSeq(q, 1, n)), Due(q))
  <1> DEFINE p == SubSeq(q, 1, n)
  <1>1. p \in Seq(Frames) /\ Len(p) = n /\ Len(q) \in Nat /\ \A j \in 1..n : p[j] = q[j]
    BY SubSeqProperties
  <1> HIDE DEF p
  <1>2. /\ FirstText(q) \in 0..Len(q)
        /\ \A j \in 1..Len(q) : IsText(q[j]) => FirstText(q) # 0 /\ FirstText(q) <= j
        /\ FirstText(q) # 0 => IsText(q[FirstText(q)])
    BY FirstTextIs
  <1>3. /\ FirstText(p) \in 0..n
        /\ \A j \in 1..n : IsText(p[j]) => FirstText(p) # 0 /\ FirstText(p) <= j
        /\ FirstText(p) # 0 => IsText(p[FirstText(p)])
    BY <1>1, FirstTextIs
  <1>4. /\ Len(Due(p)) <= Len(Due(q)) /\ Due(p) \in Seq(PassedOn) /\ Due(q) \in Seq(PassedOn)
        /\ \A j \in 1..Len(Due(p)) : Due(p)[j] = Due(q)[j]
    <2>1. Removed(p) = Removed(q) \/ (Removed(p) = 0 /\ Removed(q) > n)
      <3>1. CASE FirstText(p) # 0
        <4>1. FirstText(q) = FirstText(p)
          BY <1>1, <1>2, <1>3, <3>1
        <4> QED BY <1>1, <1>3, <3>1, <4>1 DEF Removed
      <3>2. CASE FirstText(p) = 0
        <4>1. FirstText(q) = 0 \/ FirstText(q) > n
          BY <1>1, <1>2, <1>3, <3>2
        <4> QED BY <3>2, <4>1 DEF Removed
      <3> QED BY <3>1, <3>2
    <2>2. Removed(p) \in 0..n /\ Removed(q) \in 0..Len(q)
      BY <1>2, <1>3 DEF Removed
    <2>3. CASE Removed(p) = 0
      <3>1. /\ Due(p) \in Seq(PassedOn) /\ Len(Due(p)) = n
            /\ \A j \in 1..n : Due(p)[j] = Rewritten(p[j])
        BY <1>1, <2>3, DueIs
      <3>2. CASE Removed(q) = 0
        BY <1>1, <3>1, <3>2, DueIs
      <3>3. CASE Removed(q) > n
        <4>1. /\ Due(q) \in Seq(PassedOn) /\ Len(Due(q)) = Len(q) - 1
              /\ \A j \in 1..(Len(q) - 1) :
                   Due(q)[j] = Rewritten(IF j < Removed(q) THEN q[j] ELSE q[j + 1])
          BY <2>2, <3>3, DueIs
        <4> QED BY <1>1, <2>2, <3>1, <3>3, <4>1
      <3> QED BY <2>1, <2>3, <3>2, <3>3
    <2>4. CASE Removed(p) # 0
      <3>1. /\ Due(p) \in Seq(PassedOn) /\ Len(Due(p)) = n - 1
            /\ \A j \in 1..(n - 1) :
                 Due(p)[j] = Rewritten(IF j < Removed(p) THEN p[j] ELSE p[j + 1])
        BY <1>1, <2>4, DueIs
      <3>2. Removed(q) = Removed(p)
        BY <2>1, <2>4
      <3>3. /\ Due(q) \in Seq(PassedOn) /\ Len(Due(q)) = Len(q) - 1
            /\ \A j \in 1..(Len(q) - 1) :
                 Due(q)[j] = Rewritten(IF j < Removed(p) THEN q[j] ELSE q[j + 1])
        BY <2>4, <3>2, DueIs
      <3>4. ASSUME NEW j \in 1..(n - 1) PROVE Due(p)[j] = Due(q)[j]
        <4>1. p[j] = q[j] /\ p[j + 1] = q[j + 1]
          BY <1>1
        <4>2. Due(p)[j] = Rewritten(IF j < Removed(p) THEN p[j] ELSE p[j + 1])
          BY <3>1
        <4>3. Due(q)[j] = Rewritten(IF j < Removed(p) THEN q[j] ELSE q[j + 1])
          BY <1>1, <3>3
        <4> QED BY <4>1, <4>2, <4>3
      <3> QED BY <1>1, <2>2, <3>1, <3>3, <3>4
    <2> QED BY <2>3, <2>4
  <1> DEFINE d == Due(p)
             e == Due(q)
  <1> HIDE DEF d, e
  <1>5. /\ d \in Seq(PassedOn) /\ e \in Seq(PassedOn) /\ Len(d) <= Len(e)
        /\ \A j \in 1..Len(d) : d[j] = e[j]
    BY <1>4 DEF d, e
  <1>6. SubSeq(d, 1, Len(d)) = SubSeq(e, 1, Len(d))
    <2>1. /\ SubSeq(d, 1, Len(d)) \in Seq(PassedOn)
          /\ Len(SubSeq(d, 1, Len(d))) = Len(d)
          /\ \A j \in 1..Len(d) : SubSeq(d, 1, Len(d))[j] = d[j]
      BY <1>5
    <2>2. /\ SubSeq(e, 1, Len(d)) \in Seq(PassedOn)
          /\ Len(SubSeq(e, 1, Len(d))) = Len(d)
          /\ \A j \in 1..Len(d) : SubSeq(e, 1, Len(d))[j] = e[j]
      BY <1>5
    <2> QED BY <1>5, <2>1, <2>2, SeqEqual
  <1> QED BY <1>5, <1>6 DEF IsPrefix, d, e, p

-----------------------------------------------------------------------------
(* Sessions: types, and what the steps of a session do to the message log.  *)

ConnTypeOK ==
  /\ phase \in [Sessions -> {"idle", "refused", "connecting", "open", "finishing", "ended"}]
  /\ client \in [Sessions -> {"there", "left"}]
  /\ upstream \in [Sessions -> {"none", "open", "closed", "broken"}]
  /\ up \in [Sessions -> {"off", "receive", "send", "close", "done", "raised", "cancelled"}]
  /\ down \in [Sessions -> {"off", "run", "done", "raised", "disconnect", "cancelled"}]
  /\ outcome \in [Sessions -> {"none", "returned", "disconnect", "error"}]
  /\ bill \in [Sessions -> {"none", "price", "usage", "log", "deduct", "done"}]
  /\ logged \subseteq Sessions
  /\ proc \in {"up", "draining", "down", "killed"}

DataTypeOK ==
  /\ sent \in [Sessions -> Seq(Frames)]
  /\ taken \in [Sessions -> Nat]
  /\ hook \in [Sessions -> {"first", "declared", "undeclared"}]
  /\ got \in [Sessions -> Seq(PassedOn)]
  /\ pushed \in [Sessions -> Nat]
  /\ shown \in [Sessions -> Nat]

\* Only what was sent is taken, and a frame is passed on only if one was taken.
TakenWasSent ==
  \A s \in Sessions :
    /\ taken[s] <= Len(sent[s])
    /\ up[s] = "send" => taken[s] > 0

SessionTypeOK == ConnTypeOK /\ DataTypeOK /\ TakenWasSent

\* The pumps run only while the session is open; the bill is worked on exactly
\* while it is finishing; and WebSocketDisconnect was raised for an answer that
\* was still to be shown.
Stages ==
  \A s \in Sessions :
    /\ phase[s] \in {"idle", "refused", "connecting"} =>
         upstream[s] = "none" /\ bill[s] = "none" /\ up[s] = "off"
    /\ phase[s] = "finishing" <=> bill[s] \in {"price", "usage", "log", "deduct"}
    /\ down[s] = "disconnect" => shown[s] < pushed[s]
    /\ phase[s] = "refused" => bill[s] = "none"

\* A process that went has no session and, unless it was cut off, waits for no
\* log task and has cancelled none.
Gone ==
  /\ proc \in {"down", "killed"} => \A s \in Sessions : ~Active(s)
  /\ proc # "killed" => \A e \in Requests : entry[e] # "cancelled"
  /\ proc = "down" => LogsPending = {}

SessionStep(s) ==
  \/ Refuse(s) \/ Accept(s) \/ Connect(s) \/ ConnectFails(s)
  \/ ClientLeaves(s) \/ UpstreamSends(s) \/ UpstreamEnds(s, "closed") \/ UpstreamEnds(s, "broken")
  \/ (\E f \in Frames : ClientSends(s, f))

\* Steps of the pumps.
PumpStep(s) ==
  /\ phase[s] = "open"
  /\ Receive(s) \/ Send(s) \/ SeeDisconnect(s) \/ CloseUpstream(s) \/ Show(s) \/ UpstreamOver(s)

\* Steps that end a session.
EndStep(s) == Finish(s) \/ Price(s) \/ SaveUsage(s) \/ Settle(s)

ProcessStep == StopAccepting \/ Drained \/ DrainTimesOut

LogTaskStep ==
  \/ \E e \in Requests : WriteLog(e)
  \/ \E e \in Requests \ Sessions : LogRequest(e)

LEMMA StepCases ==
  ASSUME Next
  PROVE  \/ \E s \in Sessions : SessionStep(s) \/ PumpStep(s) \/ EndStep(s) \/ SaveLog(s)
         \/ ProcessStep \/ LogTaskStep
  BY DEF Next, SessionStep, PumpStep, EndStep, ProcessStep, LogTaskStep, Handler, UpPump,
         DownPump, Peers, Finalize

-----------------------------------------------------------------------------
(* Sessions implement the log's environment.                                *)

\* A step of the sessions is a step of the log or leaves it alone.
LEMMA LogRefinesStep == [Next]_vars => [LogNext]_logVars
  <1> SUFFICES ASSUME [Next]_vars PROVE [LogNext]_logVars
    OBVIOUS
  <1>1. CASE UNCHANGED vars
    BY <1>1 DEF vars, logVars
  <1>2. ASSUME NEW s \in Sessions, SessionStep(s) \/ EndStep(s)
        PROVE  UNCHANGED logVars
    BY <1>2 DEF SessionStep, Refuse, Accept, Connect, ConnectFails, ClientLeaves,
         UpstreamSends, UpstreamEnds, ClientSends, EndStep, Finish, Price, SaveUsage, Settle
  <1>3. ASSUME NEW s \in Sessions, PumpStep(s)
        PROVE  UNCHANGED logVars
    BY <1>3 DEF PumpStep, Receive, Send, SeeDisconnect, CloseUpstream, Show, UpstreamOver
  <1>4. ASSUME NEW s \in Sessions, SaveLog(s) PROVE LogNext
    BY <1>4, SessionAssumption DEF SaveLog, LogNext
  <1>5. ASSUME LogTaskStep PROVE LogNext
    BY <1>5 DEF LogTaskStep, LogRequest, WriteLog, LogNext
  <1>6. ASSUME ProcessStep PROVE LogNext \/ UNCHANGED logVars
    BY <1>6 DEF ProcessStep, StopAccepting, Drained, DrainTimesOut, LogNext
  <1> QED BY <1>1, <1>2, <1>3, <1>4, <1>5, <1>6, StepCases

\* The log of a process with sessions behaves as LogWriter specifies, whatever
\* starts its entries and whenever a shutdown cancels them.
THEOREM SessionsImplementLog == Spec => LogSpec
  <1>1. Init => LogInit
    BY DEF Init
  <1> QED BY <1>1, LogRefinesStep, PTL DEF Spec, LogSpec

\* With sessions: no place of the log's counter leaks.
THEOREM SessionInflightExact == Spec => []InflightExact
  BY SessionsImplementLog, LogInflightExact, PTL

LEMMA SessionLogTypes == Spec => []LogTypeOK
  <1>1. LogIInv => LogTypeOK
    BY DEF LogIInv
  <1> QED BY <1>1, SessionsImplementLog, LogSpecInv, PTL

-----------------------------------------------------------------------------
(* The end of a session and of the process.                                 *)

SessionInv == SessionTypeOK /\ LogTypeOK /\ Stages /\ SessionIsBilled /\ Gone

LEMMA SessionInitInv == Init => SessionInv
  <1> SUFFICES ASSUME Init PROVE SessionInv
    OBVIOUS
  <1>1. SessionTypeOK
    BY EmptySeq DEF Init, SessionTypeOK, ConnTypeOK, DataTypeOK, TakenWasSent
  <1>2. LogTypeOK /\ LogsPending = {}
    BY DEF Init, LogInit, LogTypeOK, EntryState, LogsPending, Writes
  <1>3. Stages /\ SessionIsBilled /\ Gone
    BY <1>2 DEF Init, LogInit, Stages, SessionIsBilled, Gone
  <1> QED BY <1>1, <1>2, <1>3 DEF SessionInv

\* Steps of which the message log, the bill and the process know nothing.
LEMMA LogUntouched ==
  ASSUME SessionInv, UNCHANGED logVars, UNCHANGED proc,
         \A s \in Sessions : Active(s)' => Active(s)
         \/ proc = "up"
  PROVE  LogTypeOK' /\ Gone'
  BY DEF SessionInv, LogTypeOK, Gone, Active, LogsPending, Writes, logVars

LEMMA SessionStepInv ==
  ASSUME SessionInv, NEW s \in Sessions, SessionStep(s)
  PROVE  SessionInv'
  <1> USE DEF SessionStep, Refuse, Accept, Connect, ConnectFails, ClientLeaves,
        UpstreamSends, UpstreamEnds, ClientSends, connVars, dataVars, billVars
  <1>1. SessionTypeOK'
    <2>1. ConnTypeOK'
      BY DEF SessionInv, SessionTypeOK, ConnTypeOK
    <2>2. DataTypeOK' /\ TakenWasSent'
      <3>1. ASSUME NEW f \in Frames, ClientSends(s, f)
            PROVE  DataTypeOK' /\ TakenWasSent'
        <4>1. /\ Append(sent[s], f) \in Seq(Frames)
              /\ Len(Append(sent[s], f)) = Len(sent[s]) + 1 /\ Len(sent[s]) \in Nat
          BY AppendProperties DEF SessionInv, SessionTypeOK, DataTypeOK
        <4> QED BY <3>1, <4>1 DEF SessionInv, SessionTypeOK, DataTypeOK, TakenWasSent
      <3>2. CASE UNCHANGED <<sent, taken, hook, got, shown>>
        <4>1. DataTypeOK'
          <5>1. pushed' \in [Sessions -> Nat]
            BY DEF SessionInv, SessionTypeOK, DataTypeOK
          <5> QED BY ONLY <3>2, <5>1, SessionInv DEF SessionInv, SessionTypeOK, DataTypeOK
        <4>2. \A t \in Sessions : up'[t] = "send" => up[t] = "send"
          BY DEF SessionInv, SessionTypeOK, ConnTypeOK
        <4> QED BY <3>2, <4>1, <4>2 DEF SessionInv, SessionTypeOK, TakenWasSent
      <3> QED BY <3>1, <3>2
    <2> QED BY <2>1, <2>2 DEF SessionTypeOK
  <1> USE DEF SessionInv, SessionTypeOK, ConnTypeOK, DataTypeOK
  <1>2. Stages'
    BY DEF Stages
  <1>3. SessionIsBilled'
    BY DEF Stages, SessionIsBilled, Active
  <1>4. LogTypeOK' /\ Gone'
    <2>1. (\A t \in Sessions : Active(t)' => Active(t)) \/ proc = "up"
      BY DEF Active
    <2>2. UNCHANGED logVars /\ UNCHANGED proc
      BY DEF logVars
    <2> QED BY <2>1, <2>2, LogUntouched
  <1> QED BY <1>1, <1>2, <1>3, <1>4

LEMMA PumpStepInv ==
  ASSUME SessionInv, NEW s \in Sessions, PumpStep(s)
  PROVE  SessionInv'
  <1> USE DEF PumpStep, Receive, Send, SeeDisconnect, CloseUpstream, Show, UpstreamOver,
        connVars, dataVars, billVars
  <1>1. SessionTypeOK'
    <2>1. ConnTypeOK'
      BY DEF SessionInv, SessionTypeOK, ConnTypeOK
    <2>2. CASE Send(s)
      <3>1. sent[s][taken[s]] \in Frames
        BY <2>2, ElementOfSeq, LenProperties
        DEF SessionInv, SessionTypeOK, DataTypeOK, TakenWasSent
      <3>2. Append(got[s], Rewritten(sent[s][taken[s]])) \in Seq(PassedOn)
        BY <3>1, AppendProperties
        DEF SessionInv, SessionTypeOK, DataTypeOK, Rewritten, PassedOn
      <3>3. DataTypeOK'
        <4>1. got' = [got EXCEPT ![s] = Append(got[s], Rewritten(sent[s][taken[s]]))] \/ UNCHANGED got
          BY <2>2
        <4>2. got' \in [Sessions -> Seq(PassedOn)]
          BY ONLY <3>2, <4>1, SessionInv DEF SessionInv, SessionTypeOK, DataTypeOK
        <4>3. UNCHANGED <<sent, taken, hook, pushed, shown>>
          BY <2>2
        <4> QED BY ONLY <4>2, <4>3, SessionInv DEF SessionInv, SessionTypeOK, DataTypeOK
      <3>4. TakenWasSent'
        BY <2>2 DEF SessionInv, SessionTypeOK, ConnTypeOK, TakenWasSent
      <3> QED BY <2>1, <3>3, <3>4 DEF SessionTypeOK
    <2>3. CASE UNCHANGED got
      <3>1. DataTypeOK'
        <4>1. taken' \in [Sessions -> Nat] /\ shown' \in [Sessions -> Nat]
          <5>1. taken \in [Sessions -> Nat] /\ shown \in [Sessions -> Nat]
            BY DEF SessionInv, SessionTypeOK, DataTypeOK
          <5>2. UNCHANGED taken \/ taken' = [taken EXCEPT ![s] = taken[s] + 1]
            BY <2>3
          <5>3. UNCHANGED shown \/ shown' = [shown EXCEPT ![s] = shown[s] + 1]
            BY <2>3
          <5> QED BY ONLY <5>1, <5>2, <5>3
        <4>2. hook' \in [Sessions -> {"first", "declared", "undeclared"}]
          BY DEF SessionInv, SessionTypeOK, DataTypeOK, Declares
        <4>3. UNCHANGED <<sent, pushed>>
          BY DEF SessionInv
        <4> QED BY ONLY <2>3, <4>1, <4>2, <4>3, SessionInv DEF SessionInv, SessionTypeOK, DataTypeOK
      <3>2. \A t \in Sessions : Len(sent[t]) \in Nat /\ taken[t] \in Nat
        BY DEF SessionInv, SessionTypeOK, DataTypeOK
      <3>3. TakenWasSent'
        <4>1. CASE Receive(s)
          <5>1. /\ \A t \in Sessions : t # s => taken'[t] = taken[t] /\ up'[t] = up[t]
                /\ taken'[s] = taken[s] + 1 /\ taken[s] < Len(sent[s]) /\ UNCHANGED sent
            BY ONLY <4>1, SessionInv DEF Receive, SessionInv, SessionTypeOK, ConnTypeOK, DataTypeOK
          <5> QED BY ONLY <3>2, <5>1, SessionInv DEF SessionInv, SessionTypeOK, TakenWasSent
        <4>2. CASE UNCHANGED taken
          <5>1. \A t \in Sessions : up'[t] = "send" => up[t] = "send"
            BY <2>3, <4>2 DEF SessionInv, SessionTypeOK, ConnTypeOK, DataTypeOK
          <5>2. UNCHANGED sent
            OBVIOUS
          <5> QED BY ONLY <4>2, <5>1, <5>2, SessionInv DEF SessionInv, SessionTypeOK, TakenWasSent
        <4> QED BY <4>1, <4>2
      <3> QED BY <2>1, <3>1, <3>3 DEF SessionTypeOK
    <2> QED BY <2>2, <2>3
  <1> USE DEF SessionInv, SessionTypeOK, ConnTypeOK, DataTypeOK
  <1>2. Stages'
    BY DEF Stages
  <1>3. SessionIsBilled'
    <2>1. UNCHANGED <<phase, client, bill, pushed>> /\ phase[s] = "open"
      OBVIOUS
    <2>2. \A t \in Sessions \ {s} :
             upstream'[t] = upstream[t] /\ shown'[t] = shown[t] /\ hook'[t] = hook[t]
      OBVIOUS
    <2> QED BY ONLY <2>1, <2>2, SessionInv DEF SessionInv, SessionIsBilled
  <1>4. LogTypeOK' /\ Gone'
    <2>1. \A t \in Sessions : Active(t)' => Active(t)
      BY DEF Active
    <2>2. UNCHANGED logVars /\ UNCHANGED proc
      BY DEF logVars
    <2> QED BY <2>1, <2>2, LogUntouched
  <1> QED BY <1>1, <1>2, <1>3, <1>4

LEMMA EndStepInv ==
  ASSUME SessionInv, NEW s \in Sessions, EndStep(s)
  PROVE  SessionInv'
  <1> USE DEF EndStep, Finish, Price, SaveUsage, Settle, EndSession, Bill,
        connVars, dataVars, billVars
  <1>1. SessionTypeOK'
    <2>1. ConnTypeOK'
      BY DEF SessionInv, SessionTypeOK, ConnTypeOK, Cancelled, Released
    <2>2. DataTypeOK' /\ TakenWasSent'
      BY DEF SessionInv, SessionTypeOK, ConnTypeOK, DataTypeOK, TakenWasSent, Cancelled
    <2> QED BY <2>1, <2>2 DEF SessionTypeOK
  <1> USE DEF SessionInv, SessionTypeOK, ConnTypeOK, DataTypeOK
  <1>2. Stages'
    BY DEF Stages, Cancelled
  <1>3. SessionIsBilled'
    <2>1. UNCHANGED <<shown, pushed, hook>>
      OBVIOUS
    <2>2. CASE Finish(s)
      <3>1. \A t \in Sessions \ {s} :
               /\ phase'[t] = phase[t] /\ client'[t] = client[t]
               /\ upstream'[t] = upstream[t] /\ bill'[t] = bill[t]
        BY <2>2
      <3>2. phase'[s] = "ended" => /\ client'[s] = "left" /\ hook[s] # "declared"
                                   /\ shown[s] < pushed[s]
        BY <2>2 DEF Billable, Stages
      <3>3. SessionIsBilled
        OBVIOUS
      <3> QED BY ONLY <2>1, <3>1, <3>2, <3>3 DEF SessionIsBilled
    <2>3. CASE Price(s) \/ SaveUsage(s) \/ Settle(s)
      <3>1. bill'[s] # "none"
        BY <2>3
      <3>2. \A t \in Sessions \ {s} :
               /\ phase'[t] = phase[t] /\ client'[t] = client[t]
               /\ upstream'[t] = upstream[t] /\ bill'[t] = bill[t]
        BY <2>3
      <3> QED BY ONLY <2>1, <3>1, <3>2, SessionInv DEF SessionInv, SessionIsBilled
    <2> QED BY <2>2, <2>3
  <1>4. LogTypeOK' /\ Gone'
    <2>1. \A t \in Sessions : Active(t)' => Active(t)
      BY DEF Stages, Active
    <2>2. UNCHANGED logVars /\ UNCHANGED proc
      BY DEF logVars
    <2> QED BY <2>1, <2>2, LogUntouched
  <1> QED BY <1>1, <1>2, <1>3, <1>4

\* The log entry a session starts is started before the process can be gone.
LEMMA SaveLogInv ==
  ASSUME SessionInv, LogTypeOK', NEW s \in Sessions, SaveLog(s)
  PROVE  SessionInv'
  <1> USE DEF SaveLog, StartLog, Become, Bill, connVars, dataVars, billVars
  <1>1. SessionTypeOK'
    BY DEF SessionInv, SessionTypeOK, ConnTypeOK, DataTypeOK, TakenWasSent
  <1> USE DEF SessionInv, SessionTypeOK, ConnTypeOK, DataTypeOK
  <1>2. Stages' /\ SessionIsBilled'
    BY DEF Stages, SessionIsBilled
  <1>3. Gone'
    <2>1. proc \notin {"down", "killed"}
      BY DEF Stages, Gone, Active
    <2> QED BY <2>1 DEF Gone, LogTypeOK
  <1> QED BY <1>1, <1>2, <1>3

LEMMA LogTaskInv ==
  ASSUME SessionInv, LogTypeOK', LogTaskStep
  PROVE  SessionInv'
  <1>1. UNCHANGED <<connVars, dataVars, billVars, proc>> /\ proc \in {"up", "draining"}
    BY DEF LogTaskStep, WriteLog, LogRequest
  <1>2. SessionTypeOK' /\ Stages' /\ SessionIsBilled'
    BY <1>1 DEF SessionInv, SessionTypeOK, ConnTypeOK, DataTypeOK, TakenWasSent, Stages,
         SessionIsBilled, connVars, dataVars, billVars
  <1>3. \A e \in Requests : entry'[e] # "cancelled"
    <2>1. \A e \in Requests : entry[e] # "cancelled"
      BY <1>1 DEF SessionInv, Gone
    <2>2. PICK x \in Requests : LogStep(x) \/ StartLog(x)
      BY DEF LogTaskStep, WriteLog, LogRequest
    <2> QED BY <2>1, <2>2 DEF SessionInv, LogTypeOK, LogStep, StartLog, EnterLog, DropLog,
               OpenFile, CompleteFile, LogFails, Become
  <1>4. Gone'
    BY <1>1, <1>3 DEF Gone
  <1> QED BY <1>2, <1>4 DEF SessionInv

LEMMA ProcessInv ==
  ASSUME SessionInv, LogTypeOK', ProcessStep
  PROVE  SessionInv'
  <1> USE DEF ProcessStep, StopAccepting, Drained, DrainTimesOut, HandlersRun,
        connVars, dataVars, billVars
  <1>1. SessionTypeOK' /\ Stages' /\ SessionIsBilled'
    BY DEF SessionInv, SessionTypeOK, ConnTypeOK, DataTypeOK, TakenWasSent, Stages, SessionIsBilled
  <1>2. Gone'
    BY DEF SessionInv, Gone, Active, LogsPending, Writes, logVars
  <1> QED BY <1>1, <1>2 DEF SessionInv

LEMMA SessionNextInv == SessionInv /\ LogTypeOK' /\ [Next]_vars => SessionInv'
  <1> SUFFICES ASSUME SessionInv, LogTypeOK', [Next]_vars PROVE SessionInv'
    OBVIOUS
  <1>1. CASE UNCHANGED vars
    BY <1>1 DEF vars, SessionInv, SessionTypeOK, ConnTypeOK, DataTypeOK, TakenWasSent, Stages,
         SessionIsBilled, Gone, Active, LogsPending, Writes, connVars, dataVars, billVars, logVars
  <1> QED BY <1>1, StepCases, SessionStepInv, PumpStepInv, EndStepInv, SaveLogInv, LogTaskInv,
             ProcessInv

THEOREM SessionSpecInv == Spec => []SessionInv
  BY SessionInitInv, SessionNextInv, SessionLogTypes, PTL DEF Spec

\* A session that was connected is given away only if pricing failed, or if its
\* client left with answers still on their way and had declared nothing.
THEOREM SessionsAreBilled == Spec => []SessionIsBilled
  <1>1. SessionInv => SessionIsBilled
    BY DEF SessionInv
  <1> QED BY <1>1, SessionSpecInv, PTL

\* A shutdown that is not cut off leaves no session unbilled and no log entry
\* unwritten.
THEOREM SessionsSurviveStop == Spec => []StopLosesNothing
  <1>1. SessionInv => StopLosesNothing
    BY DEF SessionInv, SessionTypeOK, ConnTypeOK, LogTypeOK, EntryState, Stages, Gone, Active,
         LogsPending, Writes, StopLosesNothing
  <1> QED BY <1>1, SessionSpecInv, PTL

-----------------------------------------------------------------------------
(* The stream the upstream sees.                                            *)

TakenFrames(s) == SubSeq(sent[s], 1, taken[s])

\* All that was taken is passed on
UpToDate == {"off", "receive", "close", "done"}

\* The pump's place in the stream: what the hook knows is about the frames
\* taken; the upstream has what is due for them, but for the one in hand.
\* However the pump ended, the upstream has what is due for some of them.
Forwarded(s) ==
  /\ hook[s] = "first" <=> FirstText(TakenFrames(s)) = 0
  /\ up[s] \in UpToDate => got[s] = Due(TakenFrames(s))
  /\ up[s] = "send" => Append(got[s], Rewritten(sent[s][taken[s]])) = Due(TakenFrames(s))
  /\ \E n \in 0..taken[s] : got[s] = Due(SubSeq(sent[s], 1, n))

Forwarding == \A s \in Sessions : Forwarded(s)

LEMMA PrefixStays ==
  ASSUME NEW q \in Seq(Frames), NEW f \in Frames, NEW n \in 0..Len(q)
  PROVE  SubSeq(Append(q, f), 1, n) = SubSeq(q, 1, n)
  <1>1. /\ Append(q, f) \in Seq(Frames) /\ Len(Append(q, f)) = Len(q) + 1 /\ Len(q) \in Nat
        /\ \A j \in 1..Len(q) : Append(q, f)[j] = q[j]
    BY AppendProperties
  <1>2. /\ SubSeq(q, 1, n) \in Seq(Frames) /\ Len(SubSeq(q, 1, n)) = n
        /\ \A j \in 1..n : SubSeq(q, 1, n)[j] = q[j]
    BY SubSeqProperties
  <1>3. /\ SubSeq(Append(q, f), 1, n) \in Seq(Frames) /\ Len(SubSeq(Append(q, f), 1, n)) = n
        /\ \A j \in 1..n : SubSeq(Append(q, f), 1, n)[j] = Append(q, f)[j]
    BY <1>1, SubSeqProperties
  <1> QED BY <1>1, <1>2, <1>3, SeqEqual

LEMMA PrefixGrows ==
  ASSUME NEW q \in Seq(Frames), NEW n \in Nat, n < Len(q)
  PROVE  SubSeq(q, 1, n + 1) = Append(SubSeq(q, 1, n), q[n + 1])
  <1> DEFINE p == SubSeq(q, 1, n)
             a == Append(p, q[n + 1])
             r == SubSeq(q, 1, n + 1)
  <1>1. p \in Seq(Frames) /\ Len(p) = n /\ (\A j \in 1..n : p[j] = q[j]) /\ q[n + 1] \in Frames
    BY SubSeqProperties
  <1>2. r \in Seq(Frames) /\ Len(r) = n + 1 /\ \A j \in 1..(n + 1) : r[j] = q[j]
    BY SubSeqProperties
  <1> HIDE DEF p, r
  <1>3. /\ a \in Seq(Frames) /\ Len(a) = n + 1 /\ a[n + 1] = q[n + 1]
        /\ \A j \in 1..n : a[j] = p[j]
    BY <1>1, AppendProperties
  <1> HIDE DEF a
  <1>4. ASSUME NEW j \in 1..(n + 1) PROVE a[j] = r[j]
    <2>1. j \in 1..n \/ j = n + 1
      OBVIOUS
    <2> QED BY <1>1, <1>2, <1>3, <2>1
  <1>5. a = r
    BY <1>2, <1>3, <1>4, SeqEqual
  <1> QED BY <1>5 DEF p, a, r

\* What stays the same when the client sends a frame, and when the pump ends.
LEMMA StillForwarded ==
  ASSUME NEW s \in Sessions, SessionTypeOK, Forwarded(s),
         sent'[s] = sent[s] \/ (\E f \in Frames : sent'[s] = Append(sent[s], f)),
         taken'[s] = taken[s], hook'[s] = hook[s], got'[s] = got[s],
         \/ up'[s] = up[s]
         \/ (up[s] \in UpToDate /\ up'[s] \in UpToDate)
         \/ up'[s] \in {"raised", "cancelled"}
  PROVE  Forwarded(s)'
  <1>1. sent[s] \in Seq(Frames) /\ taken[s] \in 0..Len(sent[s])
    BY DEF SessionTypeOK, DataTypeOK, TakenWasSent
  <1>2. \A n \in 0..Len(sent[s]) : SubSeq(sent'[s], 1, n) = SubSeq(sent[s], 1, n)
    BY <1>1, PrefixStays
  <1>3. TakenFrames(s)' = TakenFrames(s)
    BY <1>1, <1>2 DEF TakenFrames
  <1>4. up[s] = "send" => sent'[s][taken[s]] = sent[s][taken[s]]
    <2>1. up[s] = "send" => taken[s] \in 1..Len(sent[s])
      BY <1>1 DEF SessionTypeOK, TakenWasSent
    <2> QED BY <1>1, <2>1, AppendProperties
  <1>5. \E n \in 0..taken[s] : got'[s] = Due(SubSeq(sent'[s], 1, n))
    <2>1. PICK n \in 0..taken[s] : got[s] = Due(SubSeq(sent[s], 1, n))
      BY DEF Forwarded
    <2>2. got'[s] = Due(SubSeq(sent'[s], 1, n))
      <3>1. n \in 0..Len(sent[s])
        BY <1>1
      <3> QED BY <1>2, <2>1, <3>1
    <2> QED BY <2>2
  <1> QED BY <1>3, <1>4, <1>5 DEF Forwarded, UpToDate

\* The pump takes a frame.
LEMMA ReceiveForwards ==
  ASSUME NEW s \in Sessions, SessionTypeOK, Forwarded(s), Receive(s)
  PROVE  Forwarded(s)'
  <1> DEFINE q == sent[s]
             n == taken[s]
             f == q[n + 1]
  <1>1. /\ q \in Seq(Frames) /\ n \in Nat /\ n < Len(q) /\ f \in Frames
        /\ TakenFrames(s) \in Seq(Frames)
    BY ElementOfSeq, SubSeqProperties DEF SessionTypeOK, DataTypeOK, Receive, TakenFrames
  <1>2. /\ sent' = sent /\ got' = got /\ taken'[s] = n + 1 /\ up[s] = "receive"
        /\ hook'[s] = Declares(s, f)
        /\ up'[s] = IF Consumed(s, f) THEN "receive" ELSE "send"
    BY DEF Receive, SessionTypeOK, ConnTypeOK, DataTypeOK
  <1>3. TakenFrames(s)' = Append(TakenFrames(s), f)
    BY <1>1, <1>2, PrefixGrows DEF TakenFrames
  <1>4. hook'[s] = "first" <=> FirstText(TakenFrames(s)') = 0
    <2>1. /\ FirstText(TakenFrames(s)) \in Nat
          /\ Len(TakenFrames(s)) \in Nat
      BY <1>1, FirstTextIs
    <2>2. FirstText(TakenFrames(s)') =
            IF FirstText(TakenFrames(s)) # 0 THEN FirstText(TakenFrames(s))
            ELSE IF IsText(f) THEN Len(TakenFrames(s)) + 1 ELSE 0
      BY <1>1, <1>3, FirstTextOfMore
    <2> QED BY <1>2, <2>1, <2>2 DEF Forwarded, Declares
  <1>5. Due(TakenFrames(s)') = IF Consumed(s, f) THEN got[s] ELSE Append(got[s], Rewritten(f))
    <2>1. Due(Append(TakenFrames(s), f)) =
            IF f = "meta" /\ FirstText(TakenFrames(s)) = 0 THEN Due(TakenFrames(s))
            ELSE Append(Due(TakenFrames(s)), Rewritten(f))
      BY <1>1, DueOfMore
    <2>2. got[s] = Due(TakenFrames(s))
      BY <1>2 DEF Forwarded, UpToDate
    <2> QED BY <1>3, <2>1, <2>2 DEF Forwarded, Consumed
  <1>6. \E m \in 0..(n + 1) : got[s] = Due(SubSeq(q, 1, m))
    <2>1. PICK m \in 0..n : got[s] = Due(SubSeq(q, 1, m))
      BY DEF Forwarded
    <2> QED BY <1>1, <2>1
  <1> HIDE DEF n, f
  <1>7. sent'[s][taken'[s]] = f /\ got'[s] = got[s]
    BY <1>2 DEF n, f
  <1> QED BY <1>2, <1>4, <1>5, <1>6, <1>7 DEF Forwarded, UpToDate

\* It passes it on, or the connection is gone.
LEMMA SendForwards ==
  ASSUME NEW s \in Sessions, SessionTypeOK, Forwarded(s), Send(s)
  PROVE  Forwarded(s)'
  <1>1. CASE upstream[s] = "open"
    <2>1. /\ sent' = sent /\ taken' = taken /\ hook' = hook /\ up[s] = "send"
          /\ up'[s] = "receive" /\ got'[s] = Append(got[s], Rewritten(sent[s][taken[s]]))
      BY <1>1 DEF Send, SessionTypeOK, ConnTypeOK, DataTypeOK
    <2>2. got'[s] = Due(TakenFrames(s)) /\ TakenFrames(s)' = TakenFrames(s)
      BY <2>1 DEF Forwarded, TakenFrames
    <2>3. \E n \in 0..taken[s] : got'[s] = Due(SubSeq(sent[s], 1, n))
      <3>1. taken[s] \in 0..taken[s]
        BY DEF SessionTypeOK, DataTypeOK
      <3> QED BY <2>2, <3>1 DEF TakenFrames
    <2> QED BY <2>1, <2>2, <2>3 DEF Forwarded
  <1>2. CASE upstream[s] # "open"
    <2>1. /\ sent' = sent /\ taken' = taken /\ hook' = hook /\ got' = got /\ up'[s] = "raised"
      BY <1>2 DEF Send, SessionTypeOK, ConnTypeOK
    <2> QED BY <2>1, StillForwarded
  <1> QED BY <1>1, <1>2

LEMMA ForwardingInv == SessionInv /\ Forwarding /\ [Next]_vars => Forwarding'
  <1> SUFFICES ASSUME SessionInv, Forwarding, [Next]_vars, NEW t \in Sessions
               PROVE  Forwarded(t)'
    BY DEF Forwarding
  <1>0. SessionTypeOK /\ Forwarded(t)
    BY DEF SessionInv, Forwarding
  <1>1. CASE UNCHANGED vars \/ LogTaskStep \/ ProcessStep
    <2>1. UNCHANGED <<sent, taken, hook, got, up>>
      BY <1>1 DEF vars, LogTaskStep, WriteLog, LogRequest, ProcessStep, StopAccepting, Drained,
           DrainTimesOut, connVars, dataVars
    <2> QED BY <1>0, <2>1, StillForwarded
  <1>2. ASSUME NEW s \in Sessions, SessionStep(s)
        PROVE  Forwarded(t)'
    <2>1. UNCHANGED <<taken, hook, got>>
      BY <1>2 DEF SessionStep, Refuse, Accept, Connect, ConnectFails, ClientLeaves,
           UpstreamSends, UpstreamEnds, ClientSends, dataVars
    <2>2. sent'[t] = sent[t] \/ (\E f \in Frames : sent'[t] = Append(sent[t], f))
      <3>1. CASE UNCHANGED sent
        BY <3>1
      <3>2. ASSUME NEW f \in Frames, ClientSends(s, f)
            PROVE  sent'[t] = sent[t] \/ sent'[t] = Append(sent[t], f)
        BY <1>0, <3>2 DEF ClientSends, SessionTypeOK, DataTypeOK
      <3> QED BY <1>2, <3>1, <3>2 DEF SessionStep, Refuse, Accept, Connect, ConnectFails,
                 ClientLeaves, UpstreamSends, UpstreamEnds, dataVars
    <2>3. up'[t] = up[t] \/ (up[t] = "off" /\ up'[t] = "receive")
      <3>1. CASE UNCHANGED up
        BY <3>1
      <3>2. CASE Connect(s)
        BY <1>0, <3>2 DEF Connect, SessionInv, Stages, SessionTypeOK, ConnTypeOK
      <3> QED BY <1>2, <3>1, <3>2 DEF SessionStep, Refuse, Accept, ConnectFails, ClientLeaves,
                 UpstreamSends, UpstreamEnds, ClientSends, connVars
    <2> QED BY <1>0, <2>1, <2>2, <2>3, StillForwarded DEF UpToDate
  <1>3. ASSUME NEW s \in Sessions, PumpStep(s)
        PROVE  Forwarded(t)'
    <2>1. CASE s # t
      <3>1. /\ sent'[t] = sent[t] /\ taken'[t] = taken[t] /\ hook'[t] = hook[t]
            /\ got'[t] = got[t] /\ up'[t] = up[t]
        BY <1>0, <1>3, <2>1 DEF PumpStep, Receive, Send, SeeDisconnect, CloseUpstream, Show,
             UpstreamOver, dataVars, SessionTypeOK, ConnTypeOK, DataTypeOK
      <3> QED BY <1>0, <3>1, StillForwarded
    <2>2. CASE s = t
      <3>1. CASE Receive(s) \/ Send(s)
        BY <1>0, <2>2, <3>1, ReceiveForwards, SendForwards
      <3>2. CASE SeeDisconnect(s) \/ CloseUpstream(s) \/ Show(s) \/ UpstreamOver(s)
        <4>1. UNCHANGED <<sent, taken, hook, got>>
          BY <3>2 DEF SeeDisconnect, CloseUpstream, Show, UpstreamOver, dataVars
        <4>2. up'[t] = up[t] \/ (up[t] \in UpToDate /\ up'[t] \in UpToDate)
          BY <1>0, <2>2, <3>2 DEF SeeDisconnect, CloseUpstream, Show, UpstreamOver, UpToDate,
               SessionTypeOK, ConnTypeOK
        <4> QED BY <1>0, <4>1, <4>2, StillForwarded
      <3> QED BY <1>3, <3>1, <3>2 DEF PumpStep
    <2> QED BY <2>1, <2>2
  <1>4. ASSUME NEW s \in Sessions, EndStep(s) \/ SaveLog(s)
        PROVE  Forwarded(t)'
    <2>1. UNCHANGED <<sent, taken, hook, got>>
      BY <1>4 DEF EndStep, Finish, Price, SaveUsage, Settle, SaveLog, dataVars
    <2>2. up'[t] = up[t] \/ up'[t] = "cancelled"
      BY <1>0, <1>4 DEF EndStep, Finish, Price, SaveUsage, Settle, SaveLog, connVars, Cancelled,
           SessionTypeOK, ConnTypeOK
    <2> QED BY <1>0, <2>1, <2>2, StillForwarded
  <1> QED BY <1>1, <1>2, <1>3, <1>4, StepCases

\* The forwarder is transparent: whatever the interleaving of client, pumps and
\* upstream and however the session ends, the upstream has seen the client's
\* frames in order, none lost, doubled or swallowed, but for the declaration.
THEOREM UpstreamSeesWhatIsSent == Spec => []UpstreamSeesTheStream
  <1>1. Init => Forwarding
    <2>1. ASSUME Init, NEW s \in Sessions
          PROVE  /\ TakenFrames(s) = <<>> /\ up[s] = "off" /\ hook[s] = "first" /\ got[s] = <<>>
                 /\ taken[s] = 0 /\ sent[s] = <<>>
      BY <2>1, SubSeqEmpty DEF Init, TakenFrames
    <2>2. FirstText(<<>>) = 0 /\ Due(<<>>) = <<>>
      <3>1. <<>> \in Seq(Frames) /\ Len(<<>>) = 0
        BY EmptySeq
      <3>2. FirstText(<<>>) = 0
        <4> DEFINE e == <<>>
        <4> HIDE DEF e
        <4>1. e \in Seq(Frames) /\ Len(e) = 0
          BY <3>1 DEF e
        <4>2. FirstText(e) \in 0..0
          BY <4>1, FirstTextIs
        <4> QED BY <4>2 DEF e
      <3>3. Due(<<>>) \in Seq(PassedOn) /\ Len(Due(<<>>)) = 0
        BY <3>1, <3>2, DueIs DEF Removed
      <3> QED BY <3>2, <3>3, EmptySeq
    <2>3. ASSUME Init, NEW s \in Sessions
          PROVE  Forwarded(s)
      <3>1. got[s] = Due(SubSeq(sent[s], 1, 0)) /\ 0 \in 0..taken[s]
        <4>1. SubSeq(sent[s], 1, 0) = TakenFrames(s) /\ 0 \in 0..taken[s]
          BY <2>1, <2>3 DEF TakenFrames
        <4> QED BY <2>1, <2>2, <2>3, <4>1
      <3> QED BY <2>1, <2>2, <2>3, <3>1 DEF Forwarded, UpToDate
    <2> QED BY <2>3 DEF Forwarding
  <1>2. SessionInv /\ Forwarding => UpstreamSeesTheStream
    <2> SUFFICES ASSUME SessionInv, Forwarding, NEW s \in Sessions
                 PROVE  /\ IsPrefix(got[s], Due(sent[s]))
                        /\ up[s] = "receive" => got[s] = Due(SubSeq(sent[s], 1, taken[s]))
      BY DEF UpstreamSeesTheStream
    <2>1. sent[s] \in Seq(Frames) /\ taken[s] \in 0..Len(sent[s])
      BY DEF SessionInv, SessionTypeOK, DataTypeOK, TakenWasSent
    <2>2. PICK n \in 0..taken[s] : got[s] = Due(SubSeq(sent[s], 1, n))
      BY DEF Forwarding, Forwarded
    <2>3. IsPrefix(got[s], Due(sent[s]))
      BY <2>1, <2>2, DueOfPrefix
    <2> QED BY <2>3 DEF Forwarding, Forwarded, UpToDate, TakenFrames
  <1> QED BY <1>1, <1>2, ForwardingInv, SessionSpecInv, PTL DEF Spec
=============================================================================
