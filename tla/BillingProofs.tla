---------------------------- MODULE BillingProofs ----------------------------
(***************************************************************************)
(* Proofs about Billing for all values of its constants: type correctness; *)
(* that a request is charged exactly once if it is logged and deducted     *)
(* from an account at most once, never when the package covers it; that    *)
(* the stale values of the admission exceed a limit by at most what was in *)
(* flight; and that the totals of tokens and accounts are the sums over    *)
(* what was logged and deducted.                                           *)
(***************************************************************************)
EXTENDS Billing, FiniteSetTheorems, TLAPS

\* A request that has not been answered has no background work and no attempt
\* behind it, and a pending write still has an attempt left.
TasksFollowReply ==
  \A r \in Requests :
    /\ pc[r] # "replied" => /\ attempt[r] = 0
                            /\ usage[r] # "pending"
                            /\ counter[r] # "pending"
                            /\ deduct[r] # "pending"
    /\ usage[r] = "pending" => attempt[r] < MaxRetries

\* A pending deduction has not been made.
DeductionsRecorded ==
  \A r \in Requests :
    deductions[r] # 0 =>
      /\ deductions[r] = 1
      /\ ~covered[r]
      /\ pc[r] = "replied"
      /\ deduct[r] = "done"

IInv == TypeOK /\ TasksFollowReply /\ ChargedOnceIffLogged /\ DeductionsRecorded

-----------------------------------------------------------------------------
LEMMA InitInv == Init => IInv
  <1> SUFFICES ASSUME Init PROVE IInv
    OBVIOUS
  <1>1. (CHOOSE t \in Tokens : TRUE) \in Tokens /\ (CHOOSE k \in Kinds : TRUE) \in Kinds
    BY ConstantsAssumption
  <1>2. TypeOK
    BY <1>1, ConstantsAssumption
    DEF Init, TypeOK, TaskState, Handling, Final, Keys, Owners
  <1>3. TasksFollowReply /\ ChargedOnceIffLogged /\ DeductionsRecorded
    BY DEF Init, TasksFollowReply, ChargedOnceIffLogged, DeductionsRecorded
  <1> QED BY <1>2, <1>3 DEF IInv

\* The steps of the admission only move a request's stage and its snapshot.
LEMMA AdmissionInv ==
  ASSUME IInv, NEW r \in Requests,
         \/ \E t \in Tokens, k \in Kinds : ValidateKey(r, t, k)
         \/ RejectKey(r)
         \/ Admission(r)
  PROVE  IInv'
  <1> USE DEF IInv
  <1>1. ASSUME NEW t \in Tokens, NEW k \in Kinds, ValidateKey(r, t, k)
        PROVE  IInv'
    BY <1>1 DEF ValidateKey, Goto, taskVars, dbVars, ghosts, TypeOK, Handling, Final,
       TasksFollowReply, ChargedOnceIffLogged, DeductionsRecorded
  <1>2. CASE RejectKey(r)
    BY <1>2 DEF RejectKey, Goto, taskVars, dbVars, ghosts, TypeOK, Handling, Final,
       TasksFollowReply, ChargedOnceIffLogged, DeductionsRecorded
  <1>3. CASE PackageCovers(r)
    BY <1>3 DEF PackageCovers, Goto, taskVars, dbVars, ghosts, TypeOK, Handling, Final,
       TasksFollowReply, ChargedOnceIffLogged, DeductionsRecorded
  <1>4. CASE PackageDeclines(r) \/ PackageUnknown(r)
    BY <1>4 DEF PackageDeclines, PackageUnknown, Goto, taskVars, dbVars, ghosts, TypeOK,
       Handling, Final, TasksFollowReply, ChargedOnceIffLogged, DeductionsRecorded
  <1>5. CASE CheckBalance(r) \/ BalanceUnknown(r)
    BY <1>5 DEF CheckBalance, BalanceUnknown, Goto, taskVars, dbVars, ghosts, TypeOK,
       Handling, Final, TasksFollowReply, ChargedOnceIffLogged, DeductionsRecorded
  <1>6. CASE CheckQuota(r)
    BY <1>6 DEF CheckQuota, Goto, taskVars, dbVars, ghosts, TypeOK,
       Handling, Final, TasksFollowReply, ChargedOnceIffLogged, DeductionsRecorded
  <1> QED BY <1>1, <1>2, <1>3, <1>4, <1>5, <1>6 DEF Admission

\* An answer starts the tasks of a request that had none.
LEMMA ForwardingInv ==
  ASSUME IInv, NEW r \in Requests, Forwarding(r)
  PROVE  IInv'
  <1> USE DEF IInv
  <1>1. ASSUME NEW c \in Costs, pc[r] = "forward", StartTasks(r, c), Goto(r, "replied"),
               UNCHANGED <<tok, kind, snap, covered, dbVars, window, proc, ghosts>>
        PROVE  IInv'
    <2>1. TypeOK'
      BY <1>1 DEF StartTasks, CounterStart, Goto, dbVars, ghosts, TypeOK, TaskState, Handling, Final
    <2>2. TasksFollowReply'
      BY <1>1, ConstantsAssumption DEF StartTasks, CounterStart, Goto, TypeOK, TasksFollowReply
    <2>3. ChargedOnceIffLogged' /\ DeductionsRecorded'
      BY <1>1 DEF StartTasks, Goto, dbVars, ghosts, TypeOK, ChargedOnceIffLogged, DeductionsRecorded
    <2> QED BY <2>1, <2>2, <2>3
  <1>2. CASE ReplyPlain(r) \/ ReplyStream(r) \/ ReplyConverted(r)
    BY <1>1, <1>2 DEF ReplyPlain, ReplyStream, ReplyConverted
  <1>3. CASE UpstreamFails(r)
    BY <1>3 DEF UpstreamFails, Goto, taskVars, dbVars, ghosts, TypeOK, Handling, Final,
       TasksFollowReply, ChargedOnceIffLogged, DeductionsRecorded
  <1>4. CASE PlainPricingFails(r)
    BY <1>1, <1>4, ConstantsAssumption DEF PlainPricingFails
  <1>5. CASE ChainPricingFails(r)
    <2>1. TypeOK'
      BY <1>5 DEF ChainPricingFails, Goto, taskVars, dbVars, ghosts, TypeOK, Handling, Final
    <2>2. TasksFollowReply'
      BY <1>5, ConstantsAssumption DEF ChainPricingFails, Goto, taskVars, TypeOK, TasksFollowReply
    <2>3. ChargedOnceIffLogged' /\ DeductionsRecorded'
      BY <1>5 DEF ChainPricingFails, Goto, taskVars, dbVars, ghosts, TypeOK,
         ChargedOnceIffLogged, DeductionsRecorded
    <2> QED BY <2>1, <2>2, <2>3
  <1> QED BY <1>2, <1>3, <1>4, <1>5 DEF Forwarding

\* One attempt of update_usage: the charge and the log row appear together.
LEMMA UsageInv ==
  ASSUME IInv, NEW r \in Requests, UsageWrite(r)
  PROVE  IInv'
  <1> USE DEF IInv
  <1>1. usage[r] = "pending" /\ pc[r] = "replied" /\ attempt[r] < MaxRetries
    BY DEF UsageWrite, UsageCommitted, UsageReplayed, UsageFails, UsageUnacknowledged,
       TasksFollowReply
  <1>2. tok[r] \in Tokens /\ cost[r] \in Nat /\ MaxRetries \in Nat /\ attempt[r] \in 0..MaxRetries
    BY ConstantsAssumption DEF TypeOK
  <1>3. CASE UsageCommitted(r)
    <2>1. TypeOK'
      BY <1>2, <1>3 DEF UsageCommitted, ApplyUsage, reqVars, TypeOK, TaskState
    <2>2. TasksFollowReply' /\ DeductionsRecorded'
      BY <1>3 DEF UsageCommitted, reqVars, TypeOK, TasksFollowReply, DeductionsRecorded
    <2>3. ChargedOnceIffLogged'
      BY <1>3 DEF UsageCommitted, ApplyUsage, TypeOK, ChargedOnceIffLogged
    <2> QED BY <2>1, <2>2, <2>3
  <1>4. CASE UsageReplayed(r)
    BY <1>4 DEF UsageReplayed, reqVars, dbVars, ghosts, TypeOK, TaskState,
       TasksFollowReply, ChargedOnceIffLogged, DeductionsRecorded
  <1>5. ASSUME NextAttempt(r), UNCHANGED <<reqVars, counter, deduct, deductions>>
        PROVE  /\ usage' \in [Requests -> TaskState] /\ attempt' \in [Requests -> 0..MaxRetries]
               /\ TasksFollowReply' /\ DeductionsRecorded'
    <2>1. usage' \in [Requests -> TaskState] /\ attempt' \in [Requests -> 0..MaxRetries]
      BY <1>1, <1>2, <1>5 DEF NextAttempt, TypeOK, TaskState
    <2>2. TasksFollowReply'
      BY <1>1, <1>2, <1>5 DEF NextAttempt, reqVars, TypeOK, TasksFollowReply
    <2>3. DeductionsRecorded'
      BY <1>5 DEF reqVars, DeductionsRecorded
    <2> QED BY <2>1, <2>2, <2>3
  <1>6. CASE UsageFails(r)
    <2>1. TypeOK'
      BY <1>5, <1>6 DEF UsageFails, reqVars, dbVars, ghosts, TypeOK
    <2>2. TasksFollowReply' /\ DeductionsRecorded'
      BY <1>5, <1>6 DEF UsageFails, ghosts
    <2>3. ChargedOnceIffLogged'
      BY <1>6 DEF UsageFails, dbVars, ghosts, ChargedOnceIffLogged
    <2> QED BY <2>1, <2>2, <2>3
  <1>7. CASE UsageUnacknowledged(r)
    <2>1. TypeOK'
      BY <1>2, <1>5, <1>7 DEF UsageUnacknowledged, ApplyUsage, reqVars, TypeOK
    <2>2. TasksFollowReply' /\ DeductionsRecorded'
      BY <1>5, <1>7 DEF UsageUnacknowledged
    <2>3. ChargedOnceIffLogged'
      BY <1>7 DEF UsageUnacknowledged, ApplyUsage, TypeOK, ChargedOnceIffLogged
    <2> QED BY <2>1, <2>2, <2>3
  <1> QED BY <1>3, <1>4, <1>6, <1>7 DEF UsageWrite

\* The counters never touch the ledger.
LEMMA CounterInv ==
  ASSUME IInv, NEW r \in Requests, CounterWrite(r)
  PROVE  IInv'
  <1> USE DEF IInv
  <1>1. CASE RecordCounter(r)
    <2>1. TypeOK'
      BY <1>1 DEF RecordCounter, CounterReady, reqVars, dbVars, ghosts, TypeOK, TaskState
    <2>2. TasksFollowReply' /\ ChargedOnceIffLogged' /\ DeductionsRecorded'
      BY <1>1 DEF RecordCounter, CounterReady, reqVars, dbVars, ghosts, TypeOK,
         TasksFollowReply, ChargedOnceIffLogged, DeductionsRecorded
    <2> QED BY <2>1, <2>2
  <1>2. CASE CounterFails(r)
    BY <1>2 DEF CounterFails, CounterReady, reqVars, dbVars, ghosts, TypeOK, TaskState,
       TasksFollowReply, ChargedOnceIffLogged, DeductionsRecorded
  <1> QED BY <1>1, <1>2 DEF CounterWrite

\* A deduction is made from the pending state only, hence for the first time.
LEMMA BalanceInv ==
  ASSUME IInv, NEW r \in Requests, BalanceWrite(r)
  PROVE  IInv'
  <1> USE DEF IInv
  <1>1. /\ deduct[r] = "pending" /\ pc[r] = "replied" /\ deductions[r] = 0
    BY DEF BalanceWrite, SkipDeduct, Deduct, DeductFails, DeductReady,
       TasksFollowReply, DeductionsRecorded
  <1>2. CASE SkipDeduct(r) \/ DeductFails(r)
    BY <1>1, <1>2 DEF SkipDeduct, DeductFails, reqVars, dbVars, ghosts, TypeOK, TaskState,
       TasksFollowReply, ChargedOnceIffLogged, DeductionsRecorded
  <1>3. CASE Deduct(r)
    <2>1. Owner(r) \in Users /\ cost[r] \in Nat /\ ~covered[r]
      BY <1>3, ConstantsAssumption DEF Deduct, AccountPays, Owner, TypeOK
    <2>2. balance[Owner(r)] \in Nat \cup {Unlimited} /\ spent[Owner(r)] + cost[r] \in Nat
      BY <2>1 DEF TypeOK
    <2>3. Debit(balance[Owner(r)], cost[r]) \in Nat \cup {Unlimited}
      BY <2>1, <2>2, ConstantsAssumption DEF Debit
    <2> DEFINE o == Owner(r)
               b == Debit(balance[o], cost[r])
               n == spent[o] + cost[r]
    <2>4. balance' = [balance EXCEPT ![o] = b] /\ spent' = [spent EXCEPT ![o] = n]
      BY <1>3 DEF Deduct
    <2>5. b \in Nat \cup {Unlimited} /\ n \in Nat /\ o \in Users
      BY <2>1, <2>2, <2>3
    <2> HIDE DEF o, b, n
    <2>6. balance' \in [Users -> Nat \cup {Unlimited}] /\ spent' \in [Users -> Nat]
      BY <2>4, <2>5 DEF TypeOK
    <2>7. TypeOK'
      BY <1>3, <2>6 DEF Deduct, reqVars, TypeOK, TaskState
    <2>8. TasksFollowReply' /\ ChargedOnceIffLogged'
      BY <1>3 DEF Deduct, reqVars, TypeOK, TasksFollowReply, ChargedOnceIffLogged
    <2>9. DeductionsRecorded'
      BY <1>1, <1>3, <2>1 DEF Deduct, reqVars, TypeOK, DeductionsRecorded
    <2> QED BY <2>7, <2>8, <2>9
  <1> QED BY <1>2, <1>3 DEF BalanceWrite

\* Stopping, crashing and restarting keep the database and end tasks.
LEMMA ProcessInv ==
  ASSUME IInv, StopAccepting \/ DrainFinishes \/ DrainTimesOut \/ Crash \/ Restart
  PROVE  IInv'
  <1> USE DEF IInv
  <1>1. CASE StopAccepting \/ Restart
    BY <1>1 DEF StopAccepting, Restart, reqVars, taskVars, dbVars, ghosts, TypeOK,
       TasksFollowReply, ChargedOnceIffLogged, DeductionsRecorded
  <1>2. CASE DrainFinishes \/ DrainTimesOut
    <2>1. TypeOK'
      BY <1>2 DEF DrainFinishes, DrainTimesOut, KillTasks, Kill, reqVars, dbVars, ghosts,
         TypeOK, TaskState
    <2>2. TasksFollowReply' /\ ChargedOnceIffLogged' /\ DeductionsRecorded'
      BY <1>2 DEF DrainFinishes, DrainTimesOut, KillTasks, Kill, reqVars, dbVars, ghosts,
         TypeOK, TasksFollowReply, ChargedOnceIffLogged, DeductionsRecorded
    <2> QED BY <2>1, <2>2
  <1>3. CASE Crash
    <2>1. TypeOK'
      BY <1>3 DEF Crash, KillTasks, Kill, dbVars, ghosts, TypeOK, TaskState, Handling, Final
    <2>2. TasksFollowReply' /\ ChargedOnceIffLogged' /\ DeductionsRecorded'
      BY <1>3 DEF Crash, KillTasks, Kill, dbVars, ghosts, Handling,
         TypeOK, TasksFollowReply, ChargedOnceIffLogged, DeductionsRecorded
    <2> QED BY <2>1, <2>2
  <1> QED BY <1>1, <1>2, <1>3

LEMMA NextInv == IInv /\ [Next]_vars => IInv'
  <1> SUFFICES ASSUME IInv, [Next]_vars PROVE IInv'
    OBVIOUS
  <1>1. ASSUME NEW r \in Requests, NEW k \in Keys, WindowSlides(k, r)
        PROVE  IInv'
    BY <1>1 DEF WindowSlides, reqVars, taskVars, dbVars, ghosts, IInv, TypeOK,
       TasksFollowReply, ChargedOnceIffLogged, DeductionsRecorded
  <1>2. CASE UNCHANGED vars
    BY <1>2 DEF vars, reqVars, taskVars, dbVars, ghosts, IInv, TypeOK, Handling, Final,
       TasksFollowReply, ChargedOnceIffLogged, DeductionsRecorded
  <1>3. CASE Next
    BY <1>1, <1>3, AdmissionInv, ForwardingInv, UsageInv, CounterInv, BalanceInv, ProcessInv
    DEF Next
  <1> QED BY <1>2, <1>3

\* The inductive invariant holds of every behaviour.
THEOREM SpecInv == Spec => []IInv
  BY InitInv, NextInv, PTL DEF Spec

\* Every variable of the request pipeline keeps its type; in particular a
\* usage write is tried at most MaxRetries times.
THEOREM BillingTypeOK == Spec => []TypeOK
  BY SpecInv, PTL DEF IInv

\* For any number of requests, tokens, retries and failures, a request's cost
\* reaches Token.used_usd exactly once if it has a UsageLog row, else never.
THEOREM BillingChargedOnce == Spec => []ChargedOnceIffLogged
  BY SpecInv, PTL DEF IInv

\* An account pays at most once for a request, and never for one its package
\* covered.
THEOREM BillingAccountPaysOnce == Spec => []AccountPaysOnceOrPackage
  <1>1. IInv => AccountPaysOnceOrPackage
    BY DEF IInv, TypeOK, DeductionsRecorded, AccountPaysOnceOrPackage
  <1> QED BY <1>1, SpecInv, PTL

-----------------------------------------------------------------------------
(* Limits: admission works on values it read earlier.                       *)

\* A request that has not passed the package check is not covered; only an
\* answered one has a log row or a place in a window; and one that is being
\* forwarded had quota left when it was admitted.
Stages ==
  \A r \in Requests :
    /\ pc[r] \in {"idle", "limits", "balance"} => ~covered[r]
    /\ r \in logs => pc[r] = "replied"
    /\ \A k \in Keys : r \in window[k] => pc[r] = "replied"
    /\ pc[r] = "forward" /\ Quota[tok[r]] > 0 => snap[r] < Quota[tok[r]]

\* The requests whose cost may still reach token t.
Owing(t) ==
  {r \in Requests : /\ tok[r] = t
                    /\ \/ pc[r] \in Handling /\ snap[r] < Quota[t]
                       \/ usage[r] = "pending" /\ r \notin logs}

\* The covered requests that may still be recorded in the window of k.
Counting(k) ==
  {r \in Requests : covered[r] /\ Key(r) = k /\ (pc[r] \in Handling \/ counter[r] = "pending")}

CoveredIn(k) == {r \in window[k] : covered[r]}

\* An overshoot is bounded because whatever can still be added is in flight.
InFlightBounded == IsFiniteSet(InFlight) /\ Cardinality(InFlight) <= MaxInFlight

QuotaRoom ==
  \A t \in Tokens :
    Quota[t] > 0 =>
      used[t] + Cardinality(Owing(t)) * MaxCost <= Quota[t] - 1 + MaxInFlight * MaxCost

WindowRoom ==
  \A k \in Keys :
    /\ IsFiniteSet(window[k])
    /\ PackageLimit[k[1]] > 0 =>
         Cardinality(CoveredIn(k)) + Cardinality(Counting(k)) <= PackageLimit[k[1]] - 1 + MaxInFlight

\* A step that admits nobody, charges nobody and covers nobody.
Quiet ==
  /\ UNCHANGED <<tok, snap, used, logs>>
  /\ \A q \in Requests :
       /\ pc'[q] \in Handling => pc[q] \in Handling
       /\ pc'[q] = "forward" => pc[q] \in {"quota", "forward"}
       /\ pc'[q] = "forward" /\ pc[q] = "quota" => QuotaAllows(Quota[tok[q]], snap[q])
       /\ pc'[q] \in {"idle", "limits", "balance"} => pc[q] \in {"idle", "limits", "balance"}
       /\ pc[q] = "replied" => pc'[q] = "replied"
       /\ usage'[q] = "pending" => usage[q] = "pending" \/ pc[q] = "forward"
       /\ counter'[q] = "pending" => counter[q] = "pending" \/ pc[q] = "forward"
       /\ deduct'[q] = "pending" => deduct[q] = "pending" \/ pc[q] = "forward"

QuietWindow == UNCHANGED covered /\ \A k \in Keys : window'[k] \subseteq window[k]

LEMMA AdmissionQuiet ==
  ASSUME IInv, NEW r \in Requests, RejectKey(r) \/ Admission(r)
  PROVE  Quiet
  <1> USE DEF Quiet, Goto, Handling, TypeOK, IInv, taskVars, dbVars
  <1>1. CASE RejectKey(r)
    BY <1>1 DEF RejectKey
  <1>2. CASE PackageCovers(r) \/ PackageDeclines(r) \/ PackageUnknown(r)
    BY <1>2 DEF PackageCovers, PackageDeclines, PackageUnknown
  <1>3. CASE CheckBalance(r) \/ BalanceUnknown(r)
    BY <1>3 DEF CheckBalance, BalanceUnknown
  <1>4. CASE CheckQuota(r)
    BY <1>4 DEF CheckQuota
  <1> QED BY <1>1, <1>2, <1>3, <1>4 DEF Admission

LEMMA AdmissionQuietWindow ==
  ASSUME IInv, NEW r \in Requests, RejectKey(r) \/ Admission(r), ~PackageCovers(r)
  PROVE  QuietWindow
  BY DEF QuietWindow, RejectKey, Admission, PackageDeclines, PackageUnknown, CheckBalance,
     BalanceUnknown, CheckQuota

LEMMA ForwardingQuiet ==
  ASSUME IInv, NEW r \in Requests, Forwarding(r)
  PROVE  Quiet /\ QuietWindow
  <1> USE DEF Quiet, QuietWindow, Goto, Handling, TypeOK, IInv, taskVars, dbVars
  <1>1. ASSUME NEW c \in Costs, pc[r] = "forward", StartTasks(r, c), Goto(r, "replied"),
               UNCHANGED <<tok, kind, snap, covered, dbVars, window, proc, ghosts>>
        PROVE  Quiet /\ QuietWindow
    BY <1>1 DEF StartTasks
  <1>2. CASE ReplyPlain(r) \/ ReplyStream(r) \/ ReplyConverted(r)
    BY <1>1, <1>2 DEF ReplyPlain, ReplyStream, ReplyConverted
  <1>3. CASE UpstreamFails(r) \/ ChainPricingFails(r)
    BY <1>3 DEF UpstreamFails, ChainPricingFails
  <1>4. CASE PlainPricingFails(r)
    BY <1>1, <1>4, ConstantsAssumption DEF PlainPricingFails
  <1> QED BY <1>2, <1>3, <1>4 DEF Forwarding

LEMMA TasksQuiet ==
  ASSUME IInv, NEW r \in Requests,
         UsageReplayed(r) \/ UsageFails(r) \/ CounterWrite(r) \/ BalanceWrite(r)
  PROVE  Quiet
  <1> USE DEF Quiet, Handling, TypeOK, IInv, reqVars, dbVars
  <1>1. CASE UsageReplayed(r) \/ UsageFails(r)
    BY <1>1 DEF UsageReplayed, UsageFails, NextAttempt
  <1>2. CASE CounterWrite(r)
    BY <1>2 DEF CounterWrite, RecordCounter, CounterFails
  <1>3. CASE BalanceWrite(r)
    BY <1>3 DEF BalanceWrite, SkipDeduct, Deduct, DeductFails
  <1> QED BY <1>1, <1>2, <1>3

LEMMA ProcessQuiet ==
  ASSUME IInv, StopAccepting \/ DrainFinishes \/ DrainTimesOut \/ Crash \/ Restart
  PROVE  Quiet /\ QuietWindow
  <1> USE DEF Quiet, QuietWindow, Handling, TypeOK, IInv, reqVars, taskVars, dbVars
  <1>1. CASE StopAccepting \/ Restart
    BY <1>1 DEF StopAccepting, Restart
  <1>2. CASE DrainFinishes \/ DrainTimesOut
    BY <1>2 DEF DrainFinishes, DrainTimesOut, KillTasks, Kill
  <1>3. CASE Crash
    BY <1>3 DEF Crash, KillTasks, Kill
  <1> QED BY <1>1, <1>2, <1>3

-----------------------------------------------------------------------------
\* The steps that are not quiet.
LEMMA StepCases ==
  ASSUME IInv, Next
  PROVE  \/ Quiet
         \/ \E r \in Requests, t \in Tokens, k \in Kinds : ValidateKey(r, t, k)
         \/ \E r \in Requests : UsageCommitted(r) \/ UsageUnacknowledged(r)
         \/ \E r \in Requests, k \in Keys : WindowSlides(k, r)
  BY AdmissionQuiet, ForwardingQuiet, TasksQuiet, ProcessQuiet DEF Next, UsageWrite

\* A quiet step keeps the stages, provided it records nobody unanswered.
LEMMA QuietStages ==
  ASSUME IInv, Stages, Quiet, UNCHANGED covered,
         \A q \in Requests, k \in Keys : q \in window'[k] => q \in window[k] \/ pc[q] = "replied"
  PROVE  Stages'
  BY ConstantsAssumption DEF Quiet, Stages, IInv, TypeOK, QuotaAllows

LEMMA StagesInv == IInv /\ Stages /\ [Next]_vars => Stages'
  <1> SUFFICES ASSUME IInv, Stages, [Next]_vars PROVE Stages'
    OBVIOUS
  <1>1. ASSUME Quiet, QuietWindow PROVE Stages'
    BY <1>1, QuietStages DEF QuietWindow
  <1>2. ASSUME NEW r \in Requests, NEW t \in Tokens, NEW k \in Kinds, ValidateKey(r, t, k)
        PROVE  Stages'
    BY <1>2 DEF ValidateKey, Goto, dbVars, Stages, IInv, TypeOK
  <1>3. ASSUME NEW r \in Requests, PackageCovers(r)
        PROVE  Stages'
    BY <1>3 DEF PackageCovers, Goto, dbVars, Stages, IInv, TypeOK
  <1>4. ASSUME NEW r \in Requests, UsageCommitted(r) \/ UsageUnacknowledged(r)
        PROVE  Stages'
    BY <1>4 DEF UsageCommitted, UsageUnacknowledged, ApplyUsage, reqVars, Stages, IInv, TasksFollowReply
  <1>5. ASSUME NEW r \in Requests, RecordCounter(r)
        PROVE  Stages'
    BY <1>5, TasksQuiet, QuietStages
    DEF RecordCounter, CounterReady, CounterWrite, reqVars, IInv, TypeOK, TasksFollowReply
  <1>6. ASSUME NEW r \in Requests, UsageReplayed(r) \/ UsageFails(r) \/ CounterFails(r) \/ BalanceWrite(r)
        PROVE  Stages'
    <2>1. Quiet
      BY <1>6, TasksQuiet DEF CounterWrite
    <2>2. QuietWindow
      BY <1>6 DEF QuietWindow, UsageReplayed, UsageFails, CounterFails, BalanceWrite, SkipDeduct, Deduct,
         DeductFails, reqVars, dbVars
    <2> QED BY <2>1, <2>2, <1>1
  <1>7. ASSUME NEW r \in Requests, NEW k \in Keys, WindowSlides(k, r)
        PROVE  Stages'
    BY <1>7 DEF WindowSlides, reqVars, dbVars, Stages, IInv, TypeOK
  <1>8. CASE UNCHANGED vars
    BY <1>8 DEF vars, reqVars, dbVars, Stages, Key, Group, Owner
  <1>9. CASE Next
    BY <1>9, <1>1, <1>2, <1>3, <1>4, <1>5, <1>6, <1>7, AdmissionQuiet, AdmissionQuietWindow,
       ForwardingQuiet, ProcessQuiet
    DEF Next, UsageWrite, CounterWrite, Admission
  <1> QED BY <1>8, <1>9

\* Cardinalities of finite sets, in the form the bounds need them.
LEMMA SmallerSet ==
  ASSUME NEW S, IsFiniteSet(S), NEW T, T \subseteq S
  PROVE  /\ IsFiniteSet(T)
         /\ Cardinality(T) \in Nat /\ Cardinality(S) \in Nat
         /\ Cardinality(T) <= Cardinality(S)
  BY FS_Subset, FS_CardinalityType

LEMMA OneMore ==
  ASSUME NEW S, IsFiniteSet(S), NEW x, NEW T, T \subseteq S \cup {x}
  PROVE  /\ IsFiniteSet(T)
         /\ Cardinality(T) \in Nat /\ Cardinality(S) \in Nat
         /\ Cardinality(T) <= Cardinality(S) + 1
  <1>1. IsFiniteSet(S \cup {x})
    BY FS_AddElement
  <1>2. Cardinality(S \cup {x}) <= Cardinality(S) + 1 /\ Cardinality(S) \in Nat
    <2>1. Cardinality(S) \in Nat
      BY FS_CardinalityType
    <2>2. \/ Cardinality(S \cup {x}) = Cardinality(S)
          \/ Cardinality(S \cup {x}) = Cardinality(S) + 1
      BY FS_AddElement
    <2> QED BY <2>1, <2>2
  <1>3. /\ IsFiniteSet(T) /\ Cardinality(T) \in Nat /\ Cardinality(S \cup {x}) \in Nat
        /\ Cardinality(T) <= Cardinality(S \cup {x})
    BY <1>1, SmallerSet
  <1> QED BY <1>2, <1>3

LEMMA OneLess ==
  ASSUME NEW S, IsFiniteSet(S), NEW x \in S, NEW T, T \subseteq S \ {x}
  PROVE  /\ IsFiniteSet(T)
         /\ Cardinality(T) \in Nat /\ Cardinality(S) \in Nat
         /\ Cardinality(T) + 1 <= Cardinality(S)
  <1>1. /\ IsFiniteSet(S \ {x}) /\ Cardinality(S) \in Nat
        /\ Cardinality(S \ {x}) = Cardinality(S) - 1
    BY FS_RemoveElement, FS_CardinalityType
  <1>2. /\ IsFiniteSet(T) /\ Cardinality(T) \in Nat
        /\ Cardinality(T) <= Cardinality(S \ {x})
    BY <1>1, SmallerSet
  <1> QED BY <1>1, <1>2

-----------------------------------------------------------------------------
\* Whoever is in flight after a quiet step was in flight before it.
LEMMA QuietInFlight ==
  ASSUME IInv, Quiet
  PROVE  InFlight' \subseteq InFlight
  BY DEF Quiet, InFlight, Settled, Handling

LEMMA TasksInFlight ==
  ASSUME IInv, NEW r \in Requests, UsageCommitted(r) \/ UsageUnacknowledged(r)
  PROVE  InFlight' \subseteq InFlight
  BY DEF UsageCommitted, UsageUnacknowledged, ApplyUsage, NextAttempt, reqVars, IInv, TypeOK,
     InFlight, Settled, Handling

LEMMA ValidateInFlight ==
  ASSUME IInv, InFlightBounded, NEW r \in Requests, NEW t \in Tokens, NEW k \in Kinds,
         ValidateKey(r, t, k)
  PROVE  InFlightBounded'
  <1>1. InFlight' \subseteq InFlight \cup {r}
    BY DEF ValidateKey, Goto, taskVars, IInv, TypeOK, InFlight, Settled, Handling
  <1>2. /\ IsFiniteSet(InFlight') /\ Cardinality(InFlight') \in Nat /\ Cardinality(InFlight) \in Nat
        /\ Cardinality(InFlight') <= Cardinality(InFlight) + 1
    BY <1>1, OneMore DEF InFlightBounded
  <1>3. Cardinality(InFlight) < MaxInFlight
    BY DEF ValidateKey
  <1> QED BY <1>2, <1>3, ConstantsAssumption DEF InFlightBounded

LEMMA InFlightInv == IInv /\ InFlightBounded /\ [Next]_vars => InFlightBounded'
  <1> SUFFICES ASSUME IInv, InFlightBounded, [Next]_vars PROVE InFlightBounded'
    OBVIOUS
  <1>1. ASSUME InFlight' \subseteq InFlight PROVE InFlightBounded'
    BY <1>1, SmallerSet, ConstantsAssumption DEF InFlightBounded
  <1>2. ASSUME NEW r \in Requests, NEW k \in Keys, WindowSlides(k, r)
        PROVE  InFlight' \subseteq InFlight
    BY <1>2 DEF WindowSlides, reqVars, taskVars, InFlight
  <1>3. CASE UNCHANGED vars
    BY <1>1, <1>3 DEF vars, reqVars, taskVars, InFlight
  <1>4. CASE Next
    BY <1>4, <1>1, <1>2, QuietInFlight, TasksInFlight, ValidateInFlight, StepCases
  <1> QED BY <1>3, <1>4

-----------------------------------------------------------------------------
(* The token quota.                                                         *)

\* A family of subsets of a finite set has one without a smaller member.
LEMMA SmallestSubset ==
  ASSUME NEW S, IsFiniteSet(S), NEW F, F \subseteq SUBSET S, F # {}
  PROVE  \E T \in F : \A U \in F : U \subseteq T => U = T
  <1>1. F \subseteq FiniteSubsetsOf(S)
    BY FS_FiniteSubsetsOfFinite
  <1>2. PICK T \in F : \A U \in F : <<U, T>> \notin StrictSubsetOrdering(S)
    BY <1>1, FS_StrictSubsetOrderingWellFounded, WFMin
  <1> QED BY <1>2 DEF StrictSubsetOrdering

\* Induction over the subsets of a finite set: a family F that has {} and with
\* a subset every subset with one element more has the set itself.
LEMMA FiniteInduction ==
  ASSUME NEW S, IsFiniteSet(S), NEW F, {} \in F,
         \A T \in F, x \in S : T \cup {x} \in F
  PROVE  S \in F
  <1> SUFFICES ASSUME S \notin F PROVE FALSE
    OBVIOUS
  <1> DEFINE Bad == (SUBSET S) \ F
  <1>1. PICK T \in Bad : \A U \in Bad : U \subseteq T => U = T
    <2>1. Bad \subseteq SUBSET S /\ Bad # {}
      OBVIOUS
    <2> HIDE DEF Bad
    <2> QED BY <2>1, SmallestSubset
  <1>2. PICK x \in T : TRUE
    <2>1. T # {}
      BY <1>1
    <2> QED BY <2>1
  <1>3. T \ {x} \in F
    BY <1>1, <1>2
  <1>4. T = (T \ {x}) \cup {x} /\ x \in S
    BY <1>1, <1>2
  <1> QED BY <1>1, <1>3, <1>4

\* A finite set of costs has a largest one.
LEMMA LargestCost ==
  ASSUME IsFiniteSet(Costs)
  PROVE  MaxCost \in Nat /\ \A c \in Costs : c <= MaxCost
  <1> DEFINE F == {T \in SUBSET Costs : T = {} \/ \E m \in T : \A c \in T : m >= c}
  <1>1. ASSUME NEW T \in F, NEW x \in Costs PROVE T \cup {x} \in F
    <2>1. CASE T = {}
      BY <2>1, ConstantsAssumption
    <2>2. ASSUME NEW m \in T, \A c \in T : m >= c PROVE T \cup {x} \in F
      <3>1. m \in Nat /\ x \in Nat /\ T \subseteq Nat
        BY ConstantsAssumption
      <3>2. CASE m >= x
        BY <2>2, <3>2
      <3>3. CASE x > m
        <4>1. \A c \in T \cup {x} : x >= c
          BY <2>2, <3>1, <3>3
        <4> QED BY <4>1
      <3> QED BY <3>1, <3>2, <3>3
    <2> QED BY <2>1, <2>2
  <1>2. {} \in F
    OBVIOUS
  <1> HIDE DEF F
  <1>3. Costs \in F
    BY <1>1, <1>2, FiniteInduction
  <1>4. PICK m \in Costs : \A c \in Costs : m >= c
    BY <1>3, ConstantsAssumption DEF F
  <1> QED BY <1>4, ConstantsAssumption DEF MaxCost, Max

\* n owed costs of at most m each; one of them is paid.
LEMMA Products ==
  ASSUME NEW m \in Nat, NEW n \in Nat, NEW k \in Nat
  PROVE  /\ n * m \in Nat
         /\ n <= k => n * m <= k * m
         /\ n + 1 <= k => n * m + m <= k * m
  <1>1. n * m \in Nat /\ k * m \in Nat
    OBVIOUS
  <1>2. ASSUME n <= k PROVE n * m <= k * m
    <2>1. PICK d \in Nat : k = n + d
      BY <1>2
    <2>2. k * m = n * m + d * m /\ d * m \in Nat
      BY <2>1
    <2> QED BY <1>1, <2>2
  <1>3. ASSUME n + 1 <= k PROVE n * m + m <= k * m
    <2>1. PICK d \in Nat : k = n + 1 + d
      BY <1>3
    <2>2. k * m = n * m + m + d * m /\ d * m \in Nat
      BY <2>1
    <2> QED BY <1>1, <2>2
  <1> QED BY <1>1, <1>2, <1>3

LEMMA OwingInFlight ==
  ASSUME IInv, InFlightBounded, NEW t \in Tokens
  PROVE  /\ IsFiniteSet(Owing(t)) /\ Cardinality(Owing(t)) \in Nat
         /\ Cardinality(Owing(t)) <= MaxInFlight
  <1>1. Owing(t) \subseteq InFlight
    BY DEF Owing, InFlight, Settled
  <1> QED BY <1>1, SmallerSet, ConstantsAssumption DEF InFlightBounded

\* The room of a token whose total stands still while its debtors get fewer.
LEMMA RoomKept ==
  ASSUME IInv, InFlightBounded, NEW t \in Tokens, IsFiniteSet(Costs), Quota[t] > 0,
         used[t] + Cardinality(Owing(t)) * MaxCost <= Quota[t] - 1 + MaxInFlight * MaxCost,
         Owing(t)' \subseteq Owing(t), used'[t] = used[t]
  PROVE  (used[t] + Cardinality(Owing(t)) * MaxCost <= Quota[t] - 1 + MaxInFlight * MaxCost)'
  <1>1. /\ Cardinality(Owing(t)') \in Nat /\ Cardinality(Owing(t)) \in Nat
        /\ Cardinality(Owing(t)') <= Cardinality(Owing(t))
    BY OwingInFlight, SmallerSet
  <1>2. /\ Cardinality(Owing(t)') * MaxCost <= Cardinality(Owing(t)) * MaxCost
        /\ Cardinality(Owing(t)') * MaxCost \in Nat /\ Cardinality(Owing(t)) * MaxCost \in Nat
        /\ MaxInFlight * MaxCost \in Nat
    BY <1>1, LargestCost, Products, ConstantsAssumption
  <1>3. used[t] \in Nat /\ Quota[t] \in Nat
    BY ConstantsAssumption DEF IInv, TypeOK
  <1>4. (Cardinality(Owing(t)) * MaxCost)' = Cardinality(Owing(t)') * MaxCost
    BY DEF MaxCost
  <1> QED BY <1>2, <1>3, <1>4

\* A commit adds a cost to the token, and its request no longer owes it.
LEMMA RoomUsed ==
  ASSUME IInv, InFlightBounded, NEW t \in Tokens, IsFiniteSet(Costs), Quota[t] > 0,
         used[t] + Cardinality(Owing(t)) * MaxCost <= Quota[t] - 1 + MaxInFlight * MaxCost,
         NEW r \in Owing(t), NEW c \in Costs,
         Owing(t)' \subseteq Owing(t) \ {r}, used'[t] = used[t] + c
  PROVE  (used[t] + Cardinality(Owing(t)) * MaxCost <= Quota[t] - 1 + MaxInFlight * MaxCost)'
  <1>1. /\ Cardinality(Owing(t)') \in Nat /\ Cardinality(Owing(t)) \in Nat
        /\ Cardinality(Owing(t)') + 1 <= Cardinality(Owing(t))
    BY OwingInFlight, OneLess
  <1>2. /\ Cardinality(Owing(t)') * MaxCost + MaxCost <= Cardinality(Owing(t)) * MaxCost
        /\ Cardinality(Owing(t)') * MaxCost \in Nat /\ Cardinality(Owing(t)) * MaxCost \in Nat
        /\ MaxInFlight * MaxCost \in Nat
    BY <1>1, LargestCost, Products, ConstantsAssumption
  <1>3. used[t] \in Nat /\ Quota[t] \in Nat /\ c \in Nat /\ MaxCost \in Nat /\ c <= MaxCost
    BY LargestCost, ConstantsAssumption DEF IInv, TypeOK
  <1>4. (Cardinality(Owing(t)) * MaxCost)' = Cardinality(Owing(t)') * MaxCost
    BY DEF MaxCost
  <1> QED BY <1>2, <1>3, <1>4

\* An admission on a total below the quota: all that may come is in flight.
LEMMA RoomAtAdmission ==
  ASSUME IInv, IInv', InFlightBounded', NEW t \in Tokens, IsFiniteSet(Costs), Quota[t] > 0,
         used[t] < Quota[t], used'[t] = used[t]
  PROVE  (used[t] + Cardinality(Owing(t)) * MaxCost <= Quota[t] - 1 + MaxInFlight * MaxCost)'
  <1>1. Owing(t)' \subseteq InFlight'
    BY DEF Owing, InFlight, Settled
  <1>2. /\ Cardinality(Owing(t)') \in Nat
        /\ Cardinality(Owing(t)') <= MaxInFlight
    BY <1>1, SmallerSet, ConstantsAssumption DEF InFlightBounded
  <1>3. /\ Cardinality(Owing(t)') * MaxCost <= MaxInFlight * MaxCost
        /\ Cardinality(Owing(t)') * MaxCost \in Nat /\ MaxInFlight * MaxCost \in Nat
    BY <1>2, LargestCost, Products, ConstantsAssumption
  <1>4. used[t] \in Nat /\ Quota[t] \in Nat
    BY ConstantsAssumption DEF IInv, TypeOK
  <1>5. (Cardinality(Owing(t)) * MaxCost)' = Cardinality(Owing(t)') * MaxCost
    BY DEF MaxCost
  <1> QED BY <1>3, <1>4, <1>5

LEMMA QuietOwing ==
  ASSUME IInv, Stages, Quiet, NEW t \in Tokens, Quota[t] > 0
  PROVE  Owing(t)' \subseteq Owing(t) /\ used'[t] = used[t]
  <1>1. ASSUME NEW q \in Owing(t)' PROVE q \in Owing(t)
    <2>1. q \in Requests /\ tok[q] = t /\ (pc[q] # "forward" \/ snap[q] < Quota[t])
      BY <1>1 DEF Owing, Quiet, Stages
    <2> QED BY <1>1, <2>1 DEF Owing, Quiet, Stages, Handling, IInv, TasksFollowReply
  <1> QED BY <1>1 DEF Quiet

LEMMA QuotaRoomInv ==
  ASSUME IsFiniteSet(Costs), IInv, IInv', Stages, InFlightBounded, InFlightBounded', QuotaRoom,
         [Next]_vars
  PROVE  QuotaRoom'
  <1> SUFFICES ASSUME NEW t \in Tokens, Quota[t] > 0
               PROVE  (used[t] + Cardinality(Owing(t)) * MaxCost <= Quota[t] - 1 + MaxInFlight * MaxCost)'
    BY DEF QuotaRoom
  <1> DEFINE Room == used[t] + Cardinality(Owing(t)) * MaxCost <= Quota[t] - 1 + MaxInFlight * MaxCost
  <1>0. Room
    BY DEF QuotaRoom
  <1>1. ASSUME Owing(t)' \subseteq Owing(t), used'[t] = used[t] PROVE Room'
    BY <1>0, <1>1, RoomKept
  <1>2. ASSUME Quiet PROVE Room'
    BY <1>1, <1>2, QuietOwing
  <1>3. ASSUME NEW r \in Requests, NEW u \in Tokens, NEW k \in Kinds, ValidateKey(r, u, k)
        PROVE  Room'
    <2>1. used' = used
      BY <1>3 DEF ValidateKey, dbVars
    <2>2. CASE used[t] < Quota[t]
      BY <2>1, <2>2, RoomAtAdmission
    <2>3. CASE ~(used[t] < Quota[t])
      <3>1. Owing(t)' \subseteq Owing(t)
        BY <1>3, <2>3 DEF ValidateKey, Goto, taskVars, dbVars, Owing, IInv, TypeOK, Handling,
           TasksFollowReply
      <3> QED BY <2>1, <3>1, <1>1
    <2> QED BY <2>2, <2>3
  <1>4. ASSUME NEW r \in Requests, UsageCommitted(r) \/ UsageUnacknowledged(r)
        PROVE  Room'
    <2>1. /\ r \notin logs /\ usage[r] = "pending" /\ ApplyUsage(r) /\ UNCHANGED <<pc, tok, snap>>
          /\ \A q \in Requests : usage'[q] = "pending" => usage[q] = "pending"
      BY <1>4 DEF UsageCommitted, UsageUnacknowledged, NextAttempt, reqVars, IInv, TypeOK
    <2>2. CASE tok[r] = t
      <3>1. r \in Owing(t) /\ Owing(t)' \subseteq Owing(t) \ {r}
        BY <2>1, <2>2 DEF Owing, ApplyUsage, IInv, TasksFollowReply, Handling
      <3>2. used'[t] = used[t] + cost[r] /\ cost[r] \in Costs
        BY <2>1, <2>2 DEF ApplyUsage, IInv, TypeOK
      <3> QED BY <1>0, <3>1, <3>2, RoomUsed
    <2>3. CASE tok[r] # t
      <3>1. Owing(t)' \subseteq Owing(t) /\ used'[t] = used[t]
        BY <2>1, <2>3 DEF Owing, ApplyUsage, IInv, TypeOK
      <3> QED BY <3>1, <1>1
    <2> QED BY <2>2, <2>3
  <1>5. ASSUME NEW r \in Requests, NEW k \in Keys, WindowSlides(k, r)
        PROVE  Room'
    BY <1>1, <1>5 DEF WindowSlides, reqVars, taskVars, dbVars, Owing
  <1>6. CASE UNCHANGED vars
    BY <1>1, <1>6 DEF vars, reqVars, taskVars, dbVars, Owing
  <1>7. CASE Next
    <2>1. \/ Quiet
          \/ \E r \in Requests, u \in Tokens, k \in Kinds : ValidateKey(r, u, k)
          \/ \E r \in Requests : UsageCommitted(r) \/ UsageUnacknowledged(r)
          \/ \E r \in Requests, k \in Keys : WindowSlides(k, r)
      BY <1>7, StepCases
    <2> QED BY <2>1, <1>2, <1>3, <1>4, <1>5
  <1> QED BY <1>6, <1>7

-----------------------------------------------------------------------------
(* The package limit.                                                       *)

LEMMA CoveredInFlight ==
  ASSUME IInv, InFlightBounded, NEW k \in Keys, IsFiniteSet(window[k])
  PROVE  /\ IsFiniteSet(Counting(k)) /\ Cardinality(Counting(k)) \in Nat
         /\ Cardinality(Counting(k)) <= MaxInFlight
         /\ IsFiniteSet(CoveredIn(k)) /\ Cardinality(CoveredIn(k)) \in Nat
         /\ Cardinality(CoveredIn(k)) <= Cardinality(window[k])
         /\ Cardinality(window[k]) \in Nat
  <1>1. Counting(k) \subseteq InFlight
    BY DEF Counting, InFlight, Settled
  <1>2. CoveredIn(k) \subseteq window[k]
    BY DEF CoveredIn
  <1> QED BY <1>1, <1>2, SmallerSet, ConstantsAssumption DEF InFlightBounded

WindowOK(k) ==
  /\ IsFiniteSet(window[k])
  /\ PackageLimit[k[1]] > 0 =>
       Cardinality(CoveredIn(k)) + Cardinality(Counting(k)) <= PackageLimit[k[1]] - 1 + MaxInFlight

\* Neither recorded nor about to be: the window of k has at least the room it had.
LEMMA WindowKept ==
  ASSUME IInv, InFlightBounded, InFlightBounded', NEW k \in Keys, WindowOK(k),
         IsFiniteSet(window'[k]), Counting(k)' \subseteq Counting(k),
         CoveredIn(k)' \subseteq CoveredIn(k)
  PROVE  WindowOK(k)'
  <1>1. /\ Cardinality(CoveredIn(k)') \in Nat /\ Cardinality(CoveredIn(k)) \in Nat
        /\ Cardinality(CoveredIn(k)') <= Cardinality(CoveredIn(k))
        /\ Cardinality(Counting(k)') \in Nat /\ Cardinality(Counting(k)) \in Nat
        /\ Cardinality(Counting(k)') <= Cardinality(Counting(k))
    BY CoveredInFlight, SmallerSet DEF WindowOK
  <1>2. PackageLimit[k[1]] > 0 =>
          Cardinality(CoveredIn(k)') + Cardinality(Counting(k)') <= PackageLimit[k[1]] - 1 + MaxInFlight
    <2>1. k[1] \in Groups
      BY DEF Keys
    <2> QED BY <1>1, <2>1, ConstantsAssumption DEF WindowOK
  <1> QED BY <1>2 DEF WindowOK

\* A covered request that was about to be recorded is.
LEMMA WindowRecorded ==
  ASSUME IInv, InFlightBounded, NEW k \in Keys, WindowOK(k), NEW r \in Counting(k),
         window'[k] = window[k] \cup {r}, Counting(k)' \subseteq Counting(k) \ {r},
         CoveredIn(k)' \subseteq CoveredIn(k) \cup {r}
  PROVE  WindowOK(k)'
  <1>1. IsFiniteSet(window'[k])
    BY OneMore DEF WindowOK
  <1>2. /\ Cardinality(CoveredIn(k)') \in Nat /\ Cardinality(CoveredIn(k)) \in Nat
        /\ Cardinality(CoveredIn(k)') <= Cardinality(CoveredIn(k)) + 1
    BY CoveredInFlight, OneMore DEF WindowOK
  <1>3. /\ Cardinality(Counting(k)') \in Nat /\ Cardinality(Counting(k)) \in Nat
        /\ Cardinality(Counting(k)') + 1 <= Cardinality(Counting(k))
    BY CoveredInFlight, OneLess DEF WindowOK
  <1>4. k[1] \in Groups
    BY DEF Keys
  <1> QED BY <1>1, <1>2, <1>3, <1>4, ConstantsAssumption DEF WindowOK

\* The package covers a request while the window is below the limit: all that
\* may still be recorded is in flight.
LEMMA WindowAtCover ==
  ASSUME IInv, IInv', InFlightBounded', NEW k \in Keys, IsFiniteSet(window[k]),
         Cardinality(window[k]) < PackageLimit[k[1]], window'[k] = window[k]
  PROVE  WindowOK(k)'
  <1>1. Counting(k)' \subseteq InFlight'
    BY DEF Counting, InFlight, Settled
  <1>2. /\ Cardinality(Counting(k)') \in Nat
        /\ Cardinality(Counting(k)') <= MaxInFlight
    BY <1>1, SmallerSet, ConstantsAssumption DEF InFlightBounded
  <1>3. CoveredIn(k)' \subseteq window[k]
    BY DEF CoveredIn
  <1>4. /\ Cardinality(CoveredIn(k)') \in Nat /\ Cardinality(window[k]) \in Nat
        /\ Cardinality(CoveredIn(k)') <= Cardinality(window[k])
    BY <1>3, SmallerSet
  <1>5. k[1] \in Groups
    BY DEF Keys
  <1> QED BY <1>2, <1>4, <1>5, ConstantsAssumption DEF WindowOK

LEMMA QuietCounting ==
  ASSUME IInv, Quiet, QuietWindow, NEW k \in Keys
  PROVE  Counting(k)' \subseteq Counting(k) /\ CoveredIn(k)' \subseteq CoveredIn(k)
         /\ window'[k] \subseteq window[k]
  BY DEF Quiet, QuietWindow, Counting, CoveredIn, Key, Group, Owner, Handling

LEMMA WindowRoomInv ==
  ASSUME "redis" \notin Faults, IInv, IInv', Stages, InFlightBounded, InFlightBounded', WindowRoom,
         [Next]_vars
  PROVE  WindowRoom'
  <1> SUFFICES ASSUME NEW k \in Keys PROVE WindowOK(k)'
    BY DEF WindowRoom, WindowOK
  <1>0. WindowOK(k)
    BY DEF WindowRoom, WindowOK
  <1>1. ASSUME window'[k] \subseteq window[k], Counting(k)' \subseteq Counting(k),
               CoveredIn(k)' \subseteq CoveredIn(k)
        PROVE  WindowOK(k)'
    BY <1>0, <1>1, WindowKept, SmallerSet DEF WindowOK
  <1>2. ASSUME Quiet, QuietWindow PROVE WindowOK(k)'
    BY <1>1, <1>2, QuietCounting
  <1>3. ASSUME NEW r \in Requests, NEW t \in Tokens, NEW d \in Kinds, ValidateKey(r, t, d)
        PROVE  WindowOK(k)'
    <2>1. Counting(k)' \subseteq Counting(k) /\ CoveredIn(k)' \subseteq CoveredIn(k)
      BY <1>3 DEF ValidateKey, Goto, taskVars, Counting, CoveredIn, Stages, IInv, TypeOK,
         Key, Group, Owner, Handling
    <2>2. window' = window
      BY <1>3 DEF ValidateKey
    <2> QED BY <2>1, <2>2, <1>1
  <1>4. ASSUME NEW r \in Requests, PackageCovers(r)
        PROVE  WindowOK(k)'
    <2>1. PackageAllows(r) /\ window' = window /\ pc[r] = "limits"
      BY <1>4 DEF PackageCovers
    <2>2. CASE Key(r) = k
      <3>1. Cardinality(window[k]) < PackageLimit[k[1]]
        BY <2>1, <2>2 DEF PackageAllows, Key
      <3> QED BY <1>0, <2>1, <3>1, WindowAtCover DEF WindowOK
    <2>3. CASE Key(r) # k
      <3>1. Counting(k)' \subseteq Counting(k)
        BY <1>4, <2>3 DEF PackageCovers, Goto, taskVars, Counting, IInv, TypeOK, Key, Group,
           Owner, Handling
      <3>2. CoveredIn(k)' \subseteq CoveredIn(k)
        BY <1>4, <2>1 DEF PackageCovers, CoveredIn, Stages, IInv, TypeOK
      <3> QED BY <2>1, <3>1, <3>2, <1>1
    <2> QED BY <2>2, <2>3
  <1>5. ASSUME NEW r \in Requests, UsageCommitted(r) \/ UsageUnacknowledged(r)
        PROVE  WindowOK(k)'
    BY <1>1, <1>5 DEF UsageCommitted, UsageUnacknowledged, reqVars, Counting, CoveredIn, Key, Group,
       Owner
  <1>6. ASSUME NEW r \in Requests, UsageReplayed(r) \/ UsageFails(r) \/ CounterFails(r) \/ BalanceWrite(r)
        PROVE  WindowOK(k)'
    <2>1. Quiet
      BY <1>6, TasksQuiet DEF CounterWrite
    <2>2. QuietWindow
      BY <1>6 DEF QuietWindow, UsageReplayed, UsageFails, CounterFails, BalanceWrite, SkipDeduct, Deduct,
         DeductFails, reqVars, dbVars
    <2> QED BY <2>1, <2>2, <1>2
  <1>7. ASSUME NEW r \in Requests, RecordCounter(r)
        PROVE  WindowOK(k)'
    <2>1. /\ counter[r] = "pending" /\ counter' = [counter EXCEPT ![r] = "done"]
          /\ UNCHANGED <<pc, tok, covered>> /\ pc[r] = "replied"
      BY <1>7 DEF RecordCounter, CounterReady, reqVars, IInv, TasksFollowReply
    <2>2. Counting(k)' \subseteq Counting(k) \ {r}
      BY <2>1 DEF Counting, IInv, TypeOK, Key, Group, Owner, Handling
    <2>3. CASE window'[k] = window[k]
      <3>1. CoveredIn(k)' \subseteq CoveredIn(k)
        BY <2>1, <2>3 DEF CoveredIn
      <3> QED BY <2>2, <2>3, <3>1, <1>1
    <2>4. CASE window'[k] # window[k]
      <3>1. Key(r) = k /\ window'[k] = window[k] \cup {r} /\ r \notin window[k]
        BY <1>7, <2>4 DEF RecordCounter, IInv, TypeOK
      <3>2. CASE covered[r]
        <4>1. r \in Counting(k)
          BY <2>1, <3>1, <3>2 DEF Counting
        <4>2. CoveredIn(k)' \subseteq CoveredIn(k) \cup {r}
          BY <2>1, <3>1 DEF CoveredIn
        <4> QED BY <1>0, <2>2, <3>1, <4>1, <4>2, WindowRecorded
      <3>3. CASE ~covered[r]
        <4>1. CoveredIn(k)' \subseteq CoveredIn(k) /\ Counting(k)' \subseteq Counting(k)
          BY <2>1, <2>2, <3>1, <3>3 DEF CoveredIn
        <4>2. IsFiniteSet(window'[k])
          BY <1>0, <3>1, OneMore DEF WindowOK
        <4>3. WindowOK(k)'
          BY <1>0, <4>1, <4>2, WindowKept
        <4> QED BY <4>3
      <3> QED BY <3>2, <3>3
    <2> QED BY <2>3, <2>4
  <1>8. ASSUME NEW r \in Requests, NEW j \in Keys, WindowSlides(j, r)
        PROVE  WindowOK(k)'
    BY <1>1, <1>8 DEF WindowSlides, reqVars, taskVars, Counting, CoveredIn, Key, Group, Owner,
       IInv, TypeOK
  <1>9. CASE UNCHANGED vars
    BY <1>1, <1>9 DEF vars, reqVars, taskVars, Counting, CoveredIn, Key, Group, Owner
  <1>10. CASE Next
    BY <1>10, <1>2, <1>3, <1>4, <1>5, <1>6, <1>7, <1>8, AdmissionQuiet, AdmissionQuietWindow,
       ForwardingQuiet, ProcessQuiet
    DEF Next, UsageWrite, CounterWrite, Admission
  <1> QED BY <1>9, <1>10

-----------------------------------------------------------------------------
LEMMA LimitsInit == Init => Stages /\ InFlightBounded /\ (IsFiniteSet(Costs) => QuotaRoom) /\ WindowRoom
  <1> SUFFICES ASSUME Init
               PROVE  Stages /\ InFlightBounded /\ (IsFiniteSet(Costs) => QuotaRoom) /\ WindowRoom
    OBVIOUS
  <1>1. Stages
    BY DEF Init, Stages
  <1>2. InFlightBounded
    <2>1. InFlight = {}
      BY DEF Init, InFlight, Settled, Handling
    <2> QED BY <2>1, FS_EmptySet, ConstantsAssumption DEF InFlightBounded
  <1>3. ASSUME IsFiniteSet(Costs) PROVE QuotaRoom
    <2> SUFFICES ASSUME NEW t \in Tokens, Quota[t] > 0
                 PROVE  used[t] + Cardinality(Owing(t)) * MaxCost <= Quota[t] - 1 + MaxInFlight * MaxCost
      BY DEF QuotaRoom
    <2>1. Owing(t) = {} /\ used[t] = 0
      BY DEF Init, Owing, Handling
    <2>2. Cardinality(Owing(t)) = 0
      BY <2>1, FS_EmptySet
    <2>3. MaxCost \in Nat /\ MaxInFlight * MaxCost \in Nat /\ 0 * MaxCost = 0
      BY <1>3, LargestCost, Products, ConstantsAssumption
    <2> QED BY <2>1, <2>2, <2>3, ConstantsAssumption
  <1>4. WindowRoom
    <2> SUFFICES ASSUME NEW k \in Keys PROVE WindowOK(k)
      BY DEF WindowRoom, WindowOK
    <2>1. window[k] = {} /\ CoveredIn(k) = {} /\ Counting(k) = {} /\ k[1] \in Groups
      BY DEF Init, CoveredIn, Counting, Keys
    <2> QED BY <2>1, FS_EmptySet, ConstantsAssumption DEF WindowOK
  <1> QED BY <1>1, <1>2, <1>3, <1>4

\* Admission bounds what is in flight, and at every stage a request has passed
\* the checks before it.
THEOREM BillingInFlight == Spec => [](IInv /\ Stages /\ InFlightBounded)
  <1>1. Init => IInv /\ Stages /\ InFlightBounded
    BY InitInv, LimitsInit
  <1>2. IInv /\ Stages /\ InFlightBounded /\ [Next]_vars => (IInv /\ Stages /\ InFlightBounded)'
    BY NextInv, StagesInv, InFlightInv
  <1> QED BY <1>1, <1>2, PTL DEF Spec

LEMMA RoomBounds ==
  ASSUME IsFiniteSet(Costs), IInv, InFlightBounded, QuotaRoom
  PROVE  QuotaOvershootBounded
  <1> SUFFICES ASSUME NEW t \in Tokens, Quota[t] > 0
               PROVE  used[t] <= Quota[t] - 1 + MaxInFlight * MaxCost
    BY DEF QuotaOvershootBounded
  <1>1. Cardinality(Owing(t)) * MaxCost \in Nat /\ MaxInFlight * MaxCost \in Nat
    BY OwingInFlight, LargestCost, Products, ConstantsAssumption
  <1>2. used[t] \in Nat /\ Quota[t] \in Nat
    BY ConstantsAssumption DEF IInv, TypeOK
  <1> QED BY <1>1, <1>2 DEF QuotaRoom

LEMMA RoomBoundsPackage ==
  ASSUME IInv, InFlightBounded, WindowRoom
  PROVE  PackageOvershootBounded
  <1> SUFFICES ASSUME NEW k \in Keys, PackageLimit[k[1]] # 0
               PROVE  Cardinality(CoveredIn(k)) <= PackageLimit[k[1]] - 1 + MaxInFlight
    BY DEF PackageOvershootBounded, CoveredIn
  <1>1. PackageLimit[k[1]] > 0 /\ PackageLimit[k[1]] \in Nat
    BY ConstantsAssumption DEF Keys
  <1>2. Cardinality(CoveredIn(k)) \in Nat /\ Cardinality(Counting(k)) \in Nat
    BY CoveredInFlight DEF WindowRoom
  <1> QED BY <1>1, <1>2, ConstantsAssumption DEF WindowRoom

\* Whatever fails and whenever the process stops, a token exceeds its quota by
\* at most what was in flight when its last request was admitted.
THEOREM BillingQuotaOvershoot ==
  ASSUME IsFiniteSet(Costs)
  PROVE  Spec => []QuotaOvershootBounded
  <1>1. Init => QuotaRoom
    BY LimitsInit
  <1>2. IInv /\ Stages /\ InFlightBounded /\ (IInv /\ Stages /\ InFlightBounded)' /\ QuotaRoom /\ [Next]_vars
          => QuotaRoom'
    BY QuotaRoomInv
  <1>3. IInv /\ InFlightBounded /\ QuotaRoom => QuotaOvershootBounded
    BY RoomBounds
  <1> QED BY <1>1, <1>2, <1>3, BillingInFlight, PTL DEF Spec

\* While Redis answers, the same holds of a package's window, so that stale
\* reads exceed either limit by at most what was in flight.
THEOREM BillingOvershoot ==
  ASSUME IsFiniteSet(Costs), "redis" \notin Faults
  PROVE  Spec => []OvershootBounded
  <1>1. Init => WindowRoom
    BY LimitsInit
  <1>2. IInv /\ Stages /\ InFlightBounded /\ (IInv /\ Stages /\ InFlightBounded)' /\ WindowRoom /\ [Next]_vars
          => WindowRoom'
    BY WindowRoomInv
  <1>3. IInv /\ InFlightBounded /\ WindowRoom => PackageOvershootBounded
    BY RoomBoundsPackage
  <1>4. Spec => []PackageOvershootBounded
    BY <1>1, <1>2, <1>3, BillingInFlight, PTL DEF Spec
  <1>5. QuotaOvershootBounded /\ PackageOvershootBounded => OvershootBounded
    BY DEF OvershootBounded
  <1> QED BY <1>4, <1>5, BillingQuotaOvershoot, PTL

-----------------------------------------------------------------------------
(* Sums over finite sets.  MapThenSumSet takes the elements one by one in an *)
(* order of its own; Additive says what any such sum must satisfy, whatever  *)
(* the order.                                                                *)

Additive(c, S, g) ==
  /\ g \in [SUBSET S -> Nat]
  /\ g[{}] = 0
  /\ \A T \in SUBSET S : \A x \in T : g[T] = c[x] + g[T \ {x}]

\* The recursion behind MapThenSumSet.
Iteration(c, S, g) ==
  g = [T \in SUBSET S |->
         IF T = {} THEN 0 ELSE LET x == CHOOSE x \in T : TRUE IN c[x] + g[T \ {x}]]

LEMMA TotalUnfolds ==
  ASSUME NEW c, NEW S, NEW g, Iteration(c, S, g)
  PROVE  \E h : Iteration(c, S, h) /\ TotalOf(c, S) = h[S]
  BY DEF TotalOf, Iteration, MapThenSumSet, MapThenFoldSet

\* A sum over all subsets at once exists ...
LEMMA AdditiveExists ==
  ASSUME NEW D, NEW c \in [D -> Nat], NEW S, S \subseteq D, IsFiniteSet(S)
  PROVE  \E g : Additive(c, S, g)
  <1> DEFINE F == {T \in SUBSET S : \E g : Additive(c, T, g)}
  <1>1. {} \in F
    <2>1. Additive(c, {}, [T \in SUBSET {} |-> 0])
      BY DEF Additive
    <2> QED BY <2>1
  <1>2. ASSUME NEW T \in F, NEW x \in S PROVE T \cup {x} \in F
    <2>1. CASE x \in T
      <3>1. T \cup {x} = T
        BY <2>1
      <3> QED BY <3>1
    <2>2. CASE x \notin T
      <3>1. PICK g : Additive(c, T, g)
        OBVIOUS
      <3> DEFINE h == [U \in SUBSET (T \cup {x}) |->
                         IF x \in U THEN g[U \ {x}] + c[x] ELSE g[U]]
      <3>2. /\ c[x] \in Nat
            /\ \A U \in SUBSET T : g[U] \in Nat
            /\ \A U \in SUBSET T : \A y \in U : g[U] = c[y] + g[U \ {y}]
        BY <3>1 DEF Additive
      <3>3. h \in [SUBSET (T \cup {x}) -> Nat]
        <4>1. ASSUME NEW U \in SUBSET (T \cup {x})
              PROVE  (IF x \in U THEN g[U \ {x}] + c[x] ELSE g[U]) \in Nat
          <5>1. CASE x \in U
            <6>1. U \ {x} \in SUBSET T
              OBVIOUS
            <6> QED BY <3>2, <5>1, <6>1
          <5>2. CASE x \notin U
            <6>1. U \in SUBSET T
              BY <5>2
            <6> QED BY <3>2, <5>2, <6>1
          <5> QED BY <5>1, <5>2
        <4> QED BY <4>1
      <3>4. h[{}] = 0
        BY <3>1 DEF Additive
      <3>5. ASSUME NEW U \in SUBSET (T \cup {x}), NEW y \in U
            PROVE  h[U] = c[y] + h[U \ {y}]
        <4>1. c[y] \in Nat
          OBVIOUS
        <4>2. CASE y = x
          <5>1. h[U] = g[U \ {x}] + c[x] /\ U \ {x} \in SUBSET T
            BY <4>2
          <5>2. h[U \ {x}] = g[U \ {x}]
            OBVIOUS
          <5> QED BY <3>2, <4>2, <5>1, <5>2
        <4>3. CASE y # x /\ x \in U
          <5>1. /\ h[U] = g[U \ {x}] + c[x] /\ U \ {x} \in SUBSET T
                /\ h[U \ {y}] = g[(U \ {y}) \ {x}] + c[x]
            BY <4>3
          <5> DEFINE V == (U \ {x}) \ {y}
          <5>2. (U \ {y}) \ {x} = V /\ V \in SUBSET T /\ y \in U \ {x}
            BY <4>3, <5>1
          <5>3. g[U \ {x}] = c[y] + g[V] /\ g[V] \in Nat
            BY <3>2, <5>1, <5>2
          <5>4. h[U \ {y}] = g[V] + c[x] /\ h[U] = c[y] + g[V] + c[x]
            BY <5>1, <5>2, <5>3
          <5> HIDE DEF h, V
          <5> QED BY <3>2, <4>1, <5>3, <5>4
        <4>4. CASE x \notin U
          <5>1. /\ h[U] = g[U] /\ U \in SUBSET T
                /\ h[U \ {y}] = g[U \ {y}]
            BY <4>4
          <5> QED BY <3>2, <5>1
        <4> QED BY <4>2, <4>3, <4>4
      <3> HIDE DEF h
      <3>6. Additive(c, T \cup {x}, h)
        BY <3>3, <3>4, <3>5 DEF Additive
      <3> QED BY <3>6
    <2> QED BY <2>1, <2>2
  <1> HIDE DEF F
  <1>3. S \in F
    BY <1>1, <1>2, FiniteInduction
  <1> QED BY <1>3 DEF F

\* ... and it is what MapThenSumSet computes.
LEMMA AdditiveIsTotal ==
  ASSUME NEW c, NEW S, IsFiniteSet(S), NEW g, Additive(c, S, g)
  PROVE  TotalOf(c, S) = g[S]
  <1>1. Iteration(c, S, g)
    <2>1. ASSUME NEW T \in SUBSET S
          PROVE  g[T] = IF T = {} THEN 0 ELSE LET x == CHOOSE x \in T : TRUE IN c[x] + g[T \ {x}]
      BY DEF Additive
    <2>2. g = [T \in SUBSET S |-> g[T]]
      BY DEF Additive
    <2> QED BY <2>1, <2>2 DEF Iteration
  <1>2. PICK h : Iteration(c, S, h) /\ TotalOf(c, S) = h[S]
    BY <1>1, TotalUnfolds
  <1>3. h[S] = g[S]
    <2> DEFINE Bad == {T \in SUBSET S : h[T] # g[T]}
    <2> SUFFICES ASSUME Bad # {} PROVE FALSE
      OBVIOUS
    <2>1. PICK T \in Bad : \A U \in Bad : U \subseteq T => U = T
      <3>1. Bad \subseteq SUBSET S
        OBVIOUS
      <3> HIDE DEF Bad
      <3> QED BY <3>1, SmallestSubset
    <2>2. T # {}
      BY <1>2, <2>1 DEF Iteration, Additive
    <2> DEFINE x == CHOOSE x \in T : TRUE
    <2>3. x \in T
      BY <2>2
    <2>4. T \ {x} \in SUBSET S /\ h[T \ {x}] = g[T \ {x}]
      BY <2>1, <2>3
    <2>5. h[T] = c[x] + h[T \ {x}]
      BY <1>2, <2>1, <2>2 DEF Iteration
    <2>6. g[T] = c[x] + g[T \ {x}]
      BY <2>1, <2>3 DEF Additive
    <2> QED BY <2>1, <2>4, <2>5, <2>6
  <1> QED BY <1>2, <1>3

LEMMA TotalEmpty == ASSUME NEW c PROVE TotalOf(c, {}) = 0
  <1>1. Additive(c, {}, [T \in SUBSET {} |-> 0])
    BY DEF Additive
  <1> QED BY <1>1, AdditiveIsTotal, FS_EmptySet

LEMMA TotalAdds ==
  ASSUME NEW D, NEW c \in [D -> Nat], NEW S, S \subseteq D, IsFiniteSet(S), NEW x \in D, x \notin S
  PROVE  /\ TotalOf(c, S) \in Nat
         /\ TotalOf(c, S \cup {x}) = TotalOf(c, S) + c[x]
  <1>1. IsFiniteSet(S \cup {x})
    BY FS_AddElement
  <1>2. PICK g : Additive(c, S \cup {x}, g)
    BY <1>1, AdditiveExists
  <1> DEFINE h == [T \in SUBSET S |-> g[T]]
  <1>3. Additive(c, S, h)
    <2>1. h \in [SUBSET S -> Nat]
      BY <1>2 DEF Additive
    <2>2. h[{}] = 0
      BY <1>2 DEF Additive
    <2>3. ASSUME NEW T \in SUBSET S, NEW y \in T PROVE h[T] = c[y] + h[T \ {y}]
      <3>1. T \in SUBSET (S \cup {x}) /\ T \ {y} \in SUBSET S
        OBVIOUS
      <3> QED BY <1>2, <3>1 DEF Additive
    <2> HIDE DEF h
    <2> QED BY <2>1, <2>2, <2>3 DEF Additive
  <1>4. TotalOf(c, S) = g[S] /\ TotalOf(c, S \cup {x}) = g[S \cup {x}]
    BY <1>1, <1>2, <1>3, AdditiveIsTotal
  <1>5. g[S] \in Nat /\ c[x] \in Nat
    BY <1>2 DEF Additive
  <1>6. g[S \cup {x}] = c[x] + g[S]
    <2>1. (S \cup {x}) \ {x} = S
      OBVIOUS
    <2> QED BY <1>2, <2>1 DEF Additive
  <1> QED BY <1>4, <1>5, <1>6

\* Only the values on the set count.
LEMMA TotalSame ==
  ASSUME NEW D, NEW c \in [D -> Nat], NEW d, NEW S, S \subseteq D, IsFiniteSet(S),
         \A r \in S : d[r] = c[r]
  PROVE  TotalOf(d, S) = TotalOf(c, S)
  <1>1. PICK g : Additive(c, S, g)
    BY AdditiveExists
  <1>2. Additive(d, S, g)
    BY <1>1 DEF Additive
  <1> QED BY <1>1, <1>2, AdditiveIsTotal

-----------------------------------------------------------------------------
(* The ledgers.                                                             *)

Logged(t)   == {r \in logs : tok[r] = t}
Deducted(u) == {r \in Requests : deductions[r] > 0 /\ Owner(r) = u}

\* Only finitely many requests have been logged or deducted so far.
LedgersFinite ==
  /\ IsFiniteSet(logs)
  /\ IsFiniteSet({r \in Requests : deductions[r] > 0})

LedgerInv == LedgersFinite /\ TokenTotalMatchesLogs /\ BalanceMatchesDeductions

\* A step that writes neither ledger and does not reprice an answered request.
LedgerQuiet ==
  /\ UNCHANGED <<used, logs, balance, spent, deductions>>
  /\ \A q \in Requests : pc[q] = "replied" => tok'[q] = tok[q] /\ cost'[q] = cost[q]

LEMMA LedgerQuietSteps ==
  ASSUME IInv, Next
  PROVE  \/ LedgerQuiet
         \/ \E r \in Requests : UsageCommitted(r) \/ UsageUnacknowledged(r) \/ Deduct(r)
  <1> USE DEF LedgerQuiet, dbVars, ghosts, reqVars
  <1>1. ASSUME NEW r \in Requests,
               \/ \E t \in Tokens, k \in Kinds : ValidateKey(r, t, k)
               \/ RejectKey(r) \/ Admission(r)
        PROVE  LedgerQuiet
    BY <1>1 DEF ValidateKey, RejectKey, Admission, PackageCovers, PackageDeclines, PackageUnknown,
       CheckBalance, BalanceUnknown, CheckQuota, IInv, TypeOK
  <1>2. ASSUME NEW r \in Requests, Forwarding(r) PROVE LedgerQuiet
    BY <1>2 DEF Forwarding, ReplyPlain, ReplyStream, ReplyConverted, UpstreamFails,
       PlainPricingFails, ChainPricingFails, StartTasks, taskVars, IInv, TypeOK
  <1>3. ASSUME NEW r \in Requests, UsageReplayed(r) \/ UsageFails(r) \/ CounterWrite(r)
                                   \/ SkipDeduct(r) \/ DeductFails(r)
        PROVE  LedgerQuiet
    BY <1>3 DEF UsageReplayed, UsageFails, CounterWrite, RecordCounter, CounterFails, SkipDeduct, DeductFails
  <1>4. ASSUME NEW r \in Requests, NEW k \in Keys, WindowSlides(k, r) PROVE LedgerQuiet
    BY <1>4 DEF WindowSlides
  <1>5. ASSUME StopAccepting \/ DrainFinishes \/ DrainTimesOut \/ Crash \/ Restart PROVE LedgerQuiet
    BY <1>5 DEF StopAccepting, DrainFinishes, DrainTimesOut, Crash, Restart
  <1> QED BY <1>1, <1>2, <1>3, <1>4, <1>5 DEF Next, UsageWrite, BalanceWrite

LEMMA LedgerTypes ==
  ASSUME IInv
  PROVE  /\ cost \in [Requests -> Nat]
         /\ \A r \in Requests : tok[r] \in Tokens /\ Owner(r) \in Users \cup {NoUser}
         /\ used \in [Tokens -> Nat] /\ spent \in [Users -> Nat]
         /\ deductions \in [Requests -> Nat]
         /\ logs \subseteq Requests
  BY ConstantsAssumption DEF IInv, TypeOK, Owner

\* Repricing nobody on the ledgers keeps both sums.
LEMMA LedgerKept ==
  ASSUME IInv, Stages, LedgerInv, LedgerQuiet
  PROVE  LedgerInv'
  <1>1. LedgersFinite'
    BY DEF LedgerInv, LedgersFinite, LedgerQuiet
  <1>2. ASSUME NEW t \in Tokens PROVE used'[t] = CostOf({r \in logs : tok[r] = t})'
    <2>1. Logged(t)' = Logged(t)
      BY LedgerTypes DEF Logged, LedgerQuiet, Stages
    <2>2. TotalOf(cost', Logged(t)) = TotalOf(cost, Logged(t))
      <3>1. Logged(t) \subseteq Requests /\ IsFiniteSet(Logged(t))
        BY LedgerTypes, SmallerSet DEF Logged, LedgerInv, LedgersFinite
      <3>2. \A r \in Logged(t) : cost'[r] = cost[r]
        BY LedgerTypes DEF Logged, LedgerQuiet, Stages
      <3> QED BY <3>1, <3>2, LedgerTypes, TotalSame
    <2>3. used'[t] = TotalOf(cost, Logged(t))
      BY DEF CostOf, LedgerInv, TokenTotalMatchesLogs, LedgerQuiet, Logged
    <2>4. CostOf({r \in logs : tok[r] = t})' = TotalOf(cost', Logged(t)')
      BY DEF CostOf, Logged
    <2> QED BY <2>1, <2>2, <2>3, <2>4
  <1>3. ASSUME NEW u \in Users
        PROVE  /\ spent'[u] = CostOf({r \in Requests : deductions[r] > 0 /\ Owner(r) = u})'
               /\ balance'[u] = Debit(StartBalance[u], spent'[u])
    <2>1. Deducted(u)' = Deducted(u)
      BY LedgerTypes DEF Deducted, LedgerQuiet, IInv, DeductionsRecorded, Owner
    <2>2. TotalOf(cost', Deducted(u)) = TotalOf(cost, Deducted(u))
      <3>1. Deducted(u) \subseteq Requests /\ IsFiniteSet(Deducted(u))
        BY LedgerTypes, SmallerSet DEF Deducted, LedgerInv, LedgersFinite
      <3>2. \A r \in Deducted(u) : cost'[r] = cost[r]
        BY LedgerTypes DEF Deducted, LedgerQuiet, IInv, DeductionsRecorded
      <3> QED BY <3>1, <3>2, LedgerTypes, TotalSame
    <2>3. spent'[u] = TotalOf(cost, Deducted(u)) /\ balance'[u] = Debit(StartBalance[u], spent'[u])
      BY DEF CostOf, LedgerInv, BalanceMatchesDeductions, LedgerQuiet, Deducted
    <2>4. CostOf({r \in Requests : deductions[r] > 0 /\ Owner(r) = u})' = TotalOf(cost', Deducted(u)')
      BY DEF CostOf, Deducted
    <2> QED BY <2>1, <2>2, <2>3, <2>4
  <1> QED BY <1>1, <1>2, <1>3 DEF LedgerInv, TokenTotalMatchesLogs, BalanceMatchesDeductions

\* A commit puts the request on the token's ledger with its cost.
LEMMA LedgerCommitted ==
  ASSUME IInv, LedgerInv, NEW r \in Requests, UsageCommitted(r) \/ UsageUnacknowledged(r)
  PROVE  LedgerInv'
  <1>1. /\ r \notin logs /\ ApplyUsage(r)
        /\ UNCHANGED <<tok, cost, balance, spent, deductions>>
    BY DEF UsageCommitted, UsageUnacknowledged, reqVars
  <1>2. LedgersFinite'
    BY <1>1, FS_AddElement DEF LedgerInv, LedgersFinite, ApplyUsage
  <1>3. ASSUME NEW t \in Tokens PROVE used'[t] = CostOf({q \in logs : tok[q] = t})'
    <2>1. used[t] = TotalOf(cost, Logged(t))
      BY DEF CostOf, LedgerInv, TokenTotalMatchesLogs, Logged
    <2>2. Logged(t) \subseteq Requests /\ IsFiniteSet(Logged(t))
      BY LedgerTypes, SmallerSet DEF Logged, LedgerInv, LedgersFinite
    <2>3. CostOf({q \in logs : tok[q] = t})' = TotalOf(cost, Logged(t)')
      BY <1>1 DEF CostOf, Logged
    <2>4. CASE tok[r] = t
      <3>1. Logged(t)' = Logged(t) \cup {r} /\ r \notin Logged(t)
        BY <1>1, <2>4 DEF Logged, ApplyUsage
      <3>2. TotalOf(cost, Logged(t) \cup {r}) = TotalOf(cost, Logged(t)) + cost[r]
        BY <2>2, <3>1, LedgerTypes, TotalAdds
      <3>3. used'[t] = used[t] + cost[r]
        BY <1>1, <2>4, LedgerTypes DEF ApplyUsage
      <3> QED BY <2>1, <2>3, <3>1, <3>2, <3>3
    <2>5. CASE tok[r] # t
      <3>1. Logged(t)' = Logged(t)
        BY <1>1, <2>5 DEF Logged, ApplyUsage
      <3>2. used'[t] = used[t]
        BY <1>1, <2>5, LedgerTypes DEF ApplyUsage
      <3> QED BY <2>1, <2>3, <3>1, <3>2
    <2> QED BY <2>4, <2>5
  <1>4. BalanceMatchesDeductions'
    <2>1. ASSUME NEW u \in Users
          PROVE  CostOf({q \in Requests : deductions[q] > 0 /\ Owner(q) = u})'
                   = CostOf({q \in Requests : deductions[q] > 0 /\ Owner(q) = u})
      BY <1>1 DEF CostOf, Owner
    <2> QED BY <1>1, <2>1 DEF LedgerInv, BalanceMatchesDeductions
  <1> QED BY <1>2, <1>3, <1>4 DEF LedgerInv, TokenTotalMatchesLogs

\* Two debits in a row take what one of their sum takes.
LEMMA DebitTwice ==
  ASSUME NEW b \in Nat \cup {Unlimited}, NEW m \in Nat, NEW n \in Nat
  PROVE  Debit(Debit(b, m), n) = Debit(b, m + n)
  BY ConstantsAssumption DEF Debit

\* A deduction puts the request on the account's ledger with its cost.
LEMMA LedgerDeducted ==
  ASSUME IInv, LedgerInv, NEW r \in Requests, Deduct(r)
  PROVE  LedgerInv'
  <1>1. /\ UNCHANGED <<tok, cost, used, logs>> /\ deductions[r] = 0
        /\ Owner(r) \in Users /\ deductions' = [deductions EXCEPT ![r] = 1]
    <2>1. UNCHANGED <<tok, cost, used, logs>> /\ deduct[r] = "pending" /\ Owner(r) # NoUser
      BY DEF Deduct, DeductReady, AccountPays, reqVars
    <2>2. deductions[r] = 0
      BY <2>1 DEF IInv, DeductionsRecorded
    <2>3. deductions' = [deductions EXCEPT ![r] = deductions[r] + 1]
      BY DEF Deduct
    <2> QED BY <2>1, <2>2, <2>3, LedgerTypes
  <1>2. LedgersFinite'
    <2>1. {q \in Requests : deductions'[q] > 0} = {q \in Requests : deductions[q] > 0} \cup {r}
      BY <1>1, LedgerTypes
    <2>2. IsFiniteSet({q \in Requests : deductions[q] > 0} \cup {r})
      BY FS_AddElement DEF LedgerInv, LedgersFinite
    <2>3. IsFiniteSet(logs')
      BY <1>1 DEF LedgerInv, LedgersFinite
    <2> QED BY <2>1, <2>2, <2>3 DEF LedgersFinite
  <1>3. TokenTotalMatchesLogs'
    <2>1. ASSUME NEW t \in Tokens
          PROVE  CostOf({q \in logs : tok[q] = t})' = CostOf({q \in logs : tok[q] = t})
      BY <1>1 DEF CostOf
    <2> QED BY <1>1, <2>1 DEF LedgerInv, TokenTotalMatchesLogs
  <1>4. ASSUME NEW u \in Users
        PROVE  /\ spent'[u] = CostOf({q \in Requests : deductions[q] > 0 /\ Owner(q) = u})'
               /\ balance'[u] = Debit(StartBalance[u], spent'[u])
    <2>1. spent[u] = TotalOf(cost, Deducted(u)) /\ balance[u] = Debit(StartBalance[u], spent[u])
      BY DEF CostOf, LedgerInv, BalanceMatchesDeductions, Deducted
    <2>2. Deducted(u) \subseteq Requests /\ IsFiniteSet(Deducted(u))
      BY SmallerSet DEF Deducted, LedgerInv, LedgersFinite
    <2>3. CostOf({q \in Requests : deductions[q] > 0 /\ Owner(q) = u})' = TotalOf(cost, Deducted(u)')
      BY <1>1 DEF CostOf, Deducted
    <2>4. CASE Owner(r) = u
      <3>1. Deducted(u)' = Deducted(u) \cup {r} /\ r \notin Deducted(u)
        BY <1>1, <2>4, LedgerTypes DEF Deducted, Owner
      <3>2. TotalOf(cost, Deducted(u) \cup {r}) = TotalOf(cost, Deducted(u)) + cost[r]
        BY <2>2, <3>1, LedgerTypes, TotalAdds
      <3>3. /\ spent'[u] = spent[u] + cost[r]
            /\ balance'[u] = Debit(balance[u], cost[r])
        BY <2>4, LedgerTypes DEF Deduct, IInv, TypeOK
      <3>4. balance'[u] = Debit(StartBalance[u], spent[u] + cost[r])
        <4>1. StartBalance[u] \in Nat \cup {Unlimited} /\ spent[u] \in Nat /\ cost[r] \in Nat
          BY LedgerTypes, ConstantsAssumption
        <4> QED BY <2>1, <3>3, <4>1, DebitTwice
      <3> QED BY <2>1, <2>3, <3>1, <3>2, <3>3, <3>4
    <2>5. CASE Owner(r) # u
      <3>1. Deducted(u)' = Deducted(u)
        BY <1>1, <2>5, LedgerTypes DEF Deducted, Owner
      <3>2. spent'[u] = spent[u] /\ balance'[u] = balance[u]
        BY <2>5, LedgerTypes DEF Deduct, IInv, TypeOK
      <3> QED BY <2>1, <2>3, <3>1, <3>2
    <2> QED BY <2>4, <2>5
  <1> QED BY <1>2, <1>3, <1>4 DEF LedgerInv, BalanceMatchesDeductions

LEMMA LedgerInit == Init => LedgerInv
  <1> SUFFICES ASSUME Init PROVE LedgerInv
    OBVIOUS
  <1>1. logs = {} /\ {r \in Requests : deductions[r] > 0} = {}
    BY DEF Init
  <1>2. LedgersFinite
    BY <1>1, FS_EmptySet DEF LedgersFinite
  <1>3. CostOf({}) = 0
    BY TotalEmpty DEF CostOf
  <1>4. TokenTotalMatchesLogs
    <2>1. ASSUME NEW t \in Tokens PROVE {r \in logs : tok[r] = t} = {} /\ used[t] = 0
      BY <1>1 DEF Init
    <2> QED BY <1>3, <2>1 DEF TokenTotalMatchesLogs
  <1>5. BalanceMatchesDeductions
    <2>1. ASSUME NEW u \in Users
          PROVE  {r \in Requests : deductions[r] > 0 /\ Owner(r) = u} = {}
      BY <1>1
    <2>2. ASSUME NEW u \in Users
          PROVE  spent[u] = 0 /\ balance[u] = Debit(StartBalance[u], 0)
      BY ConstantsAssumption DEF Init, Debit
    <2> QED BY <1>3, <2>1, <2>2 DEF BalanceMatchesDeductions
  <1> QED BY <1>2, <1>4, <1>5 DEF LedgerInv

\* For any interleaving, retry, lost acknowledgement and crash: the running
\* total of a token is the sum of the costs of its log rows, and an account has
\* lost exactly what was deducted for its requests.
THEOREM BillingLedgersAgree == Spec => []LedgersAgree
  <1>1. IInv /\ Stages /\ LedgerInv /\ [Next]_vars => LedgerInv'
    <2> SUFFICES ASSUME IInv, Stages, LedgerInv, [Next]_vars PROVE LedgerInv'
      OBVIOUS
    <2>1. CASE Next
      BY <2>1, LedgerQuietSteps, LedgerKept, LedgerCommitted, LedgerDeducted
    <2>2. CASE UNCHANGED vars
      <3>1. LedgerQuiet
        BY <2>2 DEF vars, reqVars, dbVars, ghosts, LedgerQuiet
      <3> QED BY <3>1, LedgerKept
    <2> QED BY <2>1, <2>2
  <1>2. LedgerInv => LedgersAgree
    BY DEF LedgerInv, LedgersAgree
  <1> QED BY <1>1, <1>2, LedgerInit, BillingInFlight, PTL DEF Spec

-----------------------------------------------------------------------------
\* Unless the drain is cut short, a stop finds every usage write, and the whole
\* chain of a streamed or converted request, at its end.
THEOREM BillingGracefulStop ==
  ASSUME "crash" \notin Faults
  PROVE  Spec => GracefulStopAbandonsNoUsage
  <1> DEFINE Stop ==
        proc = "draining" /\ proc' = "down" =>
          \A r \in Requests :
            /\ usage[r] # "pending"
            /\ Chained(r) => counter[r] # "pending" /\ deduct[r] # "pending"
  <1>1. ASSUME [Next]_vars PROVE [Stop]_vars
    <2>1. CASE proc' = proc \/ StopAccepting \/ Restart
      BY <2>1 DEF StopAccepting, Restart
    <2>2. CASE DrainFinishes
      BY <2>2 DEF DrainFinishes, TrackedPending
    <2>3. \/ proc' = proc \/ StopAccepting \/ Restart
          \/ DrainFinishes
      <3>1. ASSUME NEW r \in Requests,
                   \/ \E t \in Tokens, k \in Kinds : ValidateKey(r, t, k)
                   \/ RejectKey(r) \/ Admission(r) \/ Forwarding(r)
            PROVE  proc' = proc
        BY <3>1 DEF ValidateKey, RejectKey, Admission, PackageCovers, PackageDeclines, PackageUnknown,
           CheckBalance, BalanceUnknown, CheckQuota, Forwarding, ReplyPlain, ReplyStream,
           ReplyConverted, UpstreamFails, PlainPricingFails, ChainPricingFails
      <3>2. ASSUME NEW r \in Requests, UsageWrite(r) \/ CounterWrite(r) \/ BalanceWrite(r)
            PROVE  proc' = proc
        BY <3>2 DEF UsageWrite, UsageCommitted, UsageReplayed, UsageFails, UsageUnacknowledged,
           CounterWrite, RecordCounter, CounterFails, BalanceWrite, SkipDeduct, Deduct, DeductFails
      <3> QED BY <1>1, <3>1, <3>2 DEF Next, WindowSlides, DrainTimesOut, Crash, vars
    <2> QED BY <2>1, <2>2, <2>3
  <1> QED BY <1>1, PTL DEF Spec, GracefulStopAbandonsNoUsage
=============================================================================
