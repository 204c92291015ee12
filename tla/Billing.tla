------------------------------- MODULE Billing -------------------------------
(***************************************************************************)
(* The life of a billed HTTP request: the authentication middleware takes  *)
(* a snapshot of the token and decides who pays (package or account        *)
(* balance), the handler checks the token quota on that snapshot, the      *)
(* upstream answers, and background tasks then write the usage record, the *)
(* rate-limit counters and the balance deduction.  Requests interleave at  *)
(* every await; the database and Redis may fail at every call; the process *)
(* may crash, or drain its tracked tasks and stop.                         *)
(*                                                                         *)
(* Sources: middleware/auth.py, services/quota.py and the forwarding and   *)
(* finalization code of gateway.py.                                        *)
(***************************************************************************)
EXTENDS Naturals, FiniteSets, FiniteSetsExt

CONSTANTS
  Requests,      \* request ids (uuid4().hex, never reused)
  Tokens,        \* API keys
  Users,         \* account owners
  Groups,        \* packages
  NoUser,        \* Token.username IS NULL
  NoGroup,       \* Token.group_id IS NULL
  OwnerOf,       \* [Tokens -> Users \cup {NoUser}]
  GroupOf,       \* [Tokens -> Groups \cup {NoGroup}]
  Quota,         \* [Tokens -> Nat], Token.quota_usd, 0 = unlimited
  StartBalance,  \* [Users -> Nat \cup {Unlimited}], User.quota_usd at the start
  Unlimited,     \* User.quota_usd IS NULL
  PackageLimit,  \* [Groups -> Nat], the request_limit rule, 0 = no enabled rule
  Kinds,         \* the forwarding paths explored
  Costs,         \* the costs a request may be priced at, 0 among them
  Faults,        \* which services may fail: subset of {"db", "redis", "crash"}
  MaxRetries,    \* _USAGE_MAX_RETRIES
  MaxInFlight    \* bound: requests admitted and not yet settled

Paths == {"plain", "stream", "convert"}

ASSUME ConstantsAssumption ==
  /\ Tokens # {} /\ Kinds # {}
  /\ NoUser \notin Users /\ NoGroup \notin Groups /\ Unlimited \notin Nat
  /\ OwnerOf \in [Tokens -> Users \cup {NoUser}]
  /\ GroupOf \in [Tokens -> Groups \cup {NoGroup}]
  /\ Quota \in [Tokens -> Nat]
  /\ StartBalance \in [Users -> Nat \cup {Unlimited}]
  /\ PackageLimit \in [Groups -> Nat]
  /\ Kinds \subseteq Paths
  /\ Costs \subseteq Nat /\ 0 \in Costs
  /\ Faults \subseteq {"db", "redis", "crash"}
  /\ MaxRetries \in Nat \ {0} /\ MaxInFlight \in Nat \ {0}

VARIABLES
  \* request.state of every request
  pc, tok, kind, snap, covered, cost,
  \* its background work: the usage write, its attempt, the counters, the deduction
  usage, attempt, counter, deduct,
  \* the database: Token.used_usd, the UsageLog rows, User.quota_usd, User.used_usd
  used, logs, balance, spent,
  \* Redis: the request ids in the window of <<group, owner>>
  window,
  \* the process
  proc,
  \* history: how often a request's cost reached the token / the account
  charges, deductions

reqVars  == <<pc, tok, kind, snap, covered, cost>>
taskVars == <<usage, attempt, counter, deduct>>
dbVars   == <<used, logs, balance, spent>>
ghosts   == <<charges, deductions>>
vars     == <<reqVars, taskVars, dbVars, window, proc, ghosts>>

Owners == Users \cup {NoUser}
Keys   == Groups \X Owners        \* build_key: per user when the token has one

Owner(r) == OwnerOf[tok[r]]
Group(r) == GroupOf[tok[r]]
Key(r)   == <<Group(r), Owner(r)>>

Handling == {"limits", "balance", "quota", "forward"}
Final    == {"rejected", "failed", "replied", "lost"}
TaskState == {"none", "pending", "done", "failed", "killed"}
Settled(s) == s \notin {"pending"}

\* A request still owes something: its handler or one of its tasks runs.
InFlight == {r \in Requests : \/ pc[r] \in Handling
                              \/ \E s \in {usage[r], counter[r], deduct[r]} : ~Settled(s)}

Init ==
  /\ pc = [r \in Requests |-> "idle"]
  /\ tok = [r \in Requests |-> CHOOSE t \in Tokens : TRUE]
  /\ kind = [r \in Requests |-> CHOOSE k \in Kinds : TRUE]
  /\ snap = [r \in Requests |-> 0]
  /\ covered = [r \in Requests |-> FALSE]
  /\ cost = [r \in Requests |-> 0]
  /\ usage = [r \in Requests |-> "none"]
  /\ attempt = [r \in Requests |-> 0]
  /\ counter = [r \in Requests |-> "none"]
  /\ deduct = [r \in Requests |-> "none"]
  /\ used = [t \in Tokens |-> 0]
  /\ logs = {}
  /\ balance = StartBalance
  /\ spent = [u \in Users |-> 0]
  /\ window = [k \in Keys |-> {}]
  /\ proc = "up"
  /\ charges = [r \in Requests |-> 0]
  /\ deductions = [r \in Requests |-> 0]

-----------------------------------------------------------------------------
(* Admission: AuthMiddleware.dispatch, then the quota check of the handler. *)

Goto(r, stage) == pc' = [pc EXCEPT ![r] = stage]

\* _validate_key finds a live token; _inject_token_state copies it.
ValidateKey(r, t, k) ==
  /\ proc = "up" /\ pc[r] = "idle"
  /\ Cardinality(InFlight) < MaxInFlight
  /\ tok' = [tok EXCEPT ![r] = t]
  /\ kind' = [kind EXCEPT ![r] = k]
  /\ snap' = [snap EXCEPT ![r] = used[t]]
  /\ Goto(r, "limits")
  /\ UNCHANGED <<covered, cost, taskVars, dbVars, window, proc, ghosts>>

\* Unknown, frozen or expired key, or the database is down (401, 503).
RejectKey(r) ==
  /\ proc = "up" /\ pc[r] = "idle"
  /\ Goto(r, "rejected")
  /\ UNCHANGED <<tok, kind, snap, covered, cost, taskVars, dbVars, window, proc, ghosts>>

PackageAllows(r) ==
  /\ PackageLimit[Group(r)] > 0
  /\ Cardinality(window[Key(r)]) < PackageLimit[Group(r)]

\* check_rate_limits passed: the package pays.  A Redis error counts as 0.
PackageCovers(r) ==
  /\ pc[r] = "limits" /\ Group(r) # NoGroup
  /\ \/ PackageAllows(r)
     \/ "redis" \in Faults /\ PackageLimit[Group(r)] > 0
  /\ covered' = [covered EXCEPT ![r] = TRUE]
  /\ Goto(r, "quota")
  /\ UNCHANGED <<tok, kind, snap, cost, taskVars, dbVars, window, proc, ghosts>>

\* No group, or the package is exhausted or empty: fall back to the account.
PackageDeclines(r) ==
  /\ pc[r] = "limits"
  /\ Group(r) # NoGroup => ~PackageAllows(r)
  /\ Goto(r, "balance")
  /\ UNCHANGED <<tok, kind, snap, covered, cost, taskVars, dbVars, window, proc, ghosts>>

\* The rules cannot be read: fail open, not covered.
PackageUnknown(r) ==
  /\ "db" \in Faults
  /\ pc[r] = "limits" /\ Group(r) # NoGroup
  /\ Goto(r, "quota")
  /\ UNCHANGED <<tok, kind, snap, covered, cost, taskVars, dbVars, window, proc, ghosts>>

\* check_account_quota
AccountAllows(u) == balance[u] = Unlimited \/ balance[u] > 0

CheckBalance(r) ==
  /\ pc[r] = "balance"
  /\ Goto(r, IF Owner(r) # NoUser /\ AccountAllows(Owner(r)) THEN "quota" ELSE "rejected")
  /\ UNCHANGED <<tok, kind, snap, covered, cost, taskVars, dbVars, window, proc, ghosts>>

BalanceUnknown(r) ==
  /\ "db" \in Faults
  /\ pc[r] = "balance" /\ Owner(r) # NoUser
  /\ Goto(r, "quota")
  /\ UNCHANGED <<tok, kind, snap, covered, cost, taskVars, dbVars, window, proc, ghosts>>

\* Mutant: a token that reached its quota is still admitted.
QuotaAllowsAtLimit(quota, usedThen) == quota = 0 \/ usedThen <= quota

\* check_quota, on the values the middleware read.
QuotaAllows(quota, usedThen) == quota = 0 \/ usedThen < quota

CheckQuota(r) ==
  /\ pc[r] = "quota"
  /\ Goto(r, IF QuotaAllows(Quota[tok[r]], snap[r]) THEN "forward" ELSE "rejected")
  /\ UNCHANGED <<tok, kind, snap, covered, cost, taskVars, dbVars, window, proc, ghosts>>

-----------------------------------------------------------------------------
(* The upstream's answer and the tasks it starts. *)

CounterStart(r) == IF Group(r) # NoGroup THEN "pending" ELSE "none"

StartTasks(r, c) ==
  /\ cost' = [cost EXCEPT ![r] = c]
  /\ usage' = [usage EXCEPT ![r] = "pending"]
  /\ counter' = [counter EXCEPT ![r] = CounterStart(r)]
  /\ deduct' = [deduct EXCEPT ![r] = "pending"]
  /\ UNCHANGED attempt

\* forward_request: the upstream answered, with whatever status.
ReplyPlain(r) ==
  /\ pc[r] = "forward" /\ kind[r] = "plain"
  /\ \E c \in Costs : StartTasks(r, c)
  /\ Goto(r, "replied")
  /\ UNCHANGED <<tok, kind, snap, covered, dbVars, window, proc, ghosts>>

\* forward_streaming_request: the stream ended, was cut off by the client or
\* never opened; each way the chunks seen so far are priced.
ReplyStream(r) ==
  /\ pc[r] = "forward" /\ kind[r] = "stream"
  /\ \E c \in Costs : StartTasks(r, c)
  /\ Goto(r, "replied")
  /\ UNCHANGED <<tok, kind, snap, covered, dbVars, window, proc, ghosts>>

\* _forward_responses_nonstream: the upstream answered 200.
ReplyConverted(r) ==
  /\ pc[r] = "forward" /\ kind[r] = "convert"
  /\ \E c \in Costs : StartTasks(r, c)
  /\ Goto(r, "replied")
  /\ UNCHANGED <<tok, kind, snap, covered, dbVars, window, proc, ghosts>>

\* A network error on a plain request, any error on a converted one: nothing
\* is billed.
UpstreamFails(r) ==
  /\ pc[r] = "forward" /\ kind[r] # "stream"
  /\ Goto(r, "failed")
  /\ UNCHANGED <<tok, kind, snap, covered, cost, taskVars, dbVars, window, proc, ghosts>>

\* calculate_cost raises: a plain request is billed 0, for the others the
\* exception ends the chain before the first write.
PlainPricingFails(r) ==
  /\ "db" \in Faults
  /\ pc[r] = "forward" /\ kind[r] = "plain"
  /\ StartTasks(r, 0)
  /\ Goto(r, "replied")
  /\ UNCHANGED <<tok, kind, snap, covered, dbVars, window, proc, ghosts>>

ChainPricingFails(r) ==
  /\ "db" \in Faults
  /\ pc[r] = "forward" /\ kind[r] # "plain"
  /\ Goto(r, "replied")
  /\ UNCHANGED <<tok, kind, snap, covered, cost, taskVars, dbVars, window, proc, ghosts>>

-----------------------------------------------------------------------------
(* update_usage: one transaction, tried up to MaxRetries times. *)

\* UPDATE token SET used_usd = used_usd + cost; INSERT the log; COMMIT.
ApplyUsage(r) ==
  /\ used' = [used EXCEPT ![tok[r]] = @ + cost[r]]
  /\ logs' = logs \cup {r}
  /\ charges' = [charges EXCEPT ![r] = @ + 1]

UsageCommitted(r) ==
  /\ usage[r] = "pending"
  /\ r \notin logs
  /\ ApplyUsage(r)
  /\ usage' = [usage EXCEPT ![r] = "done"]
  /\ UNCHANGED <<reqVars, attempt, counter, deduct, balance, spent, window, proc, deductions>>

\* Mutant: the UPDATE is committed on its own before the INSERT fails.
UsageReplayedWithoutRollback(r) ==
  /\ usage[r] = "pending"
  /\ r \in logs
  /\ used' = [used EXCEPT ![tok[r]] = @ + cost[r]]
  /\ charges' = [charges EXCEPT ![r] = @ + 1]
  /\ usage' = [usage EXCEPT ![r] = "done"]
  /\ UNCHANGED <<reqVars, attempt, counter, deduct, logs, balance, spent, window, proc, deductions>>

\* The primary key exists: IntegrityError rolls the whole transaction back.
UsageReplayed(r) ==
  /\ usage[r] = "pending"
  /\ r \in logs
  /\ usage' = [usage EXCEPT ![r] = "done"]
  /\ UNCHANGED <<reqVars, attempt, counter, deduct, dbVars, window, proc, ghosts>>

\* Mutant: one attempt too many.
NextAttemptOneMore(r) ==
  /\ attempt' = [attempt EXCEPT ![r] = @ + 1]
  /\ usage' = [usage EXCEPT ![r] = IF attempt[r] >= MaxRetries THEN "failed" ELSE @]

NextAttempt(r) ==
  /\ attempt' = [attempt EXCEPT ![r] = @ + 1]
  /\ usage' = [usage EXCEPT ![r] = IF attempt[r] + 1 >= MaxRetries THEN "failed" ELSE @]

\* Any other exception: back off and retry, or give up after the last attempt.
UsageFails(r) ==
  /\ "db" \in Faults
  /\ usage[r] = "pending"
  /\ NextAttempt(r)
  /\ UNCHANGED <<reqVars, counter, deduct, dbVars, window, proc, ghosts>>

\* The commit took effect but its acknowledgement was lost.
UsageUnacknowledged(r) ==
  /\ "db" \in Faults
  /\ usage[r] = "pending"
  /\ r \notin logs
  /\ ApplyUsage(r)
  /\ NextAttempt(r)
  /\ UNCHANGED <<reqVars, counter, deduct, balance, spent, window, proc, deductions>>

-----------------------------------------------------------------------------
(* _update_rate_limit_counters and _maybe_deduct.  For a plain request they  *)
(* are tasks of their own, otherwise they follow the usage write in one task. *)

Chained(r) == kind[r] # "plain"

CounterReady(r) == counter[r] = "pending" /\ (Chained(r) => Settled(usage[r]))

\* Mutant: the deduction waits for a usage write that succeeded.
DeductReadyOnSuccess(r) ==
  deduct[r] = "pending" /\ (Chained(r) => usage[r] = "done" /\ Settled(counter[r]))

DeductReady(r) ==
  deduct[r] = "pending" /\ (Chained(r) => Settled(usage[r]) /\ Settled(counter[r]))

RecordCounter(r) ==
  /\ CounterReady(r)
  /\ window' = IF PackageLimit[Group(r)] > 0
               THEN [window EXCEPT ![Key(r)] = @ \cup {r}]
               ELSE window
  /\ counter' = [counter EXCEPT ![r] = "done"]
  /\ UNCHANGED <<reqVars, usage, attempt, deduct, dbVars, proc, ghosts>>

CounterFails(r) ==
  /\ {"db", "redis"} \cap Faults # {}
  /\ CounterReady(r)
  /\ counter' = [counter EXCEPT ![r] = "failed"]
  /\ UNCHANGED <<reqVars, usage, attempt, deduct, dbVars, window, proc, ghosts>>

\* Mutants: a debit larger than the balance is dropped; the account pays for
\* covered requests too.
DebitOnlyIfEnough(b, c) == IF b = Unlimited THEN b ELSE IF b > c THEN b - c ELSE b
AccountPaysAlways(r) == Owner(r) # NoUser /\ cost[r] > 0

\* CASE WHEN quota_usd > cost THEN quota_usd - cost ELSE 0; NULL stays NULL.
Debit(b, c) == IF b = Unlimited THEN b ELSE IF b > c THEN b - c ELSE 0

AccountPays(r) == ~covered[r] /\ Owner(r) # NoUser /\ cost[r] > 0

SkipDeduct(r) ==
  /\ DeductReady(r) /\ ~AccountPays(r)
  /\ deduct' = [deduct EXCEPT ![r] = "done"]
  /\ UNCHANGED <<reqVars, usage, attempt, counter, dbVars, window, proc, ghosts>>

Deduct(r) ==
  /\ DeductReady(r) /\ AccountPays(r)
  /\ spent' = [spent EXCEPT ![Owner(r)] = @ + cost[r]]
  /\ balance' = [balance EXCEPT ![Owner(r)] = Debit(@, cost[r])]
  /\ deductions' = [deductions EXCEPT ![r] = @ + 1]
  /\ deduct' = [deduct EXCEPT ![r] = "done"]
  /\ UNCHANGED <<reqVars, usage, attempt, counter, used, logs, window, proc, charges>>

\* update_user_balance swallows its exception; there is no second try.
DeductFails(r) ==
  /\ "db" \in Faults
  /\ DeductReady(r) /\ AccountPays(r)
  /\ deduct' = [deduct EXCEPT ![r] = "failed"]
  /\ UNCHANGED <<reqVars, usage, attempt, counter, dbVars, window, proc, ghosts>>

\* A record leaves the sliding window (module RateWindow has the details).
WindowSlides(k, r) ==
  /\ r \in window[k]
  /\ window' = [window EXCEPT ![k] = @ \ {r}]
  /\ UNCHANGED <<reqVars, taskVars, dbVars, proc, ghosts>>

-----------------------------------------------------------------------------
(* The process: shutdown waits for the handlers, then for the tracked tasks. *)

Handlers == {r \in Requests : pc[r] \in Handling}

\* Mutant: of the chained task only the usage write is registered in log_tasks.
TrackedUsageOnly == \E r \in Requests : usage[r] = "pending"

\* Tasks whose reference is in app.state.log_tasks.
TrackedPending ==
  \E r \in Requests :
    \/ usage[r] = "pending"
    \/ Chained(r) /\ (counter[r] = "pending" \/ deduct[r] = "pending")

Kill(task) == [r \in Requests |-> IF task[r] = "pending" THEN "killed" ELSE task[r]]

KillTasks ==
  /\ usage' = Kill(usage) /\ counter' = Kill(counter) /\ deduct' = Kill(deduct)
  /\ UNCHANGED attempt

StopAccepting ==
  /\ proc = "up"
  /\ proc' = "draining"
  /\ UNCHANGED <<reqVars, taskVars, dbVars, window, ghosts>>

\* asyncio.wait(log_tasks, timeout=30) returns with nothing pending.
DrainFinishes ==
  /\ proc = "draining" /\ Handlers = {} /\ ~TrackedPending
  /\ proc' = "down"
  /\ KillTasks
  /\ UNCHANGED <<reqVars, dbVars, window, ghosts>>

\* It returns with tasks pending: they are cancelled.
DrainTimesOut ==
  /\ "crash" \in Faults
  /\ proc = "draining" /\ Handlers = {} /\ TrackedPending
  /\ proc' = "down"
  /\ KillTasks
  /\ UNCHANGED <<reqVars, dbVars, window, ghosts>>

Crash ==
  /\ "crash" \in Faults
  /\ proc # "down"
  /\ proc' = "down"
  /\ pc' = [r \in Requests |-> IF pc[r] \in Handling THEN "lost" ELSE pc[r]]
  /\ KillTasks
  /\ UNCHANGED <<tok, kind, snap, covered, cost, dbVars, window, ghosts>>

Restart ==
  /\ proc = "down"
  /\ proc' = "up"
  /\ UNCHANGED <<reqVars, taskVars, dbVars, window, ghosts>>

-----------------------------------------------------------------------------
Admission(r) ==
  \/ PackageCovers(r) \/ PackageDeclines(r) \/ PackageUnknown(r)
  \/ CheckBalance(r) \/ BalanceUnknown(r)
  \/ CheckQuota(r)

Forwarding(r) ==
  \/ ReplyPlain(r) \/ ReplyStream(r) \/ ReplyConverted(r)
  \/ UpstreamFails(r) \/ PlainPricingFails(r) \/ ChainPricingFails(r)

UsageWrite(r) ==
  UsageCommitted(r) \/ UsageReplayed(r) \/ UsageFails(r) \/ UsageUnacknowledged(r)

CounterWrite(r) == RecordCounter(r) \/ CounterFails(r)
BalanceWrite(r) == SkipDeduct(r) \/ Deduct(r) \/ DeductFails(r)

Next ==
  \/ \E r \in Requests :
       \/ \E t \in Tokens, k \in Kinds : ValidateKey(r, t, k)
       \/ RejectKey(r)
       \/ Admission(r)
       \/ Forwarding(r)
       \/ UsageWrite(r)
       \/ CounterWrite(r)
       \/ BalanceWrite(r)
       \/ \E k \in Keys : WindowSlides(k, r)
  \/ StopAccepting \/ DrainFinishes \/ DrainTimesOut \/ Crash \/ Restart

Spec == Init /\ [][Next]_vars

\* The event loop runs every handler and every task until it ends.
Fairness ==
  /\ \A r \in Requests :
       /\ WF_vars(Admission(r)) /\ WF_vars(Forwarding(r))
       /\ WF_vars(UsageWrite(r)) /\ WF_vars(CounterWrite(r)) /\ WF_vars(BalanceWrite(r))
  /\ WF_vars(DrainFinishes)

FairSpec == Spec /\ Fairness

-----------------------------------------------------------------------------
(* Properties. *)

TypeOK ==
  /\ pc \in [Requests -> {"idle"} \cup Handling \cup Final]
  /\ tok \in [Requests -> Tokens]
  /\ kind \in [Requests -> Kinds]
  /\ snap \in [Requests -> Nat]
  /\ covered \in [Requests -> BOOLEAN]
  /\ cost \in [Requests -> Costs]
  /\ usage \in [Requests -> TaskState]
  /\ attempt \in [Requests -> 0..MaxRetries]
  /\ counter \in [Requests -> TaskState]
  /\ deduct \in [Requests -> TaskState]
  /\ used \in [Tokens -> Nat]
  /\ logs \subseteq Requests
  /\ balance \in [Users -> Nat \cup {Unlimited}]
  /\ spent \in [Users -> Nat]
  /\ window \in [Keys -> SUBSET Requests]
  /\ proc \in {"up", "draining", "down"}
  /\ charges \in [Requests -> Nat]
  /\ deductions \in [Requests -> Nat]

\* The sum of c over a finite set, and what the requests of S cost.
TotalOf(c, S) == MapThenSumSet(LAMBDA r : c[r], S)
CostOf(S) == TotalOf(cost, S)

\* update_usage is idempotent: whatever fails between the UPDATE, the INSERT,
\* the COMMIT and its acknowledgement, and however often the attempt is
\* repeated, a request's cost reaches Token.used_usd exactly once if its
\* UsageLog row exists and never if it does not.
ChargedOnceIffLogged ==
  \A r \in Requests : charges[r] = IF r \in logs THEN 1 ELSE 0

\* The running total of a token is the sum of its log rows, so the counter
\* that admission reads and the audit trail never drift apart, not even after
\* a crash between two steps of the write-back.
TokenTotalMatchesLogs ==
  \A t \in Tokens : used[t] = CostOf({r \in logs : tok[r] = t})

\* A request the package pays for never touches the account, an account pays
\* at most once for a request, and only for an answered one.
AccountPaysOnceOrPackage ==
  \A r \in Requests :
    /\ deductions[r] <= 1
    /\ deductions[r] = 1 => ~covered[r] /\ pc[r] = "replied" /\ deduct[r] = "done"

\* Concurrent deductions lose no update: User.used_usd is the sum of what was
\* deducted, and a finite balance is the initial one less that, floored at 0.
BalanceMatchesDeductions ==
  \A u \in Users :
    /\ spent[u] = CostOf({r \in Requests : deductions[r] > 0 /\ Owner(r) = u})
    /\ balance[u] = Debit(StartBalance[u], spent[u])

\* The ledgers agree: what admission compares with the quota is what the log rows
\* add up to, and what the account lost is what its requests cost it.
LedgersAgree == TokenTotalMatchesLogs /\ BalanceMatchesDeductions

MaxCost == Max(Costs)

\* Admission works on a snapshot, so a token may exceed its quota, but only by
\* what was in flight: the last admitted request saw less than the quota, and
\* at most MaxInFlight requests, itself included, were unsettled then.
QuotaOvershootBounded ==
  \A t \in Tokens :
    Quota[t] > 0 => used[t] <= Quota[t] - 1 + MaxInFlight * MaxCost

\* The same for a package, as long as Redis answers and loses no write: the
\* covered requests in a window exceed the rule by at most those in flight.
PackageOvershootBounded ==
  \A k \in Keys :
    Cardinality({r \in window[k] : covered[r]}) <= PackageLimit[k[1]] - 1 + MaxInFlight
      \/ PackageLimit[k[1]] = 0

\* Admission on stale values exceeds a limit by at most what was in flight.
OvershootBounded == QuotaOvershootBounded /\ PackageOvershootBounded

\* A graceful stop that is not cut off (no crash, no drain timeout) abandons no
\* usage write, and for streamed and converted requests nothing at all: their
\* whole chain is one tracked task.  (The counters and the deduction of a plain
\* request are not tracked and may be abandoned.)
GracefulStopAbandonsNoUsage ==
  [][ proc = "draining" /\ proc' = "down" =>
        \A r \in Requests :
          /\ usage[r] # "pending"
          /\ Chained(r) => counter[r] # "pending" /\ deduct[r] # "pending" ]_vars

\* Without a crash the write-back of every answered request that was priced
\* ends, retries and failures included: the request is on the ledger unless the
\* database refused it MaxRetries times (shutting down in the middle of the
\* write and starting again loses none), and its deduction is no longer awaited,
\* not even when the usage write before it failed for good.
AnsweredIsLogged ==
  \A r \in Requests :
    (pc[r] = "replied" /\ usage[r] # "none") ~>
      /\ r \in logs \/ attempt[r] = MaxRetries
      /\ deduct[r] # "pending"
=============================================================================
