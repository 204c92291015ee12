-------------------------------- MODULE DashboardPage --------------------------------
(***************************************************************************)
(* The dashboard of the console.  What it shows depends on the applied       *)
(* filters, on the page and order of two tables and on a refresh counter; an *)
(* effect loads everything anew when one of them changes, with four calls    *)
(* that are awaited together, and marks the load before as cancelled.  The   *)
(* account panel redeems vouchers.  The download of the table leaves nothing  *)
(* behind on the page and is left out.                                       *)
(*                                                                          *)
(* An answer is abstracted to the query it answers and, for the account, to  *)
(* the number of vouchers that were booked when it was read.                 *)
(*                                                                          *)
(* Sources: pages/Dashboard/index.tsx, api/logs.ts, api/tokens.ts,           *)
(* api/vouchers.ts and api/users.ts of the console.                          *)
(***************************************************************************)
EXTENDS Integers, FiniteSets

CONSTANTS
  IsAdmin,      \* whether the role in the store is admin or superadmin
  Days,         \* date ranges; FirstDays is today
  FirstDays,
  Users, Anyone,
  Orders,       \* size and sort order of a table; FirstOrder at first
  FirstOrder,
  Figures,      \* the calls for figures; "status" is the call for the account
  Vouchers,     \* codes that can be redeemed
  MaxLoads,     \* bound: loads of the page
  MaxPage       \* bound: page numbers

ASSUME DashAssumption ==
  /\ FirstDays \in Days /\ FirstOrder \in Orders
  /\ IsFiniteSet(Vouchers)
  /\ MaxLoads \in Nat \ {0} /\ MaxPage \in Nat \ {0}

VARIABLES
  draft,        \* draftFilters
  applied,      \* appliedFilters
  usage, model, \* usageTable and modelTable: page and order
  options,      \* userOptions
  usersCall,    \* the call for the options: none, pending
  started,      \* loads so far; the last one is the one that is not cancelled
  loads,        \* loads on their way
  loading,
  shown,        \* overview, usageRows, modelRows: the query they answer
  status,       \* myStatus: the vouchers booked when it was read, -1 before
  toast,        \* whether the last load to end ended with the error message
  code,         \* voucherCode
  redeems,      \* redeem calls on their way
  booked,       \* server: codes redeemed
  told          \* redemptions that the page was told of

filterVars == <<draft, applied, usage, model>>
voucherVars == <<code, redeems, booked, told>>
dashVars == <<filterVars, options, usersCall, started, loads, loading, shown, status,
              toast, voucherVars>>

Nothing == [nothing |-> TRUE]
Calls == Figures \cup {"status"}
Filters == [days : Days, username : Users \cup {Anyone}]
Tables == [current : 1..MaxPage, order : Orders]
Queries == [filters : Filters, usage : Tables, model : Tables]

FirstFilters == [days |-> FirstDays, username |-> Anyone]
FirstTable == [current |-> 1, order |-> FirstOrder]

\* buildStatsParams: only an administrator asks for a user.
Query == [filters |-> [applied EXCEPT !.username = IF IsAdmin THEN @ ELSE Anyone],
          usage |-> usage, model |-> model]

-----------------------------------------------------------------------------
DashInit ==
  /\ draft = FirstFilters /\ applied = FirstFilters
  /\ usage = FirstTable /\ model = FirstTable
  /\ options = {}
  /\ usersCall = IF IsAdmin THEN "pending" ELSE "none"
  /\ started = 1
  /\ loads = {[no |-> 1, query |-> Query, got |-> {}, failed |-> FALSE, read |-> 0]}
  /\ loading = TRUE
  /\ shown = Nothing /\ status = -1 /\ toast = FALSE
  /\ code = Anyone /\ redeems = {} /\ booked = {} /\ told = 0

\* The effect: the load before is cancelled, a new one starts.
StartLoad ==
  /\ started < MaxLoads
  /\ started' = started + 1
  /\ loads' = loads \cup {[no |-> started', query |-> Query', got |-> {}, failed |-> FALSE,
                           read |-> 0]}
  /\ loading' = TRUE
  /\ UNCHANGED <<shown, status, toast>>

SameLoads == UNCHANGED <<started, loads, loading, shown, status, toast>>

\* The effect runs again only when one of its dependencies has another value.
ReloadIfChanged == IF Query' # Query THEN StartLoad ELSE SameLoads

EditFilters(f) ==
  /\ f.username \in IF IsAdmin THEN options \cup {Anyone} ELSE {Anyone}
  /\ draft' = f
  /\ SameLoads
  /\ UNCHANGED <<applied, usage, model, options, usersCall, voucherVars>>

HandleSearch ==
  /\ usage' = [usage EXCEPT !.current = 1]
  /\ model' = [model EXCEPT !.current = 1]
  /\ applied' = draft
  /\ draft' = draft
  /\ StartLoad
  /\ UNCHANGED <<options, usersCall, voucherVars>>

\* The refresh button takes no click while it shows that the page loads.
HandleRefresh ==
  /\ ~loading
  /\ UNCHANGED filterVars
  /\ StartLoad
  /\ UNCHANGED <<options, usersCall, voucherVars>>

HandleUsageTableChange(t) ==
  /\ usage' = t
  /\ UNCHANGED <<draft, applied, model>>
  /\ ReloadIfChanged
  /\ UNCHANGED <<options, usersCall, voucherVars>>

HandleModelTableChange(t) ==
  /\ model' = t
  /\ UNCHANGED <<draft, applied, usage>>
  /\ ReloadIfChanged
  /\ UNCHANGED <<options, usersCall, voucherVars>>

\* loadUsers
UsersLoaded ==
  /\ usersCall = "pending"
  /\ usersCall' = "none"
  /\ options' \in {{}, Users}
  /\ SameLoads
  /\ UNCHANGED <<filterVars, voucherVars>>

-----------------------------------------------------------------------------
(* loadDashboard. *)

Replaced(l, l2) == loads' = (loads \ {l}) \cup {l2}

\* The server answers one of the four calls.
ServeCall(l, c) ==
  /\ c \notin l.got /\ ~l.failed
  /\ Replaced(l, [l EXCEPT !.got = @ \cup {c},
                           !.read = IF c = "status" THEN Cardinality(booked) ELSE @])
  /\ UNCHANGED <<filterVars, options, usersCall, started, loading, shown, status, toast,
                voucherVars>>

FailCall(l) ==
  /\ l.got # Calls /\ ~l.failed
  /\ Replaced(l, [l EXCEPT !.failed = TRUE])
  /\ UNCHANGED <<filterVars, options, usersCall, started, loading, shown, status, toast,
                voucherVars>>

Settled(l) == l.failed \/ l.got = Calls

\* Mutant: the cancelled flag is not looked at.
FinishAnyLoad(l) ==
  /\ Settled(l)
  /\ loads' = loads \ {l}
  /\ loading' = FALSE
  /\ IF l.failed
     THEN UNCHANGED <<shown, status>>
     ELSE shown' = l.query /\ status' = l.read
  /\ toast' = l.failed
  /\ UNCHANGED <<filterVars, options, usersCall, started, voucherVars>>

\* Mutant: loading is reset where the answers are taken, not in the finally block.
FinishLoadInTry(l) ==
  /\ Settled(l)
  /\ loads' = loads \ {l}
  /\ IF l.no = started /\ ~l.failed
     THEN shown' = l.query /\ status' = l.read /\ loading' = FALSE
     ELSE UNCHANGED <<shown, status, loading>>
  /\ toast' = IF l.no = started THEN l.failed ELSE toast
  /\ UNCHANGED <<filterVars, options, usersCall, started, voucherVars>>

FinishLoad(l) ==
  /\ Settled(l)
  /\ loads' = loads \ {l}
  /\ loading' = IF l.no = started THEN FALSE ELSE loading
  /\ IF l.no = started /\ ~l.failed
     THEN shown' = l.query /\ status' = l.read
     ELSE UNCHANGED <<shown, status>>
  /\ toast' = IF l.no = started THEN l.failed ELSE toast
  /\ UNCHANGED <<filterVars, options, usersCall, started, voucherVars>>

-----------------------------------------------------------------------------
(* The account panel. *)

EditCode(c) ==
  /\ status >= 0
  /\ code' = c
  /\ SameLoads
  /\ UNCHANGED <<filterVars, options, usersCall, redeems, booked, told>>

\* The enter key redeems although the button is waiting.
HandleRedeem ==
  /\ status >= 0
  /\ code # Anyone
  /\ redeems' = redeems \cup {[code |-> code, answer |-> "pending"]}
  /\ SameLoads
  /\ UNCHANGED <<filterVars, options, usersCall, code, booked, told>>

ServeRedeem(r) ==
  /\ r.answer = "pending"
  /\ booked' = booked \cup {r.code}
  /\ redeems' = (redeems \ {r}) \cup
       {[r EXCEPT !.answer = IF r.code \in booked THEN "refused" ELSE "ok"]}
  /\ SameLoads
  /\ UNCHANGED <<filterVars, options, usersCall, code, told>>

\* Mutant: the page is told, but does not load again.
RedeemDoneQuietly(r) ==
  /\ r.answer = "ok"
  /\ redeems' = redeems \ {r}
  /\ code' = Anyone
  /\ told' = told + 1
  /\ SameLoads
  /\ UNCHANGED <<filterVars, options, usersCall, booked>>

RedeemDone(r) ==
  /\ r.answer = "ok"
  /\ redeems' = redeems \ {r}
  /\ code' = Anyone
  /\ told' = told + 1
  /\ UNCHANGED filterVars
  /\ StartLoad
  /\ UNCHANGED <<options, usersCall, booked>>

\* The call is refused or fails, or its answer is lost: the error is shown below the
\* code, nothing is loaded.
RedeemRefused(r) ==
  /\ redeems' = redeems \ {r}
  /\ SameLoads
  /\ UNCHANGED <<filterVars, options, usersCall, code, booked, told>>

LoadStep == \E l \in loads : FinishLoad(l) \/ FailCall(l) \/ \E c \in Calls : ServeCall(l, c)

DashNext ==
  \/ \E f \in Filters : EditFilters(f)
  \/ HandleSearch \/ HandleRefresh \/ UsersLoaded
  \/ \E t \in Tables : HandleUsageTableChange(t) \/ HandleModelTableChange(t)
  \/ LoadStep
  \/ \E c \in Vouchers : EditCode(c)
  \/ HandleRedeem
  \/ \E r \in redeems : ServeRedeem(r) \/ RedeemDone(r) \/ RedeemRefused(r)

DashSpec == DashInit /\ [][DashNext]_dashVars

-----------------------------------------------------------------------------
(* Properties. *)

Loads == [no : 1..MaxLoads, query : Queries, got : SUBSET Calls, failed : BOOLEAN,
          read : 0..Cardinality(Vouchers)]

DashTypeOK ==
  /\ draft \in Filters /\ applied \in Filters
  /\ usage \in Tables /\ model \in Tables
  /\ options \subseteq Users
  /\ usersCall \in {"none", "pending"}
  /\ started \in 1..MaxLoads
  /\ loads \subseteq Loads
  /\ loading \in BOOLEAN /\ toast \in BOOLEAN
  /\ shown \in Queries \cup {Nothing}
  /\ status \in -1..Cardinality(Vouchers)
  /\ code \in Vouchers \cup {Anyone}
  /\ booked \subseteq Vouchers

Latest == INSTANCE LatestAnswer WITH wanted <- Query, shown <- shown, busy <- loading

\* However the four calls of overlapping loads are answered, the figures on the page
\* change only to those of the query that is set when they change, and loading says
\* so until then (the cancelled flag, 212-287).
ImplementsLatest == Latest!Spec

\* Once the page has loaded after a redemption it was told of, the account panel
\* counts that redemption, whatever loads were under way (handleRedeem, 347-366).
RedeemedIsShown ==
  ~loading /\ ~toast => status >= told
=============================================================================
