------------------------------- MODULE ConsoleProofs -------------------------------
(***************************************************************************)
(* Proofs about Console for any tabs, users, channels, groups, orders, keys,   *)
(* prices and any numbers of calls: a step of the console is a step of one     *)
(* page (PageMoves), so that an invariant of a page by itself is one of the    *)
(* console.  One section per page: its inductive invariant, what each handler  *)
(* does to it, and the theorem about Spec.                                    *)
(***************************************************************************)
EXTENDS Console, SequenceTheorems, FiniteSetTheorems, TLAPS

\* A page moves by a step of its own, or stays as it is.
LEMMA PageMoves ==
  ASSUME [Next]_consoleVars
  PROVE  /\ DashNext \/ UNCHANGED dashVars
         /\ SessionNext \/ UNCHANGED sessionVars
         /\ Ch!ChannelsNext \/ UNCHANGED channelVars
         /\ Ord!OrdersNext \/ UNCHANGED ordersVars
         /\ Log!LogsNext \/ UNCHANGED logsVars
         /\ Parse!ParseNext \/ UNCHANGED parseVars
         /\ Chat!ChatNext \/ UNCHANGED chatVars
         /\ Price!PriceNext \/ UNCHANGED priceVars
         /\ (\E parts \in SUBSET Group!Parts : Group!GroupsNextOf(parts)) \/ UNCHANGED groupVars
  <1>1. CASE UNCHANGED consoleVars
    BY <1>1 DEF consoleVars, otherVars
  <1>2. CASE mounted = "dashboard" /\ DashNext /\ UNCHANGED <<sessionVars, otherVars>>
    BY <1>2 DEF otherVars
  <1>3. CASE mounted = "session" /\ SessionNext /\ UNCHANGED <<dashVars, otherVars>>
    BY <1>3 DEF otherVars
  <1>4. CASE mounted \in Group!Parts /\ Group!GroupsNextOf({mounted})
             /\ UNCHANGED <<dashVars, sessionVars>>
             /\ UNCHANGED <<channelVars, ordersVars, logsVars, parseVars, chatVars, priceVars>>
    <2>1. {mounted} \in SUBSET Group!Parts
      BY <1>4
    <2> QED BY <1>4, <2>1
  <1> QED BY <1>1, <1>2, <1>3, <1>4 DEF Next

\* The pages run side by side, each by its own specification.
LEMMA PagesRun == Spec => DashSpec /\ SessionSpec
  <1>1. Init => DashInit /\ SessionInit
    BY DEF Init
  <1>2. [Next]_consoleVars => [DashNext]_dashVars /\ [SessionNext]_sessionVars
    BY PageMoves
  <1> QED BY <1>1, <1>2, PTL DEF Spec, DashSpec, SessionSpec

-----------------------------------------------------------------------------
(* ConsoleSession. *)

Held == issued \cup {SignedOut}

\* OneIdentity, with what EXCEPT on the memory needs.
SessionInv == storage \in Held /\ memory \in [Tabs -> Held]

LEMMA SessionInvInit == SessionInit => SessionInv
  BY DEF SessionInit, SessionInv, Held

\* A page load puts what is in the storage, or nobody, into the memory of a tab.
LEMMA TabLoadInv ==
  ASSUME SessionInv, issued' = issued, NEW t \in Tabs, NEW p, NEW i \in Held,
         Load(t, p, i), storage' \in Held
  PROVE  SessionInv'
  BY DEF SessionInv, Held, Load

\* Only a sign-in issues an identity, and it issues the one it stores.
LEMMA LoginInv ==
  ASSUME SessionInv, NEW t \in Tabs, NEW u \in DOMAIN RoleOf, LoginSucceeds(t, u)
  PROVE  SessionInv'
  <1>1. PICK id : issued' = issued \cup {id} /\ SetAuth(t, id)
    BY DEF LoginSucceeds
  <1>2. Held \subseteq Held' /\ id \in Held'
    BY <1>1 DEF Held
  <1>3. storage' = id /\ memory' = [memory EXCEPT ![t] = id]
    BY <1>1 DEF SetAuth
  <1> QED BY <1>2, <1>3 DEF SessionInv

LEMMA TabInv ==
  ASSUME SessionInv, NEW t \in Tabs, TabStep(t) \/ SubmitLogin(t) \/ HandleLogout(t)
  PROVE  SessionInv'
  <1>1. CASE Answered401(t)
    <2>1. Load(t, "/login", SignedOut) /\ storage' = SignedOut /\ issued' = issued
      BY <1>1 DEF Answered401
    <2>2. SignedOut \in Held /\ storage' \in Held
      BY <2>1 DEF Held
    <2> QED BY <2>1, <2>2, TabLoadInv
  <1>2. CASE HandleLogout(t)
    BY <1>2 DEF HandleLogout, SessionInv, Held
  <1>3. CASE GuardRedirects(t) \/ LoginRedirects(t) \/ AnsweredWell(t) \/ Ask(t) \/ SubmitLogin(t)
    <2>1. storage' = storage /\ memory' = memory /\ issued' = issued
      BY <1>3 DEF GuardRedirects, LoginRedirects, AnsweredWell, Ask, SubmitLogin
    <2> QED BY <2>1 DEF SessionInv, Held
  <1> QED BY <1>1, <1>2, <1>3 DEF TabStep

LEMMA SessionInvNext == SessionInv /\ [SessionNext]_sessionVars => SessionInv'
  <1> SUFFICES ASSUME SessionInv, [SessionNext]_sessionVars PROVE SessionInv'
    OBVIOUS
  <1>1. CASE UNCHANGED sessionVars
    BY <1>1 DEF sessionVars, SessionInv, Held
  <1>2. ASSUME NEW t \in Tabs, NEW p \in Paths, Visit(t, p) PROVE SessionInv'
    <2>1. Load(t, p, storage) /\ storage' = storage /\ issued' = issued
      BY <1>2 DEF Visit
    <2>2. storage \in Held
      BY DEF SessionInv
    <2> QED BY <2>1, <2>2, TabLoadInv
  <1>3. ASSUME NEW t \in Tabs, NEW p \in Private, Navigate(t, p) PROVE SessionInv'
    BY <1>3 DEF Navigate, SessionInv, Held
  <1>4. ASSUME NEW n \in live, Expire(n) PROVE SessionInv'
    BY <1>4 DEF Expire, SessionInv, Held
  <1> QED BY <1>1, <1>2, <1>3, <1>4, TabInv, LoginInv DEF SessionNext

\* The name and the role that a tab shows and guards by are those the server gave with
\* its token (store/auth.ts 14-26), for any number of tabs and sign-ins.
THEOREM SessionOneIdentity == Spec => []OneIdentity
  <1>1. SessionInv => OneIdentity
    BY DEF SessionInv, Held, OneIdentity
  <1> QED BY <1>1, SessionInvInit, SessionInvNext, PagesRun, PTL DEF SessionSpec

-----------------------------------------------------------------------------
(* DashboardPage. *)

Answers == {"pending", "ok", "refused"}
RedeemTypes ==
  /\ redeems \subseteq [code : Vouchers, answer : Answers]
  /\ told \in Nat

TypeInv == DashTypeOK /\ RedeemTypes

\* One load is not cancelled: the page loads while it is on its way, and it asks what
\* the page asks.
LoadInv ==
  /\ \A l \in loads : l.no <= started /\ (l.no = started => l.query = Query /\ loading)
  /\ \A l, m \in loads : l.no = m.no => l = m

\* Redemptions that the page has not been told of.
Untold == {r \in redeems : r.answer = "ok"}

\* The page is told of booked redemptions only, once each; what was read of the account
\* for the load that counts is not older than what the page was told.
RedeemInv ==
  /\ IsFiniteSet(redeems)
  /\ told + Cardinality(Untold) <= Cardinality(booked)
  /\ \A l \in loads : l.no = started /\ "status" \in l.got => l.read >= told
  /\ RedeemedIsShown

NewLoad(l) ==
  l = [no |-> started', query |-> Query', got |-> {}, failed |-> FALSE, read |-> 0]

-----------------------------------------------------------------------------
(* What a step does. *)

LEMMA QueryType == ASSUME TypeInv PROVE Query \in Queries
  <1>1. [applied EXCEPT !.username = IF IsAdmin THEN @ ELSE Anyone] \in Filters
    BY DEF TypeInv, DashTypeOK, Filters
  <1> QED BY <1>1 DEF Query, Queries, TypeInv, DashTypeOK

LEMMA FilterTypes ==
  ASSUME TypeInv, DashNext
  PROVE  /\ draft' \in Filters /\ applied' \in Filters
         /\ usage' \in Tables /\ model' \in Tables
  <1> USE DEF TypeInv, DashTypeOK
  <1>1. ASSUME NEW f \in Filters, EditFilters(f)
        PROVE  draft' \in Filters /\ applied' \in Filters /\ usage' \in Tables /\ model' \in Tables
    BY <1>1 DEF EditFilters
  <1>2. ASSUME HandleSearch
        PROVE  draft' \in Filters /\ applied' \in Filters /\ usage' \in Tables /\ model' \in Tables
    <2>1. 1 \in 1..MaxPage
      BY DashAssumption
    <2> QED BY <1>2, <2>1 DEF HandleSearch, Tables
  <1>3. ASSUME NEW t \in Tables, HandleUsageTableChange(t) \/ HandleModelTableChange(t)
        PROVE  draft' \in Filters /\ applied' \in Filters /\ usage' \in Tables /\ model' \in Tables
    BY <1>3 DEF HandleUsageTableChange, HandleModelTableChange
  <1>4. CASE UNCHANGED filterVars
    BY <1>4 DEF filterVars
  <1>5. CASE LoadStep
    BY <1>4, <1>5 DEF LoadStep, FinishLoad, FailCall, ServeCall
  <1> QED BY <1>1, <1>2, <1>3, <1>4, <1>5
          DEF DashNext, HandleRefresh, UsersLoaded, EditCode, HandleRedeem, ServeRedeem,
              RedeemDone, RedeemRefused

\* The steps that are not about a load: nothing is asked, or a load starts.
LEMMA PageStep ==
  ASSUME DashNext, ~LoadStep
  PROVE  StartLoad \/ (SameLoads /\ Query' = Query)
  <1>1. ASSUME UNCHANGED filterVars PROVE Query' = Query
    BY <1>1 DEF filterVars, Query
  <1>2. ASSUME NEW f \in Filters, EditFilters(f) PROVE SameLoads /\ Query' = Query
    BY <1>2 DEF EditFilters, Query
  <1>3. ASSUME NEW t \in Tables, HandleUsageTableChange(t) \/ HandleModelTableChange(t)
        PROVE  StartLoad \/ (SameLoads /\ Query' = Query)
    BY <1>3 DEF HandleUsageTableChange, HandleModelTableChange, ReloadIfChanged
  <1> QED BY <1>1, <1>2, <1>3
          DEF DashNext, HandleSearch, HandleRefresh, UsersLoaded, EditCode, HandleRedeem,
              ServeRedeem, RedeemDone, RedeemRefused

LEMMA LoadStepFilters == ASSUME LoadStep PROVE UNCHANGED filterVars /\ Query' = Query
  <1>1. UNCHANGED filterVars
    BY DEF LoadStep, FinishLoad, FailCall, ServeCall
  <1> QED BY <1>1 DEF filterVars, Query

-----------------------------------------------------------------------------
(* Types. *)

LEMMA BookedCount ==
  ASSUME booked \subseteq Vouchers
  PROVE  /\ IsFiniteSet(booked) /\ Cardinality(booked) \in Nat
         /\ Cardinality(booked) \in 0..Cardinality(Vouchers)
  BY DashAssumption, FS_Subset, FS_CardinalityType

LEMMA TypeInit == DashInit => TypeInv
  <1> SUFFICES ASSUME DashInit PROVE TypeInv
    OBVIOUS
  <1>1. FirstFilters \in Filters /\ FirstTable \in Tables
    BY DashAssumption DEF FirstFilters, FirstTable, Filters, Tables
  <1>2. Query \in Queries
    BY <1>1 DEF DashInit, Query, Queries, Filters
  <1>3. Cardinality(Vouchers) \in Nat
    BY DashAssumption, FS_CardinalityType
  <1>4. \A l \in loads : l \in Loads
    <2>1. 1 \in 1..MaxLoads /\ 0 \in 0..Cardinality(Vouchers)
      BY <1>3, DashAssumption
    <2>2. [no |-> 1, query |-> Query, got |-> {}, failed |-> FALSE, read |-> 0] \in Loads
      BY <2>1, <1>2 DEF Loads
    <2> QED BY <2>2 DEF DashInit
  <1>5. started \in 1..MaxLoads /\ status \in -1..Cardinality(Vouchers) /\ told \in Nat
    <2>1. started = 1 /\ status = -1 /\ told = 0
      BY DEF DashInit
    <2> QED BY <2>1, <1>3, DashAssumption
  <1>6. loads \subseteq Loads
    BY <1>4
  <1>7. DashTypeOK
    <2>1. draft \in Filters /\ applied \in Filters /\ usage \in Tables /\ model \in Tables
      BY <1>1 DEF DashInit
    <2>2. /\ options \subseteq Users /\ usersCall \in {"none", "pending"}
          /\ loading \in BOOLEAN /\ toast \in BOOLEAN /\ shown \in Queries \cup {Nothing}
          /\ code \in Vouchers \cup {Anyone} /\ booked \subseteq Vouchers
      BY DEF DashInit
    <2> QED BY <2>1, <2>2, <1>5, <1>6 DEF DashTypeOK
  <1> QED BY <1>5, <1>7 DEF DashInit, TypeInv, RedeemTypes

LEMMA LoadTypes ==
  ASSUME TypeInv, DashNext
  PROVE  /\ loads' \subseteq Loads /\ started' \in 1..MaxLoads
         /\ loading' \in BOOLEAN /\ toast' \in BOOLEAN
         /\ shown' \in Queries \cup {Nothing} /\ status' \in -1..Cardinality(Vouchers)
  <1> DEFINE Typed == /\ loads' \subseteq Loads /\ started' \in 1..MaxLoads
                      /\ loading' \in BOOLEAN /\ toast' \in BOOLEAN
                      /\ shown' \in Queries \cup {Nothing}
                      /\ status' \in -1..Cardinality(Vouchers)
  <1> SUFFICES Typed
    OBVIOUS
  <1>0. Query \in Queries /\ Query' \in Queries
    <2>1. Query \in Queries
      BY QueryType
    <2>2. [applied' EXCEPT !.username = IF IsAdmin THEN @ ELSE Anyone] \in Filters
      BY FilterTypes DEF Filters
    <2> QED BY <2>1, <2>2, FilterTypes DEF Query, Queries
  <1>n. Cardinality(Vouchers) \in Nat /\ Cardinality(booked) \in 0..Cardinality(Vouchers)
    BY DashAssumption, FS_CardinalityType, BookedCount DEF TypeInv, DashTypeOK
  <1>1. CASE SameLoads
    BY <1>1 DEF SameLoads, TypeInv, DashTypeOK
  <1>2. CASE StartLoad
    <2>1. PICK l : NewLoad(l) /\ loads' = loads \cup {l}
      BY <1>2 DEF StartLoad, NewLoad
    <2>2. started' \in 1..MaxLoads
      BY <1>2, DashAssumption DEF StartLoad, TypeInv, DashTypeOK
    <2>3. l \in Loads
      BY <2>1, <2>2, <1>0, <1>n DEF NewLoad, Loads
    <2> QED BY <1>2, <2>1, <2>2, <2>3 DEF StartLoad, TypeInv, DashTypeOK
  <1>3. ASSUME NEW l \in loads, FinishLoad(l) PROVE Typed
    <2>1. l \in Loads
      BY DEF TypeInv, DashTypeOK
    <2>2. l.query \in Queries /\ l.read \in 0..Cardinality(Vouchers) /\ l.failed \in BOOLEAN
      BY <2>1 DEF Loads
    <2>3. l.read \in -1..Cardinality(Vouchers)
      BY <2>2, <1>n
    <2> QED BY <1>3, <2>2, <2>3 DEF FinishLoad, TypeInv, DashTypeOK
  <1>4. ASSUME NEW l \in loads, NEW c \in Calls, ServeCall(l, c) PROVE Typed
    <2>1. l \in Loads
      BY DEF TypeInv, DashTypeOK
    <2>2. [l EXCEPT !.got = @ \cup {c},
                    !.read = IF c = "status" THEN Cardinality(booked) ELSE @] \in Loads
      BY <2>1, <1>n DEF Loads
    <2> QED BY <1>4, <2>2 DEF ServeCall, Replaced, TypeInv, DashTypeOK
  <1>5. ASSUME NEW l \in loads, FailCall(l) PROVE Typed
    <2>1. l \in Loads
      BY DEF TypeInv, DashTypeOK
    <2>2. [l EXCEPT !.failed = TRUE] \in Loads
      BY <2>1 DEF Loads
    <2> QED BY <1>5, <2>2 DEF FailCall, Replaced, TypeInv, DashTypeOK
  <1> QED BY <1>1, <1>2, <1>3, <1>4, <1>5, PageStep DEF LoadStep

\* What is left: the options, the code and the redemptions.
LEMMA OtherTypes ==
  ASSUME TypeInv, DashNext
  PROVE  /\ options' \subseteq Users /\ usersCall' \in {"none", "pending"}
         /\ code' \in Vouchers \cup {Anyone} /\ booked' \subseteq Vouchers
         /\ RedeemTypes'
  <1> DEFINE Typed == /\ options' \subseteq Users /\ usersCall' \in {"none", "pending"}
                      /\ code' \in Vouchers \cup {Anyone} /\ booked' \subseteq Vouchers
                      /\ RedeemTypes'
  <1> SUFFICES Typed
    OBVIOUS
  <1> USE DEF TypeInv, DashTypeOK, RedeemTypes
  <1>1. CASE UNCHANGED <<options, usersCall, voucherVars>>
    BY <1>1 DEF voucherVars
  <1>2. CASE UsersLoaded
    BY <1>2 DEF UsersLoaded, voucherVars
  <1>3. ASSUME NEW c \in Vouchers, EditCode(c) PROVE Typed
    BY <1>3 DEF EditCode
  <1>4. CASE HandleRedeem
    <2>1. [code |-> code, answer |-> "pending"] \in [code : Vouchers, answer : Answers]
      BY <1>4 DEF HandleRedeem, Answers
    <2> QED BY <2>1, <1>4 DEF HandleRedeem
  <1>5. ASSUME NEW r \in redeems, ServeRedeem(r) PROVE Typed
    <2>1. r.code \in Vouchers
          /\ [r EXCEPT !.answer = IF r.code \in booked THEN "refused" ELSE "ok"]
               \in [code : Vouchers, answer : Answers]
      BY DEF Answers
    <2> QED BY <2>1, <1>5 DEF ServeRedeem
  <1>6. ASSUME NEW r \in redeems, RedeemDone(r) \/ RedeemRefused(r) PROVE Typed
    BY <1>6 DEF RedeemDone, RedeemRefused
  <1> QED BY <1>1, <1>2, <1>3, <1>4, <1>5, <1>6
          DEF DashNext, EditFilters, HandleSearch, HandleRefresh, HandleUsageTableChange,
              HandleModelTableChange, LoadStep, FinishLoad, FailCall, ServeCall, voucherVars

LEMMA TypeStep == TypeInv /\ [DashNext]_dashVars => TypeInv'
  <1> SUFFICES ASSUME TypeInv, [DashNext]_dashVars PROVE TypeInv'
    OBVIOUS
  <1>1. CASE DashNext
    BY <1>1, FilterTypes, LoadTypes, OtherTypes DEF TypeInv, DashTypeOK
  <1>2. CASE UNCHANGED dashVars
    BY <1>2 DEF dashVars, filterVars, voucherVars, TypeInv, DashTypeOK, RedeemTypes
  <1> QED BY <1>1, <1>2

\* Every variable of the page stays within its type.
THEOREM DashboardTypeOK == Spec => []DashTypeOK
  <1>1. TypeInv => DashTypeOK
    BY DEF TypeInv
  <1> QED BY <1>1, TypeInit, TypeStep, PagesRun, PTL DEF DashSpec

-----------------------------------------------------------------------------
(* The page implements LatestAnswer. *)

LEMMA LoadInit == DashInit => LoadInv
  BY DEF DashInit, LoadInv

LEMMA StartLoadInv ==
  ASSUME TypeInv, LoadInv, StartLoad
  PROVE  LoadInv'
  <1>1. PICK l : NewLoad(l) /\ loads' = loads \cup {l}
    BY DEF StartLoad, NewLoad
  <1>2. started' = started + 1 /\ started \in Nat /\ loading' = TRUE
    BY DEF StartLoad, TypeInv, DashTypeOK
  <1>3. \A m \in loads : m.no \in Nat /\ m.no < started'
    BY <1>2 DEF TypeInv, DashTypeOK, Loads, LoadInv
  <1>4. l.no = started' /\ l.query = Query'
    BY <1>1 DEF NewLoad
  <1> QED BY <1>1, <1>2, <1>3, <1>4 DEF LoadInv

\* An answer that comes in changes nothing but its own load.
LEMMA LoadAnswerInv ==
  ASSUME TypeInv, LoadInv, Query' = Query, NEW l \in loads,
         FailCall(l) \/ \E c \in Calls : ServeCall(l, c)
  PROVE  LoadInv'
  <1>1. PICK l2 : l2.no = l.no /\ l2.query = l.query /\ loads' = (loads \ {l}) \cup {l2}
    <2>1. l \in Loads
      BY DEF TypeInv, DashTypeOK
    <2> QED BY <2>1 DEF FailCall, ServeCall, Replaced, Loads
  <1>2. started' = started /\ loading' = loading
    BY DEF FailCall, ServeCall
  <1> QED BY <1>1, <1>2 DEF LoadInv

LEMMA FinishInv ==
  ASSUME LoadInv, Query' = Query, NEW l \in loads, FinishLoad(l)
  PROVE  LoadInv'
  <1>1. loads' = loads \ {l} /\ started' = started
    BY DEF FinishLoad
  <1>2. l.no # started => loading' = loading
    BY DEF FinishLoad
  <1> QED BY <1>1, <1>2 DEF LoadInv

LEMMA LoadNext ==
  ASSUME TypeInv, LoadInv, [DashNext]_dashVars
  PROVE  LoadInv'
  <1>1. CASE LoadStep
    <2>1. Query' = Query
      BY <1>1, LoadStepFilters
    <2> QED BY <1>1, <2>1, LoadAnswerInv, FinishInv DEF LoadStep
  <1>2. CASE (SameLoads \/ UNCHANGED dashVars) /\ Query' = Query
    BY <1>2 DEF SameLoads, dashVars, LoadInv
  <1>3. CASE UNCHANGED dashVars
    BY <1>3, <1>2 DEF dashVars, filterVars, Query
  <1> QED BY <1>1, <1>2, <1>3, StartLoadInv, PageStep

LEMMA InitLatest == DashInit => Latest!Init
  <1> SUFFICES ASSUME DashInit PROVE Latest!Init
    OBVIOUS
  <1>1. Query \in Queries
    BY TypeInit, QueryType
  <1> QED BY <1>1 DEF DashInit, Latest!Init

\* A step asks, shows the answer to what was asked last, gives up or does nothing to
\* what the page promises.
LEMMA StepLatest ==
  ASSUME TypeInv, TypeInv', LoadInv, [DashNext]_dashVars
  PROVE  [Latest!Next]_(Latest!vars)
  <1> USE DEF Latest!Next, Latest!Ask, Latest!Show, Latest!GiveUp, Latest!vars
  <1>1. ASSUME NEW l \in loads, FinishLoad(l) PROVE [Latest!Next]_(Latest!vars)
    <2>1. Query' = Query
      BY <1>1, LoadStepFilters DEF LoadStep
    <2>2. l.no = started => l.query = Query /\ loading
      BY DEF LoadInv
    <2>3. CASE l.no = started /\ ~l.failed
      BY <2>1, <2>2, <2>3, <1>1 DEF FinishLoad
    <2>4. CASE l.no = started /\ l.failed
      BY <2>1, <2>2, <2>4, <1>1 DEF FinishLoad
    <2>5. CASE l.no # started
      BY <2>1, <2>5, <1>1 DEF FinishLoad
    <2> QED BY <2>3, <2>4, <2>5
  <1>2. ASSUME NEW l \in loads, FailCall(l) \/ \E c \in Calls : ServeCall(l, c)
        PROVE  [Latest!Next]_(Latest!vars)
    <2>1. Query' = Query
      BY <1>2, LoadStepFilters DEF LoadStep
    <2> QED BY <1>2, <2>1 DEF FailCall, ServeCall
  <1>3. CASE StartLoad
    <2>1. Query' \in Queries
      <3>1. [applied' EXCEPT !.username = IF IsAdmin THEN @ ELSE Anyone] \in Filters
        BY DEF TypeInv, DashTypeOK, Filters
      <3> QED BY <3>1 DEF TypeInv, DashTypeOK, Query, Queries
    <2> QED BY <1>3, <2>1 DEF StartLoad
  <1>4. CASE SameLoads /\ Query' = Query
    BY <1>4 DEF SameLoads
  <1>5. CASE UNCHANGED dashVars
    BY <1>5 DEF dashVars, filterVars, Query
  <1> QED BY <1>1, <1>2, <1>3, <1>4, <1>5, PageStep DEF LoadStep

\* However the calls of overlapping loads are answered, the page only ever puts up the
\* answer to what it asks at that moment (the cancelled flag, 212-287).
THEOREM DashboardImplementsLatest == Spec => ImplementsLatest
  <1>1. TypeInv /\ LoadInv /\ [DashNext]_dashVars => TypeInv' /\ LoadInv'
    BY TypeStep, LoadNext
  <1>2. TypeInv /\ TypeInv' /\ LoadInv /\ [DashNext]_dashVars => [Latest!Next]_(Latest!vars)
    BY StepLatest
  <1> QED BY <1>1, <1>2, TypeInit, LoadInit, InitLatest, PagesRun, PTL
          DEF DashSpec, ImplementsLatest, Latest!Spec

-----------------------------------------------------------------------------
(* A redemption is shown. *)

LEMMA RedeemInit == DashInit => RedeemInv
  <1> SUFFICES ASSUME DashInit PROVE RedeemInv
    OBVIOUS
  <1>1. Untold = {} /\ redeems = {} /\ booked = {} /\ told = 0
    BY DEF DashInit, Untold
  <1>2. Cardinality(Untold) = 0 /\ Cardinality(booked) = 0 /\ IsFiniteSet(redeems)
    BY <1>1, FS_EmptySet
  <1>3. RedeemedIsShown /\ \A l \in loads : l.no = started /\ "status" \in l.got => l.read >= told
    BY DEF DashInit, RedeemedIsShown
  <1> QED BY <1>1, <1>2, <1>3 DEF RedeemInv

\* Counts of finite sets of redemptions.
LEMMA UntoldCount ==
  ASSUME TypeInv, RedeemInv
  PROVE  /\ IsFiniteSet(Untold) /\ Cardinality(Untold) \in Nat
         /\ IsFiniteSet(booked) /\ Cardinality(booked) \in Nat
         /\ told \in Nat /\ told <= Cardinality(booked)
  <1>1. IsFiniteSet(Untold) /\ Cardinality(Untold) \in Nat
    BY FS_Subset, FS_CardinalityType DEF RedeemInv, Untold
  <1>2. IsFiniteSet(booked) /\ Cardinality(booked) \in Nat
    BY BookedCount DEF TypeInv, DashTypeOK
  <1> QED BY <1>1, <1>2 DEF RedeemInv, TypeInv, RedeemTypes

Counted == IsFiniteSet(redeems) /\ told + Cardinality(Untold) <= Cardinality(booked)

LEMMA ServeRedeemCount ==
  ASSUME TypeInv, RedeemInv, NEW r \in redeems, ServeRedeem(r)
  PROVE  Counted'
  <1> DEFINE r2 == [r EXCEPT !.answer = IF r.code \in booked THEN "refused" ELSE "ok"]
  <1>1. /\ redeems' = (redeems \ {r}) \cup {r2} /\ told' = told
        /\ booked' = booked \cup {r.code} /\ r.answer = "pending"
    BY DEF ServeRedeem
  <1>2. r2.answer = IF r.code \in booked THEN "refused" ELSE "ok"
    BY DEF TypeInv, RedeemTypes
  <1> HIDE DEF r2
  <1>3. IsFiniteSet(redeems')
    BY <1>1, FS_RemoveElement, FS_AddElement DEF RedeemInv
  <1>4. CASE r.code \in booked
    <2>1. Untold' = Untold /\ booked' = booked
      BY <1>1, <1>2, <1>4 DEF Untold
    <2> QED BY <2>1, <1>1, <1>3 DEF Counted, RedeemInv
  <1>5. CASE r.code \notin booked
    <2>1. Untold' = Untold \cup {r2}
      BY <1>1, <1>2, <1>5 DEF Untold
    <2>2. Cardinality(Untold') <= Cardinality(Untold) + 1 /\ Cardinality(Untold') \in Nat
      <3>1. Cardinality(Untold \cup {r2})
              = IF r2 \in Untold THEN Cardinality(Untold) ELSE Cardinality(Untold) + 1
        BY UntoldCount, FS_AddElement
      <3>2. Cardinality(Untold) \in Nat
        BY UntoldCount
      <3> QED BY <2>1, <3>1, <3>2
    <2>3. Cardinality(booked') = Cardinality(booked) + 1
      BY <1>1, <1>5, UntoldCount, FS_AddElement
    <2>4. told \in Nat /\ Cardinality(Untold) \in Nat /\ Cardinality(booked) \in Nat
      BY UntoldCount
    <2>5. told + Cardinality(Untold') <= Cardinality(booked')
      BY <2>2, <2>3, <2>4 DEF RedeemInv
    <2> QED BY <2>5, <1>1, <1>3 DEF Counted
  <1> QED BY <1>4, <1>5

LEMMA RedeemEndsCount ==
  ASSUME TypeInv, RedeemInv, NEW r \in redeems, RedeemDone(r) \/ RedeemRefused(r)
  PROVE  Counted'
  <1>1. redeems' = redeems \ {r} /\ booked' = booked
    BY DEF RedeemDone, RedeemRefused
  <1>2. IsFiniteSet(redeems')
    BY <1>1, FS_RemoveElement DEF RedeemInv
  <1>3. Untold' = Untold \ {r}
    BY <1>1 DEF Untold
  <1>4. Cardinality(Untold') \in Nat /\ Cardinality(Untold') <= Cardinality(Untold)
        /\ (r \in Untold => Cardinality(Untold') = Cardinality(Untold) - 1)
    <2>1. Cardinality(Untold \ {r})
            = IF r \in Untold THEN Cardinality(Untold) - 1 ELSE Cardinality(Untold)
      BY UntoldCount, FS_RemoveElement
    <2>2. IsFiniteSet(Untold) /\ Cardinality(Untold) \in Nat
      BY UntoldCount
    <2>3. Cardinality(Untold \ {r}) \in Nat
      BY <2>2, FS_RemoveElement, FS_CardinalityType
    <2> QED BY <1>3, <2>1, <2>2, <2>3
  <1>5. told' = told \/ (r \in Untold /\ told' = told + 1)
    BY DEF RedeemDone, RedeemRefused, Untold
  <1>6. told' + Cardinality(Untold') <= Cardinality(booked')
    BY <1>1, <1>4, <1>5, UntoldCount DEF RedeemInv
  <1> QED BY <1>2, <1>6 DEF Counted

LEMMA HandleRedeemCount ==
  ASSUME TypeInv, RedeemInv, HandleRedeem
  PROVE  Counted'
  <1>1. /\ redeems' = redeems \cup {[code |-> code, answer |-> "pending"]}
        /\ booked' = booked /\ told' = told
    BY DEF HandleRedeem
  <1>2. IsFiniteSet(redeems')
    BY <1>1, FS_AddElement DEF RedeemInv
  <1>3. [code |-> code, answer |-> "pending"].answer = "pending"
    OBVIOUS
  <1>4. Untold' = Untold
    BY <1>1, <1>3 DEF Untold
  <1> QED BY <1>1, <1>2, <1>4 DEF Counted, RedeemInv

LEMMA CountStep ==
  ASSUME TypeInv, RedeemInv, [DashNext]_dashVars
  PROVE  Counted'
  <1>1. CASE UNCHANGED <<redeems, booked, told>>
    BY <1>1 DEF Counted, RedeemInv, Untold
  <1>2. CASE UNCHANGED dashVars
    BY <1>1, <1>2 DEF dashVars, voucherVars
  <1> QED BY <1>1, <1>2, ServeRedeemCount, RedeemEndsCount, HandleRedeemCount
          DEF DashNext, EditFilters, HandleSearch, HandleRefresh, HandleUsageTableChange,
              HandleModelTableChange, UsersLoaded, EditCode, LoadStep, FinishLoad, FailCall,
              ServeCall, voucherVars

\* The number of redemptions told grows only in a step that starts a load.
LEMMA ToldStep ==
  ASSUME [DashNext]_dashVars
  PROVE  told' = told \/ StartLoad
  BY DEF DashNext, EditFilters, HandleSearch, HandleRefresh, HandleUsageTableChange,
         HandleModelTableChange, UsersLoaded, EditCode, HandleRedeem, ServeRedeem, RedeemDone,
         RedeemRefused, LoadStep, FinishLoad, FailCall, ServeCall, voucherVars, dashVars

Shown == \A l \in loads : l.no = started /\ "status" \in l.got => l.read >= told

\* A load that starts has read nothing, and those before do not count any more.
LEMMA StartShown ==
  ASSUME TypeInv, LoadInv, StartLoad
  PROVE  Shown' /\ RedeemedIsShown'
  <1>1. PICK l : NewLoad(l) /\ loads' = loads \cup {l}
    BY DEF StartLoad, NewLoad
  <1>2. started' = started + 1 /\ started \in Nat /\ loading' = TRUE
    BY DEF StartLoad, TypeInv, DashTypeOK
  <1>3. \A m \in loads : m.no # started'
    BY <1>2 DEF TypeInv, DashTypeOK, Loads, LoadInv
  <1>4. l.got = {}
    BY <1>1 DEF NewLoad
  <1> QED BY <1>1, <1>2, <1>3, <1>4 DEF Shown, RedeemedIsShown

LEMMA AnswerShown ==
  ASSUME TypeInv, RedeemInv, NEW l \in loads,
         FailCall(l) \/ \E c \in Calls : ServeCall(l, c)
  PROVE  Shown' /\ RedeemedIsShown'
  <1>1. /\ started' = started /\ told' = told
        /\ UNCHANGED <<loading, toast, status>>
    BY DEF FailCall, ServeCall, voucherVars
  <1>2. l \in Loads /\ l.read \in Int
    BY BookedCount DEF TypeInv, DashTypeOK, Loads
  <1>3. PICK l2 : /\ l2.no = l.no /\ loads' = (loads \ {l}) \cup {l2}
                  /\ \/ "status" \in l2.got => "status" \in l.got /\ l2.read = l.read
                     \/ l2.read = Cardinality(booked)
    <2>1. CASE FailCall(l)
      <3> DEFINE l2 == [l EXCEPT !.failed = TRUE]
      <3>1. l2.no = l.no /\ l2.got = l.got /\ l2.read = l.read
        BY <1>2 DEF Loads
      <3>2. loads' = (loads \ {l}) \cup {l2}
        BY <2>1 DEF FailCall, Replaced
      <3> QED BY <3>1, <3>2
    <2>2. ASSUME NEW c \in Calls, ServeCall(l, c)
          PROVE  \E l2 : /\ l2.no = l.no /\ loads' = (loads \ {l}) \cup {l2}
                         /\ \/ "status" \in l2.got => "status" \in l.got /\ l2.read = l.read
                            \/ l2.read = Cardinality(booked)
      <3> DEFINE l2 == [l EXCEPT !.got = @ \cup {c},
                                 !.read = IF c = "status" THEN Cardinality(booked) ELSE @]
      <3>1. /\ l2.no = l.no /\ l2.got = l.got \cup {c}
            /\ l2.read = IF c = "status" THEN Cardinality(booked) ELSE l.read
        BY <1>2 DEF Loads
      <3>2. loads' = (loads \ {l}) \cup {l2}
        BY <2>2 DEF ServeCall, Replaced
      <3> HIDE DEF l2
      <3> QED BY <3>1, <3>2
    <2> QED BY <2>1, <2>2
  <1>4. Cardinality(booked) >= told
    BY UntoldCount
  <1>5. Shown'
    BY <1>1, <1>3, <1>4 DEF Shown, RedeemInv
  <1> QED BY <1>1, <1>5 DEF RedeemInv, RedeemedIsShown

LEMMA FinishShown ==
  ASSUME TypeInv, RedeemInv, NEW l \in loads, FinishLoad(l)
  PROVE  Shown' /\ RedeemedIsShown'
  <1>1. loads' = loads \ {l} /\ started' = started /\ told' = told
    BY DEF FinishLoad, voucherVars
  <1>2. Shown'
    BY <1>1 DEF Shown, RedeemInv
  <1>3. CASE l.no = started /\ ~l.failed
    <2>1. l.got = Calls /\ status' = l.read
      BY <1>3 DEF FinishLoad, Settled
    <2>2. l.read >= told
      BY <1>3, <2>1 DEF RedeemInv, Calls
    <2> QED BY <1>1, <1>2, <2>1, <2>2 DEF RedeemedIsShown
  <1>4. CASE l.no = started /\ l.failed
    BY <1>2, <1>4 DEF FinishLoad, RedeemedIsShown
  <1>5. CASE l.no # started
    BY <1>1, <1>2, <1>5 DEF FinishLoad, RedeemInv, RedeemedIsShown
  <1> QED BY <1>3, <1>4, <1>5

LEMMA RedeemNext ==
  ASSUME TypeInv, LoadInv, RedeemInv, [DashNext]_dashVars
  PROVE  RedeemInv'
  <1>1. Shown' /\ RedeemedIsShown'
    <2>1. CASE LoadStep
      BY <2>1, AnswerShown, FinishShown DEF LoadStep
    <2>2. CASE ~StartLoad /\ (SameLoads \/ UNCHANGED dashVars)
      BY <2>2, ToldStep DEF SameLoads, dashVars, Shown, RedeemInv, RedeemedIsShown
    <2> QED BY <2>1, <2>2, StartShown, PageStep
  <1> QED BY <1>1, CountStep DEF Counted, Shown, RedeemInv

\* Once the page has loaded after a redemption it was told of, the account panel counts
\* that redemption (handleRedeem, 347-366), whatever loads were under way.
THEOREM DashboardRedeemedIsShown == Spec => []RedeemedIsShown
  <1>1. TypeInv /\ LoadInv /\ RedeemInv /\ [DashNext]_dashVars
        => TypeInv' /\ LoadInv' /\ RedeemInv'
    BY TypeStep, LoadNext, RedeemNext
  <1>2. RedeemInv => RedeemedIsShown
    BY DEF RedeemInv
  <1> QED BY <1>1, <1>2, TypeInit, LoadInit, RedeemInit, PagesRun, PTL DEF DashSpec

-----------------------------------------------------------------------------
(* OrdersTab and LogsPage. *)

LEMMA OrdersRest ==
  ASSUME Ord!PagerIsAtTheRows, Ord!OrdersNext \/ UNCHANGED ordersVars
  PROVE  Ord!PagerIsAtTheRows'
  <1>1. ASSUME NEW q, Ord!FetchWith(fetches, q) PROVE fetches' # {}
    BY <1>1 DEF Ord!FetchWith
  <1>2. ASSUME NEW p \in OrderPages, Ord!ChangePage(p) PROVE Ord!PagerIsAtTheRows'
    BY <1>1, <1>2 DEF Ord!ChangePage, Ord!RefetchIfChanged, Ord!Query, Ord!PagerIsAtTheRows
  <1>3. ASSUME NEW f \in OrderFilters, Ord!ApplyFilter(f) PROVE Ord!PagerIsAtTheRows'
    BY <1>1, <1>3 DEF Ord!ApplyFilter, Ord!RefetchIfChanged, Ord!Query, Ord!PagerIsAtTheRows
  <1>4. ASSUME NEW c \in fetches, Ord!FetchAnswered(c) \/ Ord!FetchFailed(c)
        PROVE  Ord!PagerIsAtTheRows'
    BY <1>4 DEF Ord!FetchAnswered, Ord!FetchFailed, Ord!PagerIsAtTheRows
  <1>5. ASSUME Ord!Refetch \/ \E m \in marks : Ord!MarkDone(m) PROVE Ord!PagerIsAtTheRows'
    BY <1>1, <1>5 DEF Ord!Refetch, Ord!MarkDone, Ord!PagerIsAtTheRows
  <1>6. ASSUME \/ UNCHANGED ordersVars
               \/ \E o \in PaidOrders : Ord!HandleMarkPaid(o)
               \/ \E m \in marks : Ord!ServeMark(m) \/ Ord!MarkFailed(m)
               \/ Ord!CloseResult
        PROVE  Ord!PagerIsAtTheRows'
    BY <1>6 DEF ordersVars, Ord!HandleMarkPaid, Ord!ServeMark, Ord!MarkFailed, Ord!CloseResult,
                Ord!PagerIsAtTheRows
  <1> QED BY <1>2, <1>3, <1>4, <1>5, <1>6 DEF Ord!OrdersNext

LEMMA LogsRest ==
  ASSUME Log!LogPagerIsAtTheRows, Log!LogsNext \/ UNCHANGED logsVars
  PROVE  Log!LogPagerIsAtTheRows'
  <1>1. ASSUME Log!HandleSearch \/ \E p \in LogPages : Log!HandlePageChange(p)
        PROVE  Log!LogPagerIsAtTheRows'
    BY <1>1 DEF Log!HandleSearch, Log!HandlePageChange, Log!FetchLogs, Log!LogPagerIsAtTheRows
  <1>2. ASSUME NEW c \in logCalls, Log!LogsAnswered(c) \/ Log!LogsFailed(c)
        PROVE  Log!LogPagerIsAtTheRows'
    BY <1>2 DEF Log!LogsAnswered, Log!LogsFailed, Log!LogPagerIsAtTheRows
  <1>3. ASSUME UNCHANGED <<pager, listedOf, logCalls, lastFailed>>
        PROVE  Log!LogPagerIsAtTheRows'
    BY <1>3 DEF Log!LogPagerIsAtTheRows
  <1>4. ASSUME \/ UNCHANGED logsVars
               \/ \E f \in LogFilters : Log!Type(f)
               \/ \E r \in Rows : Log!Expand(r) \/ Log!Collapse(r) \/ Log!Store(r)
                                  \/ \E ok \in BOOLEAN : Log!MessagesAnswered(r, ok)
        PROVE  UNCHANGED <<pager, listedOf, logCalls, lastFailed>>
    BY <1>4 DEF logsVars, Log!Type, Log!Expand, Log!Collapse, Log!Store, Log!MessagesAnswered,
                Log!tableVars
  <1> QED BY <1>1, <1>2, <1>3, <1>4 DEF Log!LogsNext

-----------------------------------------------------------------------------
(* GroupsPage. *)

\* What a call and a dialog consist of.
IsCall(c) ==
  /\ c = [step |-> c.step, dialog |-> c.dialog, group |-> c.group, item |-> c.item, no |-> c.no,
          status |-> c.status, rows |-> c.rows, table |-> c.table]
  /\ c.step = "reload" => c.dialog = "groupChannels"
IsDialog(d) ==
  /\ d = [open |-> d.open, group |-> d.group, rows |-> d.rows, spins |-> d.spins,
          adding |-> d.adding, entry |-> d.entry]
  /\ d.spins \in BOOLEAN /\ d.adding \in BOOLEAN

\* A call that the button of a dialog waits for.
Adds(c) == c.step \in {"add", "reload"}

\* The button of a dialog waits for one call at a time.
GroupInv ==
  /\ \A c \in groupCalls : IsCall(c)
  /\ dialogs = [d \in Group!Dialogs |-> dialogs[d]]
  /\ \A d \in Group!Dialogs : IsDialog(dialogs[d])
  /\ spinning \in BOOLEAN
  /\ \A c, e \in groupCalls : Adds(c) /\ Adds(e) /\ c.dialog = e.dialog => c = e
  /\ Group!DialogsComeToRest

LEMMA GroupInit == Group!GroupsInit => GroupInv
  <1> SUFFICES ASSUME Group!GroupsInit PROVE GroupInv
    OBVIOUS
  <1>1. PICK c : /\ c.step = "list" /\ c.dialog = "page" /\ IsCall(c)
                 /\ groupCalls = {c}
    BY DEF Group!GroupsInit, IsCall
  <1>2. \A d \in Group!Dialogs : IsDialog(dialogs[d]) /\ ~dialogs[d].spins /\ ~dialogs[d].adding
    BY DEF Group!GroupsInit, IsDialog
  <1>3. dialogs = [d \in Group!Dialogs |-> dialogs[d]] /\ spinning = TRUE
    BY DEF Group!GroupsInit
  <1>4. Group!DialogsComeToRest
    BY <1>1, <1>2 DEF Group!DialogsComeToRest, Group!Dialogs
  <1> QED BY <1>1, <1>2, <1>3, <1>4 DEF GroupInv

\* Calls of the page itself lock no button.
LEMMA PageCallInv ==
  ASSUME GroupInv, NEW c, c.dialog = "page", ~Adds(c), IsCall(c),
         c \in groupCalls', \A e \in groupCalls' : e \in groupCalls \/ e = c,
         \A e \in groupCalls : e \notin groupCalls' => e.step \notin {"list", "load", "add", "reload"},
         dialogs' = dialogs,
         \/ spinning' = spinning
         \/ spinning' = TRUE /\ c.step = "list"
  PROVE  GroupInv'
  <1>1. /\ \A e \in groupCalls' : IsCall(e)
        /\ \A e, f \in groupCalls' : Adds(e) /\ Adds(f) /\ e.dialog = f.dialog => e = f
    BY DEF GroupInv
  <1>2. spinning' \in BOOLEAN
    BY DEF GroupInv
  <1>3. spinning' => \E e \in groupCalls' : e.dialog = "page" /\ e.step \in {"list"}
    BY DEF GroupInv, Group!DialogsComeToRest
  <1>4. ASSUME NEW d \in Group!Dialogs
        PROVE  /\ dialogs[d].spins => \E e \in groupCalls' : e.dialog = d /\ e.step \in {"load"}
               /\ dialogs[d].adding <=> \E e \in groupCalls' : e.dialog = d /\ e.step \in {"add", "reload"}
    <2>1. d # "page"
      BY DEF Group!Dialogs
    <2>2. \A e : e.dialog = d /\ e.step \in {"load", "add", "reload"}
                 => (e \in groupCalls' <=> e \in groupCalls)
      BY <2>1
    <2>3. /\ dialogs[d].spins => \E e \in groupCalls : e.dialog = d /\ e.step \in {"load"}
          /\ dialogs[d].adding <=> \E e \in groupCalls : e.dialog = d /\ e.step \in {"add", "reload"}
      BY DEF GroupInv, Group!DialogsComeToRest
    <2> QED BY <2>2, <2>3
  <1> QED BY <1>1, <1>2, <1>3, <1>4 DEF GroupInv, Group!DialogsComeToRest

\* The server's answer: the call is the same but for what is told of it.
LEMMA ReplyInv ==
  ASSUME GroupInv, NEW c \in groupCalls, NEW e, NEW s, NEW t, NEW h, IsCall(e),
         e.step = c.step, e.dialog = c.dialog, e.no = c.no, Group!Reply(e, s, t, h)
  PROVE  GroupInv'
  <1> DEFINE f == [e EXCEPT !.status = s]
  <1>1. f.step = c.step /\ f.dialog = c.dialog /\ IsCall(f)
    BY DEF IsCall
  <1>2. groupCalls' = {d \in groupCalls : ~Group!Answers(e, d)} \cup {f}
    BY DEF Group!Reply
  <1>3. dialogs' = dialogs /\ spinning' = spinning
    BY DEF Group!Reply
  <1>4. \A d \in groupCalls : Group!Answers(e, d) => d.step = f.step /\ d.dialog = f.dialog
    BY <1>1 DEF Group!Answers
  <1>5. Group!Answers(e, c)
    BY DEF Group!Answers
  <1> HIDE DEF f
  <1>6. \A d \in groupCalls : d \notin groupCalls' => d.step = f.step /\ d.dialog = f.dialog
    BY <1>2, <1>4
  <1>7. \A d \in groupCalls' : d \in groupCalls \/ d = f
    BY <1>2
  <1>8. f \in groupCalls' /\ (c \in groupCalls' => c = f)
    BY <1>2, <1>5
  <1>9. \A d \in groupCalls' : IsCall(d)
    BY <1>1, <1>7 DEF GroupInv
  <1>10. ASSUME NEW d \in groupCalls', NEW g \in groupCalls', Adds(d), Adds(g), d.dialog = g.dialog
         PROVE  d = g
    BY <1>10, <1>1, <1>7, <1>8 DEF GroupInv, Adds
  <1>11. Group!DialogsComeToRest'
    BY <1>1, <1>3, <1>6, <1>7, <1>8 DEF GroupInv, Group!DialogsComeToRest
  <1> QED BY <1>3, <1>9, <1>10, <1>11 DEF GroupInv

\* A step of one dialog leaves the others, their calls and those of the page alone.
LEMMA DialogInv ==
  ASSUME GroupInv, NEW d \in Group!Dialogs,
         dialogs' = [e \in Group!Dialogs |-> dialogs'[e]],
         \A e \in Group!Dialogs : e # d => dialogs'[e] = dialogs[e],
         IsDialog(dialogs'[d]), spinning' = spinning,
         \A x : x.dialog # d => (x \in groupCalls' <=> x \in groupCalls),
         \A x \in groupCalls' : x \in groupCalls \/ IsCall(x),
         \A x, y \in groupCalls' : Adds(x) /\ Adds(y) /\ x.dialog = d /\ y.dialog = d => x = y,
         dialogs'[d].spins => \E x \in groupCalls' : x.dialog = d /\ x.step = "load",
         dialogs'[d].adding <=> \E x \in groupCalls' : x.dialog = d /\ Adds(x)
  PROVE  GroupInv'
  <1>1. /\ \A x \in groupCalls' : IsCall(x)
        /\ \A e \in Group!Dialogs : IsDialog(dialogs'[e])
        /\ spinning' \in BOOLEAN
    BY DEF GroupInv
  <1>2. ASSUME NEW x \in groupCalls', NEW y \in groupCalls', Adds(x), Adds(y), x.dialog = y.dialog
        PROVE  x = y
    <2>1. CASE x.dialog # d
      <3>1. x \in groupCalls /\ y \in groupCalls
        BY <2>1, <1>2
      <3> QED BY <3>1, <1>2 DEF GroupInv
    <2> QED BY <2>1, <1>2
  <1>3. spinning' => \E x \in groupCalls' : x.dialog = "page" /\ x.step \in {"list"}
    BY DEF GroupInv, Group!DialogsComeToRest, Group!Dialogs
  <1>4. ASSUME NEW e \in Group!Dialogs
        PROVE  /\ dialogs'[e].spins => \E x \in groupCalls' : x.dialog = e /\ x.step \in {"load"}
               /\ dialogs'[e].adding <=> \E x \in groupCalls' : x.dialog = e /\ x.step \in {"add", "reload"}
    <2>1. CASE e = d
      BY <2>1 DEF Adds
    <2>2. CASE e # d
      <3>1. /\ dialogs[e].spins => \E x \in groupCalls : x.dialog = e /\ x.step \in {"load"}
            /\ dialogs[e].adding <=> \E x \in groupCalls : x.dialog = e /\ x.step \in {"add", "reload"}
        BY DEF GroupInv, Group!DialogsComeToRest
      <3>2. \A x : x.dialog = e => (x \in groupCalls' <=> x \in groupCalls)
        BY <2>2
      <3>3. dialogs'[e] = dialogs[e]
        BY <2>2
      <3> QED BY <3>1, <3>2, <3>3
    <2> QED BY <2>1, <2>2
  <1> QED BY <1>1, <1>2, <1>3, <1>4 DEF GroupInv, Group!DialogsComeToRest

\* What the dialog shows changes, its calls do not.
LEMMA ShowInv ==
  ASSUME GroupInv, NEW d \in Group!Dialogs, IsDialog(dialogs'[d]),
         dialogs' = [e \in Group!Dialogs |-> dialogs'[e]],
         \A e \in Group!Dialogs : e # d => dialogs'[e] = dialogs[e],
         dialogs'[d].spins = dialogs[d].spins, dialogs'[d].adding = dialogs[d].adding,
         spinning' = spinning, groupCalls' = groupCalls
  PROVE  GroupInv'
  <1>1. /\ dialogs[d].spins => \E x \in groupCalls : x.dialog = d /\ x.step = "load"
        /\ dialogs[d].adding <=> \E x \in groupCalls : x.dialog = d /\ Adds(x)
    BY DEF GroupInv, Group!DialogsComeToRest, Adds
  <1> QED BY <1>1, DialogInv DEF GroupInv

LEMMA CallIs ==
  ASSUME NEW step, NEW d, NEW g, NEW item
  PROVE  /\ (step = "reload" => d = "groupChannels") => IsCall(Group!Call(step, d, g, item))
         /\ Group!Call(step, d, g, item).step = step
         /\ Group!Call(step, d, g, item).dialog = d
  BY DEF Group!Call, IsCall

\* The part of GroupInv that is about one dialog.
LEMMA DialogRests ==
  ASSUME GroupInv, NEW d \in Group!Dialogs
  PROVE  /\ IsDialog(dialogs[d])
         /\ dialogs[d].spins => \E x \in groupCalls : x.dialog = d /\ x.step = "load"
         /\ dialogs[d].adding <=> \E x \in groupCalls : x.dialog = d /\ Adds(x)
         /\ \A x, y \in groupCalls : Adds(x) /\ Adds(y) /\ x.dialog = d /\ y.dialog = d => x = y
  BY DEF GroupInv, Group!DialogsComeToRest, Adds

\* The actions of the user in a dialog.
LEMMA UserInv ==
  ASSUME GroupInv, NEW d \in Group!Dialogs, NEW g,
         Group!OpenDialog(d, g) \/ Group!Add(d) \/ (\E i : Group!Remove(d, i)) \/ Group!CloseDialog(d)
  PROVE  GroupInv'
  <1>1. CASE Group!CloseDialog(d)
    <2>1. dialogs' = [dialogs EXCEPT ![d].open = FALSE] /\ spinning' = spinning /\ groupCalls' = groupCalls
      BY <1>1 DEF Group!CloseDialog
    <2>2. dialogs = [e \in Group!Dialogs |-> dialogs[e]]
      BY DEF GroupInv
    <2>3. IsDialog(dialogs[d])
      BY DEF GroupInv
    <2>4. /\ IsDialog(dialogs'[d])
          /\ dialogs' = [e \in Group!Dialogs |-> dialogs'[e]]
          /\ \A e \in Group!Dialogs : e # d => dialogs'[e] = dialogs[e]
          /\ dialogs'[d].spins = dialogs[d].spins /\ dialogs'[d].adding = dialogs[d].adding
      BY <2>1, <2>2, <2>3 DEF IsDialog
    <2> QED BY <2>1, <2>4, ShowInv
  <1>2. CASE Group!OpenDialog(d, g)
    <2> DEFINE c == Group!Call("load", d, g, Group!Absent)
    <2>1. /\ groupCalls' = groupCalls \cup {c} /\ spinning' = spinning
          /\ dialogs' = [dialogs EXCEPT ![d].open = TRUE, ![d].group = g, ![d].spins = TRUE,
                                        ![d].entry = Group!FirstEntry(d)]
      BY <1>2 DEF Group!OpenDialog, Group!Send
    <2>2. dialogs = [e \in Group!Dialogs |-> dialogs[e]] /\ IsDialog(dialogs[d])
      BY DEF GroupInv
    <2>3. /\ IsDialog(dialogs'[d])
          /\ dialogs' = [e \in Group!Dialogs |-> dialogs'[e]]
          /\ \A e \in Group!Dialogs : e # d => dialogs'[e] = dialogs[e]
          /\ dialogs'[d].spins /\ dialogs'[d].adding = dialogs[d].adding
      BY <2>1, <2>2 DEF IsDialog
    <2>4. IsCall(c) /\ c.step = "load" /\ c.dialog = d /\ ~Adds(c)
      BY CallIs DEF Adds
    <2> HIDE DEF c
    <2>5. /\ \A x : x.dialog # d => (x \in groupCalls' <=> x \in groupCalls)
          /\ \A x : Adds(x) => (x \in groupCalls' <=> x \in groupCalls)
          /\ c \in groupCalls' /\ \A x \in groupCalls' : x \in groupCalls \/ IsCall(x)
      BY <2>1, <2>4
    <2> QED BY <2>1, <2>3, <2>4, <2>5, DialogRests, DialogInv
  <1>3. CASE Group!Add(d)
    <2> DEFINE c == Group!Call("add", d, dialogs[d].group, dialogs[d].entry)
    <2>1. /\ groupCalls' = groupCalls \cup {c} /\ spinning' = spinning /\ ~dialogs[d].adding
          /\ dialogs' = [dialogs EXCEPT ![d].adding = TRUE]
      BY <1>3 DEF Group!Add, Group!Send
    <2>2. dialogs = [e \in Group!Dialogs |-> dialogs[e]] /\ IsDialog(dialogs[d])
      BY DEF GroupInv
    <2>3. /\ IsDialog(dialogs'[d])
          /\ dialogs' = [e \in Group!Dialogs |-> dialogs'[e]]
          /\ \A e \in Group!Dialogs : e # d => dialogs'[e] = dialogs[e]
          /\ dialogs'[d].spins = dialogs[d].spins /\ dialogs'[d].adding
      BY <2>1, <2>2 DEF IsDialog
    <2>4. IsCall(c) /\ c.step = "add" /\ c.dialog = d /\ Adds(c)
      BY CallIs DEF Adds
    <2> HIDE DEF c
    <2>5. /\ \A x : x.dialog # d => (x \in groupCalls' <=> x \in groupCalls)
          /\ c \in groupCalls' /\ groupCalls \subseteq groupCalls'
          /\ \A x \in groupCalls' : x \in groupCalls \/ x = c
      BY <2>1, <2>4
    <2>6. \A x \in groupCalls' : x.dialog = d /\ Adds(x) => x = c
      BY <2>1, <2>5, DialogRests
    <2>7. dialogs'[d].spins => \E x \in groupCalls' : x.dialog = d /\ x.step = "load"
      BY <2>3, <2>5, DialogRests
    <2>8. \A x, y \in groupCalls' : Adds(x) /\ Adds(y) /\ x.dialog = d /\ y.dialog = d => x = y
      BY <2>6
    <2>9. dialogs'[d].adding <=> \E x \in groupCalls' : x.dialog = d /\ Adds(x)
      BY <2>3, <2>4, <2>5
    <2>10. \A x \in groupCalls' : x \in groupCalls \/ IsCall(x)
      BY <2>4, <2>5
    <2> QED BY <2>1, <2>3, <2>5, <2>7, <2>8, <2>9, <2>10, DialogInv
  <1>4. ASSUME NEW i, Group!Remove(d, i) PROVE GroupInv'
    <2> DEFINE c == Group!Call("delete", d, dialogs[d].group, i)
    <2>1. groupCalls' = groupCalls \cup {c} /\ spinning' = spinning /\ dialogs' = dialogs
      BY <1>4 DEF Group!Remove, Group!Send
    <2>2. IsCall(c) /\ c.step = "delete" /\ c.dialog = d /\ ~Adds(c)
      BY CallIs DEF Adds
    <2> HIDE DEF c
    <2>3. /\ \A x : x.dialog # d => (x \in groupCalls' <=> x \in groupCalls)
          /\ \A x : Adds(x) => (x \in groupCalls' <=> x \in groupCalls)
          /\ groupCalls \subseteq groupCalls' /\ \A x \in groupCalls' : x \in groupCalls \/ IsCall(x)
      BY <2>1, <2>2
    <2>4. dialogs = [e \in Group!Dialogs |-> dialogs[e]]
      BY DEF GroupInv
    <2> QED BY <2>1, <2>3, <2>4, DialogRests, DialogInv
  <1> QED BY <1>1, <1>2, <1>3, <1>4

LEMMA Unlocked ==
  ASSUME NEW d, IsDialog(d), NEW b \in BOOLEAN, NEW e
  PROVE  /\ IsDialog([d EXCEPT !.adding = b, !.entry = e])
         /\ [d EXCEPT !.adding = b, !.entry = e].adding = b
  <1> DEFINE f == [d EXCEPT !.adding = b]
  <1>1. IsDialog(f) /\ f.adding = b
    BY DEF IsDialog
  <1>2. [d EXCEPT !.adding = b, !.entry = e] = [f EXCEPT !.entry = e]
    OBVIOUS
  <1> HIDE DEF f
  <1>3. IsDialog([f EXCEPT !.entry = e]) /\ [f EXCEPT !.entry = e].adding = f.adding
    BY <1>1 DEF IsDialog
  <1> QED BY <1>1, <1>2, <1>3

\* The answers to a dialog's calls.
LEMMA AnswerInv ==
  ASSUME GroupInv, NEW d \in Group!Dialogs, NEW c \in groupCalls,
         Group!Added(d, c) \/ Group!Removed(d, c) \/ Group!Loaded(d, c)
  PROVE  GroupInv'
  <1>0. /\ dialogs = [e \in Group!Dialogs |-> dialogs[e]] /\ IsDialog(dialogs[d])
        /\ c.dialog = d
    BY DEF GroupInv, Group!Added, Group!Removed, Group!Loaded
  <1>1. CASE Group!Loaded(d, c)
    <2>1. /\ groupCalls' = groupCalls \ {c} /\ spinning' = spinning /\ c.step = "load"
          /\ dialogs' = [dialogs EXCEPT ![d].rows = c.rows, ![d].spins = FALSE]
      BY <1>1 DEF Group!Loaded
    <2>2. /\ IsDialog(dialogs'[d])
          /\ dialogs' = [e \in Group!Dialogs |-> dialogs'[e]]
          /\ \A e \in Group!Dialogs : e # d => dialogs'[e] = dialogs[e]
          /\ ~dialogs'[d].spins /\ dialogs'[d].adding = dialogs[d].adding
      BY <2>1, <1>0 DEF IsDialog
    <2>3. /\ \A x : x.dialog # d => (x \in groupCalls' <=> x \in groupCalls)
          /\ \A x : Adds(x) => (x \in groupCalls' <=> x \in groupCalls)
          /\ \A x \in groupCalls' : x \in groupCalls
      BY <2>1, <1>0 DEF Adds
    <2> QED BY <2>1, <2>2, <2>3, DialogRests, DialogInv
  <1>2. ASSUME NEW D, Group!ThenLoad(c, d, D), IsDialog(D), c.step \in {"add", "delete"},
               D.adding = (dialogs[d].adding /\ c.step # "add")
        PROVE  GroupInv'
    <2> DEFINE n == Group!Call("load", d, c.group, Group!Absent)
    <2>1. /\ groupCalls' = (groupCalls \ {c}) \cup {n} /\ spinning' = spinning
          /\ dialogs' = [dialogs EXCEPT ![d] = [D EXCEPT !.spins = TRUE]]
      BY <1>2 DEF Group!ThenLoad
    <2>2. /\ IsDialog(dialogs'[d])
          /\ dialogs' = [e \in Group!Dialogs |-> dialogs'[e]]
          /\ \A e \in Group!Dialogs : e # d => dialogs'[e] = dialogs[e]
          /\ dialogs'[d].adding = D.adding
      BY <2>1, <1>0, <1>2 DEF IsDialog
    <2>3. IsCall(n) /\ n.step = "load" /\ n.dialog = d /\ ~Adds(n)
      BY CallIs DEF Adds
    <2> HIDE DEF n
    <2>4. /\ \A x : x.dialog # d => (x \in groupCalls' <=> x \in groupCalls)
          /\ \A x : Adds(x) => (x \in groupCalls' <=> x \in groupCalls /\ x # c)
          /\ n \in groupCalls' /\ \A x \in groupCalls' : x \in groupCalls \/ IsCall(x)
      BY <2>1, <2>3, <1>0
    <2>5. dialogs'[d].adding <=> \E x \in groupCalls' : x.dialog = d /\ Adds(x)
      <3>1. CASE c.step = "add"
        <4>1. ~dialogs'[d].adding
          BY <3>1, <2>2, <1>2
        <4>2. \A x \in groupCalls' : ~(x.dialog = d /\ Adds(x))
          BY <3>1, <2>4, <1>0, DialogRests DEF Adds
        <4> QED BY <4>1, <4>2
      <3>2. CASE c.step = "delete"
        <4>1. ~Adds(c)
          BY <3>2 DEF Adds
        <4>2. dialogs'[d].adding <=> dialogs[d].adding
          BY <3>2, <2>2, <1>2, <1>0 DEF IsDialog
        <4> QED BY <4>1, <4>2, <2>4, DialogRests
      <3> QED BY <3>1, <3>2, <1>2
    <2>6. \A x, y \in groupCalls' : Adds(x) /\ Adds(y) /\ x.dialog = d /\ y.dialog = d => x = y
      BY <2>4, DialogRests
    <2>7. dialogs'[d].spins => \E x \in groupCalls' : x.dialog = d /\ x.step = "load"
      BY <2>3, <2>4
    <2> QED BY <2>1, <2>2, <2>4, <2>5, <2>6, <2>7, DialogInv
  <1>3. CASE Group!Added(d, c)
    <2> DEFINE D == [dialogs[d] EXCEPT !.adding = FALSE, !.entry = Group!FirstEntry(d)]
    <2>1. Group!ThenLoad(c, d, D) /\ c.step = "add"
      BY <1>3 DEF Group!Added
    <2>2. IsDialog(D) /\ D.adding = FALSE
      <3>1. FALSE \in BOOLEAN
        OBVIOUS
      <3> QED BY <3>1, <1>0, Unlocked, Zenon
    <2> HIDE DEF D
    <2> QED BY <2>1, <2>2, <1>2
  <1>4. CASE Group!Removed(d, c)
    <2>1. Group!ThenLoad(c, d, dialogs[d]) /\ c.step = "delete"
      BY <1>4 DEF Group!Removed
    <2>2. dialogs[d].adding = (dialogs[d].adding /\ c.step # "add")
      BY <2>1, <1>0 DEF IsDialog
    <2> QED BY <2>1, <2>2, <1>0, <1>2
  <1> QED BY <1>1, <1>3, <1>4

\* The dialog of the channels: what it does besides.
LEMMA ChannelDialogInv ==
  ASSUME GroupInv, NEW c \in groupCalls,
         Group!ChannelAdded(c) \/ Group!ChannelsReloaded(c) \/ Group!ChannelRemoved(c)
  PROVE  GroupInv'
  <1> DEFINE d == "groupChannels"
  <1>0. /\ d \in Group!Dialogs /\ c.dialog = d /\ spinning' = spinning
        /\ dialogs = [e \in Group!Dialogs |-> dialogs[e]] /\ IsDialog(dialogs[d])
    BY DEF GroupInv, IsCall, Group!Dialogs, Group!ChannelAdded, Group!ChannelsReloaded, Group!ChannelRemoved
  <1> HIDE DEF d
  <1>1. CASE Group!ChannelAdded(c)
    <2> DEFINE n == Group!Call("reload", d, c.group, Group!Absent)
    <2>1. /\ groupCalls' = (groupCalls \ {c}) \cup {n} /\ c.step = "add"
          /\ dialogs' = [dialogs EXCEPT ![d].entry = Group!Blank]
      BY <1>1 DEF Group!ChannelAdded, d
    <2>2. /\ IsDialog(dialogs'[d])
          /\ dialogs' = [e \in Group!Dialogs |-> dialogs'[e]]
          /\ \A e \in Group!Dialogs : e # d => dialogs'[e] = dialogs[e]
          /\ dialogs'[d].spins = dialogs[d].spins /\ dialogs'[d].adding = dialogs[d].adding
      BY <2>1, <1>0 DEF IsDialog
    <2>3. IsCall(n) /\ n.step = "reload" /\ n.dialog = d /\ Adds(n)
      BY CallIs DEF Adds, d
    <2> HIDE DEF n
    <2>4. /\ \A x : x.dialog # d => (x \in groupCalls' <=> x \in groupCalls)
          /\ \A x : x.step = "load" => (x \in groupCalls' <=> x \in groupCalls)
          /\ n \in groupCalls' /\ \A x \in groupCalls' : x = n \/ (x \in groupCalls /\ x # c)
      BY <2>1, <2>3, <1>0
    <2>5. Adds(c)
      BY <2>1 DEF Adds
    <2>6. \A x \in groupCalls' : x.dialog = d /\ Adds(x) => x = n
      BY <2>4, <2>5, <1>0, DialogRests
    <2>7. \A x, y \in groupCalls' : Adds(x) /\ Adds(y) /\ x.dialog = d /\ y.dialog = d => x = y
      BY <2>6
    <2>8. dialogs'[d].adding <=> \E x \in groupCalls' : x.dialog = d /\ Adds(x)
      BY <2>2, <2>3, <2>4, <2>5, <1>0, DialogRests
    <2>9. dialogs'[d].spins => \E x \in groupCalls' : x.dialog = d /\ x.step = "load"
      BY <2>2, <2>4, <1>0, DialogRests
    <2>10. \A x \in groupCalls' : x \in groupCalls \/ IsCall(x)
      BY <2>3, <2>4
    <2> QED BY <1>0, <2>2, <2>4, <2>7, <2>8, <2>9, <2>10, DialogInv
  <1>2. CASE Group!ChannelsReloaded(c)
    <2>1. /\ groupCalls' = groupCalls \ {c} /\ c.step = "reload"
          /\ dialogs' = [dialogs EXCEPT ![d].rows = c.rows, ![d].adding = FALSE]
      BY <1>2 DEF Group!ChannelsReloaded, d
    <2>2. /\ IsDialog(dialogs'[d])
          /\ dialogs' = [e \in Group!Dialogs |-> dialogs'[e]]
          /\ \A e \in Group!Dialogs : e # d => dialogs'[e] = dialogs[e]
          /\ dialogs'[d].spins = dialogs[d].spins /\ ~dialogs'[d].adding
      BY <2>1, <1>0 DEF IsDialog
    <2>3. /\ \A x : x.dialog # d => (x \in groupCalls' <=> x \in groupCalls)
          /\ \A x : x.step = "load" => (x \in groupCalls' <=> x \in groupCalls)
          /\ \A x \in groupCalls' : x \in groupCalls /\ x # c
      BY <2>1, <1>0
    <2>4. Adds(c)
      BY <2>1 DEF Adds
    <2>5. \A x \in groupCalls' : ~(x.dialog = d /\ Adds(x))
      BY <2>3, <2>4, <1>0, DialogRests
    <2>6. dialogs'[d].spins => \E x \in groupCalls' : x.dialog = d /\ x.step = "load"
      BY <2>2, <2>3, <1>0, DialogRests
    <2> QED BY <1>0, <2>2, <2>3, <2>5, <2>6, DialogInv
  <1>3. CASE Group!ChannelRemoved(c)
    <2>1. /\ groupCalls' = groupCalls \ {c} /\ c.step = "delete"
          /\ dialogs' = [dialogs EXCEPT ![d].rows = @ \ {c.item}]
      BY <1>3 DEF Group!ChannelRemoved, d
    <2>2. /\ IsDialog(dialogs'[d])
          /\ dialogs' = [e \in Group!Dialogs |-> dialogs'[e]]
          /\ \A e \in Group!Dialogs : e # d => dialogs'[e] = dialogs[e]
          /\ dialogs'[d].spins = dialogs[d].spins /\ dialogs'[d].adding = dialogs[d].adding
      BY <2>1, <1>0 DEF IsDialog
    <2>3. /\ \A x : x.dialog # d => (x \in groupCalls' <=> x \in groupCalls)
          /\ \A x : Adds(x) \/ x.step = "load" => (x \in groupCalls' <=> x \in groupCalls)
          /\ \A x \in groupCalls' : x \in groupCalls
      BY <2>1, <1>0 DEF Adds
    <2> QED BY <1>0, <2>2, <2>3, DialogRests, DialogInv
  <1> QED BY <1>1, <1>2, <1>3

\* A call that failed unlocks what it locked, and only that.
LEMMA FailedInv ==
  ASSUME GroupInv, NEW c \in groupCalls, Group!CallFailed(c)
  PROVE  GroupInv'
  <1> DEFINE D(d) == IF c.dialog = d
                     THEN [dialogs[d] EXCEPT !.spins = @ /\ c.step # "load",
                                             !.adding = @ /\ c.step \notin {"add", "reload"}]
                     ELSE dialogs[d]
  <1>1. /\ groupCalls' = groupCalls \ {c} /\ spinning' = (spinning /\ c.step # "list")
        /\ dialogs' = [d \in Group!Dialogs |-> D(d)]
    BY DEF Group!CallFailed
  <1>2. ASSUME NEW d \in Group!Dialogs
        PROVE  /\ IsDialog(D(d))
               /\ D(d).spins => dialogs[d].spins /\ ~(c.dialog = d /\ c.step = "load")
               /\ D(d).adding <=> dialogs[d].adding /\ ~(c.dialog = d /\ Adds(c))
    <2>1. IsDialog(dialogs[d])
      BY DEF GroupInv
    <2>2. CASE c.dialog = d
      <3>1. dialogs[d].spins \in BOOLEAN /\ dialogs[d].adding \in BOOLEAN
        BY <2>1 DEF IsDialog
      <3>2. D(d) = [open |-> dialogs[d].open, group |-> dialogs[d].group, rows |-> dialogs[d].rows,
                    spins |-> dialogs[d].spins /\ c.step # "load",
                    adding |-> dialogs[d].adding /\ c.step \notin {"add", "reload"},
                    entry |-> dialogs[d].entry]
        BY <2>1, <2>2 DEF IsDialog
      <3>3. /\ D(d).spins = (dialogs[d].spins /\ c.step # "load")
            /\ D(d).adding = (dialogs[d].adding /\ c.step \notin {"add", "reload"})
        BY <3>2
      <3> HIDE DEF D
      <3>4. D(d).spins \in BOOLEAN /\ D(d).adding \in BOOLEAN
        BY <3>1, <3>3
      <3>5. IsDialog(D(d))
        BY <3>2, <3>4 DEF IsDialog
      <3> QED BY <3>1, <3>3, <3>5, <2>2 DEF Adds
    <2> QED BY <2>1, <2>2
  <1> HIDE DEF D
  <1>3. \A d \in Group!Dialogs : dialogs'[d] = D(d)
    BY <1>1
  <1>4. dialogs' = [d \in Group!Dialogs |-> dialogs'[d]]
    BY <1>1
  <1>5. spinning' \in BOOLEAN
    BY <1>1
  <1>6. Group!DialogsComeToRest'
    <2>1. ASSUME NEW d \in Group!Dialogs
          PROVE  /\ dialogs'[d].spins => \E x \in groupCalls' : x.dialog = d /\ x.step = "load"
                 /\ dialogs'[d].adding <=> \E x \in groupCalls' : x.dialog = d /\ Adds(x)
      <3>1. /\ D(d).spins => \E x \in groupCalls' : x.dialog = d /\ x.step = "load"
        BY <1>1, <1>2, DialogRests
      <3>2. D(d).adding <=> \E x \in groupCalls' : x.dialog = d /\ Adds(x)
        BY <1>1, <1>2, DialogRests
      <3> QED BY <3>1, <3>2, <1>3
    <2>2. spinning' => \E x \in groupCalls' : x.dialog = "page" /\ x.step \in {"list"}
      BY <1>1 DEF GroupInv, Group!DialogsComeToRest
    <2> QED BY <2>1, <2>2 DEF Group!DialogsComeToRest, Adds
  <1>7. \A d \in Group!Dialogs : IsDialog(dialogs'[d])
    BY <1>2, <1>3
  <1> QED BY <1>1, <1>4, <1>5, <1>6, <1>7 DEF GroupInv

LEMMA PageInv ==
  ASSUME GroupInv, NEW c \in groupCalls, Group!Submitted(c) \/ Group!Deleted(c) \/ Group!ListLoaded(c)
  PROVE  GroupInv'
  <1>1. CASE Group!ListLoaded(c)
    <2>1. groupCalls' = groupCalls \ {c} /\ spinning' = FALSE /\ dialogs' = dialogs /\ c.step = "list"
      BY <1>1 DEF Group!ListLoaded
    <2> QED BY <2>1 DEF GroupInv, Adds, Group!DialogsComeToRest
  <1>2. CASE Group!Submitted(c) \/ Group!Deleted(c)
    <2> DEFINE n == Group!Call("list", "page", Group!Absent, Group!Absent)
    <2>1. /\ groupCalls' = (groupCalls \ {c}) \cup {n} /\ spinning' = TRUE /\ dialogs' = dialogs
          /\ c.step \in {"create", "update", "delete"}
      BY <1>2 DEF Group!Submitted, Group!Deleted, Group!ThenFetchData, Group!PageCall
    <2>2. IsCall(n) /\ n.step = "list" /\ n.dialog = "page" /\ ~Adds(n)
      BY CallIs DEF Adds
    <2> HIDE DEF n
    <2>3. /\ n \in groupCalls' /\ \A e \in groupCalls' : e \in groupCalls \/ e = n
          /\ \A e \in groupCalls :
               e \notin groupCalls' => e.step \notin {"list", "load", "add", "reload"}
      BY <2>1
    <2> QED BY <2>1, <2>2, <2>3, PageCallInv
  <1> QED BY <1>1, <1>2

LEMMA FormInv ==
  ASSUME GroupInv, NEW g, Group!HandleSubmit \/ Group!HandleDelete(g)
  PROVE  GroupInv'
  <1>1. PICK step, h, i : /\ step # "reload" /\ step # "add"
                          /\ groupCalls' = groupCalls \cup {Group!Call(step, "page", h, i)}
                          /\ spinning' = spinning /\ dialogs' = dialogs
    BY DEF Group!HandleSubmit, Group!HandleDelete, Group!Send, Group!PageCall
  <1> DEFINE n == Group!Call(step, "page", h, i)
  <1>2. IsCall(n) /\ n.dialog = "page" /\ ~Adds(n)
    BY <1>1, CallIs DEF Adds
  <1> HIDE DEF n
  <1>3. n \in groupCalls' /\ \A e : e \in groupCalls' <=> e \in groupCalls \/ e = n
    BY <1>1 DEF n
  <1> QED BY <1>1, <1>2, <1>3, PageCallInv

LEMMA ServeInv ==
  ASSUME GroupInv, NEW c \in groupCalls,
         \/ Group!ServeList(c) \/ Group!ServeRows(c) \/ Group!ServeGroup(c) \/ Group!ServeRow(c)
         \/ Group!AddChannelToGroup(c) \/ Group!RemoveChannelFromGroup(c) \/ Group!Lose(c)
  PROVE  GroupInv'
  <1>0. IsCall(c)
    BY DEF GroupInv
  <1>1. PICK e, s, t, h : /\ IsCall(e) /\ e.step = c.step /\ e.dialog = c.dialog /\ e.no = c.no
                          /\ Group!Reply(e, s, t, h)
    <2>1. CASE Group!ServeList(c)
      <3> DEFINE e == [c EXCEPT !.table = groupTable]
      <3>1. IsCall(e) /\ e.step = c.step /\ e.dialog = c.dialog /\ e.no = c.no
        BY <1>0 DEF IsCall
      <3>2. Group!Reply(e, "ok", groupTable, has)
        BY <2>1 DEF Group!ServeList
      <3> HIDE DEF e
      <3> QED BY <3>1, <3>2
    <2>2. CASE Group!ServeRows(c)
      <3>1. PICK r : Group!Reply([c EXCEPT !.rows = r], "ok", groupTable, has)
        BY <2>2 DEF Group!ServeRows
      <3> DEFINE e == [c EXCEPT !.rows = r]
      <3>2. IsCall(e) /\ e.step = c.step /\ e.dialog = c.dialog /\ e.no = c.no
        BY <1>0 DEF IsCall
      <3>3. Group!Reply(e, "ok", groupTable, has)
        BY <3>1
      <3> HIDE DEF e
      <3> QED BY <3>2, <3>3
    <2>3. CASE Group!ServeGroup(c)
      BY <2>3, <1>0 DEF Group!ServeGroup
    <2>4. CASE Group!ServeRow(c)
      BY <2>4, <1>0 DEF Group!ServeRow
    <2>5. CASE Group!AddChannelToGroup(c) \/ Group!RemoveChannelFromGroup(c)
      BY <2>5, <1>0 DEF Group!AddChannelToGroup, Group!RemoveChannelFromGroup
    <2>6. CASE Group!Lose(c)
      BY <2>6, <1>0 DEF Group!Lose
    <2> QED BY <2>1, <2>2, <2>3, <2>4, <2>5, <2>6
  <1> QED BY <1>1, ReplyInv

\* The form of a group, and what is typed into the forms of the dialogs.
LEMMA TypingInv ==
  ASSUME GroupInv, NEW n, NEW s, NEW g, NEW e,
         \/ Group!HandleOpen(g) \/ Group!FillForm(n, s) \/ Group!CloseForm
         \/ Group!TypePrice(e) \/ Group!PickChannel(e)
  PROVE  GroupInv'
  <1>1. CASE Group!HandleOpen(g) \/ Group!FillForm(n, s) \/ Group!CloseForm
    <2>1. UNCHANGED <<groupCalls, spinning, dialogs>>
      BY <1>1 DEF Group!HandleOpen, Group!FillForm, Group!CloseForm
    <2> QED BY <2>1 DEF GroupInv, Group!DialogsComeToRest
  <1>2. CASE Group!TypePrice(e) \/ Group!PickChannel(e)
    <2>1. PICK d \in Group!Dialogs : /\ dialogs' = [dialogs EXCEPT ![d].entry = e]
                                     /\ spinning' = spinning /\ groupCalls' = groupCalls
      BY <1>2 DEF Group!TypePrice, Group!PickChannel, Group!Dialogs
    <2>2. dialogs = [x \in Group!Dialogs |-> dialogs[x]] /\ IsDialog(dialogs[d])
      BY DEF GroupInv
    <2>3. /\ IsDialog(dialogs'[d])
          /\ dialogs' = [x \in Group!Dialogs |-> dialogs'[x]]
          /\ \A x \in Group!Dialogs : x # d => dialogs'[x] = dialogs[x]
          /\ dialogs'[d].spins = dialogs[d].spins /\ dialogs'[d].adding = dialogs[d].adding
      BY <2>1, <2>2 DEF IsDialog
    <2> QED BY <2>1, <2>3, ShowInv
  <1> QED BY <1>1, <1>2

LEMMA GroupNext ==
  ASSUME GroupInv, (\E parts \in SUBSET Group!Parts : Group!GroupsNextOf(parts)) \/ UNCHANGED groupVars
  PROVE  GroupInv'
  <1>1. CASE UNCHANGED groupVars
    BY <1>1 DEF groupVars, GroupInv, Group!DialogsComeToRest
  <1>2. ASSUME NEW parts \in SUBSET Group!Parts, Group!GroupsNextOf(parts)
        PROVE  GroupInv'
    <2>0. "rules" \in Group!Dialogs /\ "groupChannels" \in Group!Dialogs /\ "groupPrices" \in Group!Dialogs
      BY DEF Group!Dialogs
    <2>1. CASE "form" \in parts /\ Group!HandleOpen(Group!NewGroup)
      BY <2>1, TypingInv
    <2>2. ASSUME NEW g \in Groups, Group!RowActions(g, parts) PROVE GroupInv'
      BY <2>0, <2>2, FormInv, TypingInv, UserInv
         DEF Group!RowActions, Group!OpenChannelModal, Group!HandleOpenRules, Group!HandleOpenPrices
    <2>3. CASE Group!GroupModal
      BY <2>3, FormInv, TypingInv DEF Group!GroupModal
    <2>4. CASE Group!RulesModal
      BY <2>0, <2>4, UserInv DEF Group!RulesModal, Group!HandleAddRule, Group!HandleDeleteRule
    <2>5. CASE Group!ChannelsModal
      BY <2>0, <2>5, UserInv, TypingInv
         DEF Group!ChannelsModal, Group!HandleAddChannelToGroup, Group!HandleRemoveChannelFromGroup
    <2>6. CASE Group!PricesModal
      BY <2>0, <2>6, UserInv, TypingInv
         DEF Group!PricesModal, Group!HandleAddGroupPrice, Group!HandleDeleteGroupPrice
    <2>7. ASSUME NEW c \in groupCalls,
                 \/ Group!Submitted(c) \/ Group!Deleted(c) \/ Group!ListLoaded(c) \/ Group!CallFailed(c)
          PROVE  GroupInv'
      BY <2>7, PageInv, FailedInv
    <2>8. ASSUME NEW c \in groupCalls,
                 \/ Group!RulesFetched(c) \/ Group!RuleAdded(c) \/ Group!RuleDeleted(c)
                 \/ Group!PricesFetched(c) \/ Group!PriceAdded(c) \/ Group!PriceDeleted(c)
                 \/ Group!ChannelsLoaded(c)
          PROVE  GroupInv'
      BY <2>0, <2>8, AnswerInv
         DEF Group!RulesFetched, Group!RuleAdded, Group!RuleDeleted, Group!PricesFetched,
             Group!PriceAdded, Group!PriceDeleted, Group!ChannelsLoaded
    <2> QED
      BY <1>2, <2>1, <2>2, <2>3, <2>4, <2>5, <2>6, <2>7, <2>8, ChannelDialogInv, ServeInv
         DEF Group!GroupsNextOf
  <1> QED BY <1>1, <1>2

\* A page with nothing on its way is at rest, whichever of its dialogs were closed or
\* opened for something else meanwhile: the pager of the orders (435) and of the log is at
\* the rows shown, no spinner of the groups' dialogs turns and no button is locked
\* (Groups/index.tsx 185-258).
THEOREM ConsolePagesComeToRest == Spec => []PagesComeToRest
  <1> DEFINE RestInv == Ord!PagerIsAtTheRows /\ Log!LogPagerIsAtTheRows /\ GroupInv
  <1>1. Init => RestInv
    <2>1. Ord!OrdersInit => Ord!PagerIsAtTheRows
      BY DEF Ord!OrdersInit, Ord!PagerIsAtTheRows
    <2>2. Log!LogsInit => Log!LogPagerIsAtTheRows
      BY DEF Log!LogsInit, Log!LogPagerIsAtTheRows
    <2> QED BY <2>1, <2>2, GroupInit DEF Init
  <1>2. RestInv /\ [Next]_consoleVars => RestInv'
    <2> SUFFICES ASSUME RestInv, [Next]_consoleVars PROVE RestInv'
      OBVIOUS
    <2> QED BY PageMoves, OrdersRest, LogsRest, GroupNext
  <1>3. RestInv => PagesComeToRest
    BY DEF PagesComeToRest, GroupInv
  <1> HIDE DEF RestInv
  <1> QED BY <1>1, <1>2, <1>3, PTL DEF Spec

-----------------------------------------------------------------------------
(* ChannelsPage. *)

Fields == {"conf", "key", "mapping", "models"}

\* What the server's rows and the calls consist of; the drawer sends no models, the
\* dialog sends nothing else.
IsRequest(c) ==
  /\ c = [kind |-> c.kind, id |-> c.id, body |-> c.body, seq |-> c.seq, no |-> c.no,
          status |-> c.status, rows |-> c.rows, ids |-> c.ids]
  /\ c.kind \in {"list", "upstream", "create", "edit", "delete", "models"}
  /\ c.kind \in {"create", "edit"} => DOMAIN c.body = {"conf", "mapping", "key"}
  /\ c.kind = "models" => DOMAIN c.body = {"models"}

RowsInv ==
  /\ rows = [c \in Channels |-> rows[c]]
  /\ \A c \in Channels : rows[c] = [f \in Fields |-> rows[c][f]]

ChannelsInv == RowsInv /\ \A c \in calls : IsRequest(c)

\* The body of SavesKeepTheRest.
KeepsTheRest ==
  \A c \in Channels : rows[c] # Ch!Gone /\ rows'[c] # Ch!Gone =>
    \/ rows'[c].models = rows[c].models
    \/ \E d \in calls :
         /\ d.kind = "models" /\ d.id = c /\ d.status = "pending"
         /\ rows'[c] = [rows[c] EXCEPT !.models = d.body.models]

LEMMA ChannelsInvInit == Ch!ChannelsInit => ChannelsInv
  BY FirstRowsAssumption DEF Ch!ChannelsInit, ChannelsInv, RowsInv, Fields

LEMMA RequestIs ==
  ASSUME NEW kind, NEW id, NEW body, NEW n,
         kind \in {"list", "upstream", "create", "edit", "delete", "models"},
         kind \in {"create", "edit"} => DOMAIN body = {"conf", "mapping", "key"},
         kind = "models" => DOMAIN body = {"models"}
  PROVE  IsRequest(Ch!Call(kind, id, body, n))
  BY DEF IsRequest, Ch!Call

LEMMA AnsweredIs ==
  ASSUME \A c \in calls : IsRequest(c), NEW c, IsRequest(c), NEW s, Ch!Answered(c, s)
  PROVE  \A d \in calls' : IsRequest(d)
  <1>1. IsRequest([c EXCEPT !.status = s])
    BY DEF IsRequest
  <1> QED BY <1>1 DEF Ch!Answered

\* The user's actions: they change the rows of the server not at all.
LEMMA UserRequests ==
  ASSUME ChannelsInv,
         \/ Ch!OpenCreate \/ (\E c \in Channels : Ch!RowActions(c))
         \/ (\E f \in Forms : Ch!FillSettings(f.conf, f.key) \/ Ch!FillMapping(f.mapping))
         \/ Ch!CloseDrawer \/ Ch!HandleSubmit
         \/ Ch!DialogActions \/ Ch!VoiceEditor \/ Ch!CloseDialog \/ Ch!HandleSaveModels
  PROVE  rows' = rows /\ \A d \in calls' : IsRequest(d)
  <1>0. \A c \in calls : IsRequest(c)
    BY DEF ChannelsInv
  <1>1. ASSUME NEW c \in Channels, Ch!RowActions(c)
        PROVE  rows' = rows /\ \A d \in calls' : IsRequest(d)
    <2>1. CASE Ch!OpenEdit(c)
      BY <2>1, <1>0 DEF Ch!OpenEdit
    <2>2. CASE Ch!HandleDelete(c)
      BY <2>2, <1>0, RequestIs DEF Ch!HandleDelete, Ch!Send
    <2>3. CASE Ch!OpenManageModels(c)
      BY <2>3, <1>0, RequestIs DEF Ch!OpenManageModels, Ch!Send
    <2> QED BY <1>1, <2>1, <2>2, <2>3 DEF Ch!RowActions
  <1>2. CASE Ch!HandleSubmit
    <2>1. DOMAIN Ch!DrawerPayload(drawer) = {"conf", "mapping", "key"}
      BY DEF Ch!DrawerPayload
    <2> DEFINE k == IF drawer.id = Ch!NewChannel THEN "create" ELSE "edit"
               n == Ch!Call(k, drawer.id, Ch!DrawerPayload(drawer), 0)
    <2>2. rows' = rows /\ calls' = calls \cup {n}
      BY <1>2 DEF Ch!HandleSubmit, Ch!Send
    <2>3. k \in {"create", "edit"}
      OBVIOUS
    <2> HIDE DEF k
    <2>4. IsRequest(n)
      BY <2>1, <2>3, RequestIs
    <2> QED BY <2>2, <2>4, <1>0
  <1>3. CASE Ch!HandleSaveModels
    <2>1. DOMAIN [models |-> Ch!ModelsPayload(dialog)] = {"models"}
      OBVIOUS
    <2> QED BY <2>1, <1>0, <1>3, RequestIs DEF Ch!HandleSaveModels, Ch!Send
  <1>4. CASE Ch!RefreshUpstream
    BY <1>4, <1>0, RequestIs DEF Ch!RefreshUpstream, Ch!Send
  <1>5. CASE \/ Ch!OpenCreate \/ Ch!CloseDrawer \/ Ch!CloseDialog \/ Ch!VoiceEditor
             \/ (\E f \in Forms : Ch!FillSettings(f.conf, f.key) \/ Ch!FillMapping(f.mapping))
    BY <1>5, <1>0 DEF Ch!OpenCreate, Ch!CloseDrawer, Ch!CloseDialog, Ch!VoiceEditor,
                      Ch!SaveVoiceEditor, Ch!FillSettings, Ch!FillMapping
  <1>6. CASE Ch!DialogActions
    BY <1>6, <1>0, <1>4 DEF Ch!DialogActions, Ch!TickAll, Ch!ToggleModel, Ch!ToggleTts
  <1> QED BY <1>1, <1>2, <1>3, <1>5, <1>6

\* What a PATCH leaves of a row.
LEMMA PatchedIs ==
  ASSUME NEW row, row = [f \in Fields |-> row[f]], NEW p
  PROVE  /\ Ch!Patched(row, p) = [f \in Fields |-> Ch!Patched(row, p)[f]]
         /\ "models" \notin DOMAIN p => Ch!Patched(row, p).models = row.models
         /\ DOMAIN p = {"models"} => Ch!Patched(row, p) = [row EXCEPT !.models = p.models]
  BY DEF Ch!Patched, Fields

LEMMA ServeKeeps ==
  ASSUME ChannelsInv, NEW c \in calls, Ch!Serve(c)
  PROVE  ChannelsInv' /\ KeepsTheRest
  <1>0. IsRequest(c) /\ c.status = "pending"
    BY DEF ChannelsInv, Ch!Serve
  <1>1. CASE c.kind \in {"list", "upstream"}
    <2>1. PICK e : rows' = rows /\ IsRequest(e) /\ Ch!Answered(e, "ok")
      <3>1. IsRequest([c EXCEPT !.rows = rows]) /\ IsRequest([c EXCEPT !.ids = Upstream[c.id]])
        BY <1>0 DEF IsRequest
      <3> QED BY <3>1, <1>1 DEF Ch!Serve
    <2> QED BY <2>1, AnsweredIs DEF ChannelsInv, RowsInv, KeepsTheRest
  <1>2. CASE c.kind = "create"
    <2>1. PICK id \in Channels :
            /\ rows[id] = Ch!Gone
            /\ rows' = [rows EXCEPT ![id] = Ch!Patched([Ch!Gone EXCEPT !.models = <<>>], c.body)]
      BY <1>2 DEF Ch!Serve
    <2>2. Ch!Answered(c, "ok")
      BY <1>2 DEF Ch!Serve
    <2>3. [Ch!Gone EXCEPT !.models = <<>>] = [f \in Fields |-> [Ch!Gone EXCEPT !.models = <<>>][f]]
      BY DEF Ch!Gone, Fields
    <2> DEFINE p == Ch!Patched([Ch!Gone EXCEPT !.models = <<>>], c.body)
    <2>3a. p = [f \in Fields |-> p[f]]
      BY <2>3, PatchedIs
    <2> HIDE DEF p
    <2>3b. rows' = [rows EXCEPT ![id] = p]
      BY <2>1 DEF p
    <2>4. RowsInv'
      BY <2>3a, <2>3b DEF ChannelsInv, RowsInv
    <2>5. KeepsTheRest
      BY <2>1 DEF KeepsTheRest, ChannelsInv, RowsInv
    <2> QED BY <1>0, <2>2, <2>4, <2>5, AnsweredIs DEF ChannelsInv
  <1>3. CASE c.kind = "delete"
    <2>1. rows' = [rows EXCEPT ![c.id] = Ch!Gone] /\ Ch!Answered(c, "ok")
      BY <1>3 DEF Ch!Serve
    <2>2. RowsInv'
      BY <2>1 DEF ChannelsInv, RowsInv, Ch!Gone, Fields
    <2>3. KeepsTheRest
      BY <2>1 DEF KeepsTheRest, ChannelsInv, RowsInv
    <2> QED BY <1>0, <2>1, <2>2, <2>3, AnsweredIs DEF ChannelsInv
  <1>4. CASE c.kind \in {"edit", "models"}
    <2>1. CASE rows[c.id] = Ch!Gone
      <3>1. rows' = rows /\ Ch!Answered(c, "error")
        BY <1>4, <2>1 DEF Ch!Serve
      <3> QED BY <3>1, <1>0, AnsweredIs DEF ChannelsInv, RowsInv, KeepsTheRest
    <2>2. CASE rows[c.id] # Ch!Gone
      <3>1. rows' = [rows EXCEPT ![c.id] = Ch!Patched(rows[c.id], c.body)] /\ Ch!Answered(c, "ok")
        BY <1>4, <2>2 DEF Ch!Serve
      <3>2. RowsInv'
        BY <3>1, PatchedIs DEF ChannelsInv, RowsInv
      <3>3. ASSUME NEW d \in Channels, d = c.id
            PROVE  \/ rows'[d].models = rows[d].models
                   \/ c.kind = "models" /\ rows'[d] = [rows[d] EXCEPT !.models = c.body.models]
        <4>1. rows'[d] = Ch!Patched(rows[d], c.body) /\ rows[d] = [f \in Fields |-> rows[d][f]]
          BY <3>1, <3>3 DEF ChannelsInv, RowsInv
        <4>2. CASE c.kind = "models"
          <5>1. DOMAIN c.body = {"models"}
            BY <4>2, <1>0 DEF IsRequest
          <5>2. Ch!Patched(rows[d], c.body) = [rows[d] EXCEPT !.models = c.body.models]
            BY <4>1, <5>1, PatchedIs
          <5> QED BY <4>1, <4>2, <5>2
        <4>3. CASE c.kind = "edit"
          <5>1. "models" \notin DOMAIN c.body
            BY <4>3, <1>0 DEF IsRequest
          <5> QED BY <4>1, <5>1, PatchedIs
        <4> QED BY <4>2, <4>3, <1>4
      <3>4. \A d \in Channels : d # c.id => rows'[d] = rows[d]
        BY <3>1 DEF ChannelsInv, RowsInv
      <3>5. KeepsTheRest
        BY <1>0, <3>3, <3>4 DEF KeepsTheRest
      <3> QED BY <1>0, <3>1, <3>2, <3>5, AnsweredIs DEF ChannelsInv
    <2> QED BY <2>1, <2>2
  <1> QED BY <1>0, <1>1, <1>2, <1>3, <1>4 DEF IsRequest

LEMMA ChannelsInvNext ==
  ASSUME ChannelsInv, Ch!ChannelsNext \/ UNCHANGED channelVars
  PROVE  ChannelsInv' /\ KeepsTheRest
  <1>1. CASE rows' = rows /\ \A d \in calls' : IsRequest(d)
    BY <1>1 DEF ChannelsInv, RowsInv, KeepsTheRest
  <1>2. CASE UNCHANGED channelVars
    BY <1>1, <1>2 DEF channelVars, ChannelsInv
  <1>3. ASSUME NEW c \in calls, Ch!Fail(c)
        PROVE  rows' = rows /\ \A d \in calls' : IsRequest(d)
    BY <1>3, AnsweredIs DEF ChannelsInv, Ch!Fail
  <1>4. ASSUME NEW c \in calls, Ch!Failed(c) \/ Ch!Listed(c) \/ Ch!UpstreamLoaded(c)
        PROVE  rows' = rows /\ \A d \in calls' : IsRequest(d)
    BY <1>4 DEF ChannelsInv, Ch!Failed, Ch!Listed, Ch!UpstreamLoaded
  <1>5. ASSUME NEW c \in calls, Ch!Submitted(c) \/ Ch!Deleted(c) \/ Ch!ModelsSaved(c)
        PROVE  rows' = rows /\ \A d \in calls' : IsRequest(d)
    <2>1. rows' = rows /\ Ch!ThenFetch(c)
      BY <1>5 DEF Ch!Submitted, Ch!Deleted, Ch!ModelsSaved
    <2> QED BY <2>1, RequestIs DEF ChannelsInv, Ch!ThenFetch
  <1> QED BY <1>1, <1>2, <1>3, <1>4, <1>5, ServeKeeps, UserRequests DEF Ch!ChannelsNext

\* The drawer and the model dialog of a channel save different parts of it: whichever rows
\* they were opened over, no save of the one changes what the other saved (Channels/index.tsx
\* 369).
THEOREM ConsoleSavesKeepTheRest == Spec => SavesKeepTheRest
  <1>1. Init => ChannelsInv
    BY ChannelsInvInit DEF Init
  <1>2. ChannelsInv /\ [Next]_consoleVars => ChannelsInv' /\ KeepsTheRest
    <2> SUFFICES ASSUME ChannelsInv, [Next]_consoleVars PROVE ChannelsInv' /\ KeepsTheRest
      OBVIOUS
    <2> QED BY PageMoves, ChannelsInvNext
  <1>3. KeepsTheRest => [KeepsTheRest]_channelVars
    OBVIOUS
  <1> QED BY <1>1, <1>2, <1>3, PTL
          DEF Spec, SavesKeepTheRest, Ch!SavesKeepTheRest, KeepsTheRest, Ch!channelVars, channelVars

-----------------------------------------------------------------------------
(* ChatPage. *)

\* What has come of the answer to one request.
AnswerOf(n, k) == [j \in 1..k |-> <<n, j>>]

Bubbles == [role : {"user", "assistant"}, text : {t \in Seq(Seq(Int)) : Chat!IsBeginning(t)}]

ChatInv ==
  /\ sends \in 0..MaxSends
  /\ history \in Seq(Bubbles)
  /\ \A s \in streams :
       /\ s = [no |-> s.no, text |-> s.text] /\ s.no \in 1..sends
       /\ \E k \in 0..MaxPieces : s.text = AnswerOf(s.no, k)

LEMMA ChatInvInit == Chat!ChatInit => ChatInv
  BY MaxAssumption DEF Chat!ChatInit, ChatInv

\* What the page writes into a bubble: the answer of one request so far, or an error.
LEMMA BeginningIs ==
  ASSUME NEW n \in 1..MaxSends, NEW k \in 0..MaxPieces
  PROVE  /\ AnswerOf(n, k) \in Seq(Seq(Int)) /\ Chat!IsBeginning(AnswerOf(n, k))
         /\ <<Chat!Failure(n)>> \in Seq(Seq(Int)) /\ Chat!IsBeginning(<<Chat!Failure(n)>>)
  <1>0. MaxSends \in Nat /\ MaxPieces \in Nat
    BY MaxAssumption
  <1>1. AnswerOf(n, k) \in Seq(Seq(Int))
    <2>1. ASSUME NEW j \in 1..k PROVE <<n, j>> \in Seq(Int)
      BY <1>0
    <2> QED BY <2>1, <1>0 DEF AnswerOf
  <1>2. Chat!IsBeginning(AnswerOf(n, k))
    <2>1. CASE k = 0
      <3>1. AnswerOf(n, k) = <<>>
        BY <2>1 DEF AnswerOf
      <3> QED BY <3>1 DEF Chat!IsBeginning
    <2>2. CASE k \in 1..MaxPieces
      BY <2>2 DEF Chat!IsBeginning, AnswerOf
    <2> QED BY <2>1, <2>2, <1>0
  <1>3. <<Chat!Failure(n)>> \in Seq(Seq(Int))
    BY <1>0 DEF Chat!Failure
  <1>4. Chat!IsBeginning(<<Chat!Failure(n)>>)
    BY DEF Chat!IsBeginning
  <1> QED BY <1>1, <1>2, <1>3, <1>4

LEMMA BubbleIs ==
  ASSUME NEW r \in {"user", "assistant"}, NEW t \in Seq(Seq(Int)), Chat!IsBeginning(t)
  PROVE  Chat!Bubble(r, t) \in Bubbles
  BY DEF Chat!Bubble, Bubbles

\* The last bubble is written, or there is none.
LEMMA UpdateIs ==
  ASSUME history \in Seq(Bubbles), NEW t \in Seq(Seq(Int)), Chat!IsBeginning(t)
  PROVE  Chat!UpdateLastAssistant(t) \in Seq(Bubbles)
  <1>1. Chat!Bubble("assistant", t) \in Bubbles
    BY BubbleIs
  <1>2. CASE history = <<>>
    <2>1. [history EXCEPT ![Len(history)] = Chat!Bubble("assistant", t)] = <<>>
      BY <1>2
    <2>2. Chat!UpdateLastAssistant(t) = <<>>
      BY <2>1 DEF Chat!UpdateLastAssistant
    <2> QED BY <2>2, EmptySeq
  <1>3. CASE history # <<>>
    <2>1. Len(history) \in 1..Len(history)
      BY <1>3
    <2> QED BY <1>1, <2>1, ExceptSeq DEF Chat!UpdateLastAssistant
  <1> QED BY <1>2, <1>3

LEMMA ErrorIs ==
  ASSUME history \in Seq(Bubbles), NEW n \in 1..MaxSends
  PROVE  Chat!WriteError(n) \in Seq(Bubbles)
  <1>1. 0 \in 0..MaxPieces
    BY MaxAssumption
  <1> QED BY <1>1, BeginningIs, UpdateIs DEF Chat!WriteError

LEMMA SendInv ==
  ASSUME ChatInv, Chat!HandleSend
  PROVE  ChatInv'
  <1>1. sends' = sends + 1 /\ sends' \in 1..MaxSends /\ 0 \in 0..MaxPieces
    BY MaxAssumption DEF ChatInv, Chat!HandleSend
  <1> DEFINE u == Chat!Bubble("user", <<Chat!Failure(sends')>>)
             a == Chat!Bubble("assistant", <<>>)
             s == [no |-> sends', text |-> <<>>]
  <1>2. history' = history \o <<u, a>> /\ streams' = streams \cup {s}
    BY DEF Chat!HandleSend, Chat!Failure
  <1>3. u \in Bubbles
    BY <1>1, BeginningIs, BubbleIs
  <1>4. <<>> = AnswerOf(sends', 0)
    BY DEF AnswerOf
  <1>5. a \in Bubbles
    BY <1>1, <1>4, BeginningIs, BubbleIs
  <1>6. s = [no |-> s.no, text |-> s.text] /\ s.no = sends' /\ s.text = AnswerOf(s.no, 0)
    BY <1>4
  <1> HIDE DEF u, a, s
  <1>7. history' \in Seq(Bubbles)
    BY <1>2, <1>3, <1>5 DEF ChatInv
  <1>8. ASSUME NEW e \in streams'
        PROVE  /\ e = [no |-> e.no, text |-> e.text] /\ e.no \in 1..sends'
               /\ \E k \in 0..MaxPieces : e.text = AnswerOf(e.no, k)
    <2>1. CASE e \in streams
      BY <2>1, <1>1 DEF ChatInv
    <2>2. CASE e = s
      BY <2>2, <1>1, <1>6
    <2> QED BY <1>2, <2>1, <2>2
  <1>9. sends' \in 0..MaxSends
    BY <1>1
  <1> QED BY <1>7, <1>8, <1>9 DEF ChatInv

LEMMA PieceInv ==
  ASSUME ChatInv, NEW s \in streams, Chat!Piece(s)
  PROVE  ChatInv'
  <1>0. /\ s = [no |-> s.no, text |-> s.text] /\ s.no \in 1..sends /\ s.no \in 1..MaxSends
        /\ MaxPieces \in Nat /\ sends' = sends
    BY MaxAssumption DEF ChatInv, Chat!Piece
  <1>1. PICK k \in 0..MaxPieces : s.text = AnswerOf(s.no, k)
    BY DEF ChatInv
  <1>2. PICK t : /\ t \in {s.text, Append(s.text, <<s.no, Len(s.text) + 1>>)} /\ Len(t) <= MaxPieces
                 /\ streams' = (streams \ {s}) \cup {[s EXCEPT !.text = t]}
                 /\ history' = Chat!UpdateLastAssistant(t)
    BY DEF Chat!Piece
  <1>3. PICK m \in 0..MaxPieces : t = AnswerOf(s.no, m)
    <2>1. Len(s.text) = k
      BY <1>0, <1>1 DEF AnswerOf
    <2>2. Append(s.text, <<s.no, k + 1>>) = AnswerOf(s.no, k + 1)
      BY <1>0, <1>1 DEF AnswerOf
    <2>3. Len(AnswerOf(s.no, k + 1)) = k + 1
      BY <1>0 DEF AnswerOf
    <2>4. CASE t = s.text
      BY <2>4, <1>1
    <2>5. CASE t # s.text
      <3>1. t = AnswerOf(s.no, k + 1)
        BY <2>1, <2>2, <2>5, <1>2
      <3>2. k + 1 \in 0..MaxPieces
        BY <3>1, <2>3, <1>0, <1>2
      <3> QED BY <3>1, <3>2
    <2> QED BY <2>4, <2>5
  <1>4. history' \in Seq(Bubbles)
    BY <1>0, <1>2, <1>3, BeginningIs, UpdateIs DEF ChatInv
  <1> DEFINE f == [s EXCEPT !.text = t]
  <1>5. f = [no |-> s.no, text |-> t] /\ streams' = (streams \ {s}) \cup {f}
    BY <1>0, <1>2
  <1> HIDE DEF f
  <1>6. f = [no |-> f.no, text |-> f.text] /\ f.no = s.no /\ f.text = AnswerOf(f.no, m)
    BY <1>3, <1>5
  <1>7. ASSUME NEW e \in streams'
        PROVE  /\ e = [no |-> e.no, text |-> e.text] /\ e.no \in 1..sends'
               /\ \E i \in 0..MaxPieces : e.text = AnswerOf(e.no, i)
    BY <1>0, <1>5, <1>6 DEF ChatInv
  <1> QED BY <1>0, <1>4, <1>7 DEF ChatInv

LEMMA ChatInvNext ==
  ASSUME ChatInv, Chat!ChatNext \/ UNCHANGED chatVars
  PROVE  ChatInv'
  <1>1. ASSUME NEW s \in streams, Chat!ErrorLine(s) \/ Chat!Refused(s) \/ Chat!Broken(s) \/ Chat!Done(s)
        PROVE  ChatInv'
    <2>1. sends' = sends /\ streams' \subseteq streams
      BY <1>1 DEF Chat!ErrorLine, Chat!Refused, Chat!Broken, Chat!Done, Chat!Ended
    <2>2. s.no \in 1..MaxSends /\ history \in Seq(Bubbles)
      BY MaxAssumption DEF ChatInv
    <2>3. CASE Chat!ErrorLine(s) \/ Chat!Refused(s)
      <3>1. history' = Chat!WriteError(s.no)
        BY <2>3 DEF Chat!ErrorLine, Chat!Refused
      <3>2. history' \in Seq(Bubbles)
        BY <3>1, <2>2, ErrorIs
      <3> QED BY <3>2, <2>1 DEF ChatInv
    <2>4. CASE Chat!Broken(s)
      <3>1. history' \in {history, Chat!Front(history)} /\ (history' # history => history # <<>>)
        BY <2>4 DEF Chat!Broken, Chat!RemoveEmptyLastAssistant, Chat!LastIsEmpty
      <3>2. history # <<>> => Chat!Front(history) \in Seq(Bubbles)
        BY <2>2, SubSeqProperties DEF Chat!Front
      <3> QED BY <3>1, <3>2, <2>1, <2>2 DEF ChatInv
    <2>5. CASE Chat!Done(s)
      <3>1. history' = history
        BY <2>5 DEF Chat!Done
      <3> QED BY <3>1, <2>1 DEF ChatInv
    <2> QED BY <1>1, <2>3, <2>4, <2>5
  <1>2. ASSUME UNCHANGED <<sends, history, streams>> PROVE ChatInv'
    BY <1>2 DEF ChatInv
  <1>3. ASSUME \/ UNCHANGED chatVars
               \/ \E k \in ChatKeys : Chat!SelectKey(k)
               \/ \E k \in ChatKeys \cup {NoKey} : Chat!ModelsLoaded(k) \/ Chat!ModelsRefused(k)
               \/ \E m \in offered \cup {Chat!NoModel} : Chat!SelectModel(m)
        PROVE  UNCHANGED <<sends, history, streams>>
    BY <1>3 DEF chatVars, Chat!SelectKey, Chat!ModelsLoaded, Chat!ModelsRefused, Chat!SelectModel
  <1> QED BY <1>1, <1>2, <1>3, SendInv, PieceInv DEF Chat!ChatNext

LEMMA ChatOK == ChatInv => Chat!NoMixedAnswers
  <1> SUFFICES ASSUME ChatInv, NEW i \in DOMAIN history PROVE Chat!IsBeginning(history[i].text)
    BY DEF Chat!NoMixedAnswers
  <1>1. history[i] \in Bubbles
    BY ElementOfSeq DEF ChatInv
  <1> QED BY <1>1 DEF Bubbles

\* The pieces of overlapping streams never mix in a bubble, for any number of requests and
\* pieces (Chat/index.tsx 113-171).
THEOREM ConsoleNoMixedAnswers == Spec => []NoMixedAnswers
  <1>1. Init => ChatInv
    BY ChatInvInit DEF Init
  <1>2. ChatInv /\ [Next]_consoleVars => ChatInv'
    BY PageMoves, ChatInvNext
  <1>3. ChatInv => NoMixedAnswers
    BY ChatOK DEF NoMixedAnswers
  <1> QED BY <1>1, <1>2, <1>3, PTL DEF Spec

-----------------------------------------------------------------------------
(* Finite sets. *)

\* A family of subsets of a finite set has one without a smaller member.
LEMMA SmallestSubset ==
  ASSUME NEW S, IsFiniteSet(S), NEW F, F \subseteq SUBSET S, F # {}
  PROVE  \E T \in F : \A U \in F : U \subseteq T => U = T
  <1>1. F \subseteq FiniteSubsetsOf(S)
    BY FS_FiniteSubsetsOfFinite
  <1>2. PICK T \in F : \A U \in F : <<U, T>> \notin StrictSubsetOrdering(S)
    BY <1>1, FS_StrictSubsetOrderingWellFounded, WFMin
  <1> QED BY <1>2 DEF StrictSubsetOrdering

\* A family that has {} and with a subset of S every one with one element more has S.
LEMMA FiniteInduction ==
  ASSUME NEW S, IsFiniteSet(S), NEW F, {} \in F,
         \A T \in F, x \in S : T \cup {x} \in F
  PROVE  S \in F
  <1> SUFFICES ASSUME S \notin F PROVE FALSE
    OBVIOUS
  <1> DEFINE Bad == (SUBSET S) \ F
  <1>1. PICK T \in Bad : \A U \in Bad : U \subseteq T => U = T
    <2>1. Bad \subseteq SUBSET S /\ Bad # {}
      OBVIOUS
    <2> HIDE DEF Bad
    <2> QED BY <2>1, SmallestSubset
  <1>2. PICK x \in T : TRUE
    <2>1. T # {}
      BY <1>1
    <2> QED BY <2>1
  <1>3. T \ {x} \in F
    BY <1>1, <1>2
  <1>4. T = (T \ {x}) \cup {x} /\ x \in S
    BY <1>1, <1>2
  <1> QED BY <1>1, <1>3, <1>4

\* What holds of 0 and goes on from every number below n holds up to n.
LEMMA Induction ==
  ASSUME NEW n \in Nat, NEW G, 0 \in G, \A m \in 0..n - 1 : m \in G => m + 1 \in G
  PROVE  n \in G
  <1> SUFFICES ASSUME n \notin G PROVE FALSE
    OBVIOUS
  <1> DEFINE I == 0..n
             F == {0..k : k \in I \ G}
  <1>1. PICK T \in F : \A U \in F : U \subseteq T => U = T
    <2>1. IsFiniteSet(I)
      BY FS_Interval
    <2>2. F \subseteq SUBSET I /\ F # {}
      <3>1. n \in I \ G
        OBVIOUS
      <3>2. ASSUME NEW k \in I PROVE 0..k \subseteq I
        OBVIOUS
      <3> QED BY <3>1, <3>2
    <2> HIDE DEF I, F
    <2> QED BY <2>1, <2>2, SmallestSubset
  <1>2. PICK m \in I \ G : T = 0..m
    BY <1>1
  <1>3. m - 1 \in I \ G /\ 0..m - 1 \subseteq 0..m /\ m \notin 0..m - 1 /\ m \in 0..m
    BY <1>2
  <1>4. 0..m - 1 \in F
    BY <1>3
  <1> QED BY <1>1, <1>2, <1>3, <1>4

-----------------------------------------------------------------------------
(* PricesPage. *)

\* A finite set of numbers has a largest one.
LEMMA LargestNumber ==
  ASSUME NEW S, IsFiniteSet(S), S \subseteq Nat, S # {}
  PROVE  Price!Max(S) \in S /\ \A x \in S : x <= Price!Max(S)
  <1> DEFINE F == {T \in SUBSET S : T = {} \/ \E m \in T : \A c \in T : m >= c}
  <1>1. ASSUME NEW T \in F, NEW x \in S PROVE T \cup {x} \in F
    <2>1. CASE T = {}
      BY <2>1
    <2>2. ASSUME NEW m \in T, \A c \in T : m >= c PROVE T \cup {x} \in F
      <3>1. CASE m >= x
        BY <2>2, <3>1
      <3>2. CASE ~(m >= x)
        <4>1. \A c \in T \cup {x} : x >= c
          BY <2>2, <3>2
        <4> QED BY <4>1
      <3> QED BY <3>1, <3>2
    <2> QED BY <2>1, <2>2
  <1>2. {} \in F
    OBVIOUS
  <1> HIDE DEF F
  <1>3. S \in F
    BY <1>1, <1>2, FiniteInduction
  <1>4. \E m \in S : \A c \in S : m >= c
    BY <1>3 DEF F
  <1> QED BY <1>4 DEF Price!Max

\* The calls to delete the rows of a finite set are one for each of them.
LEMMA SeqOfSet ==
  ASSUME NEW S, IsFiniteSet(S)
  PROVE  /\ Price!SetToSeq(S) \in Seq(S)
         /\ \A x \in S : \E i \in 1..Len(Price!SetToSeq(S)) : Price!SetToSeq(S)[i] = x
  <1> DEFINE n == Cardinality(S)
  <1>1. n \in Nat /\ ExistsBijection(1..n, S)
    BY FS_CardinalityType
  <1>2. Price!Cardinality(S) = n
    BY DEF Price!Cardinality, Cardinality
  <1> DEFINE f == Price!SetToSeq(S)
  <1>3. f \in [1..n -> S] /\ Price!IsInjective(f)
    <2>1. PICK g \in [1..n -> S] : IsInjective(g)
      BY <1>1 DEF ExistsBijection, Bijection, Injection
    <2>2. Price!IsInjective(g)
      BY <2>1 DEF Price!IsInjective, IsInjective
    <2> HIDE DEF n
    <2> QED BY <1>2, <2>2 DEF Price!SetToSeq
  <1> HIDE DEF f, n
  <1>4. f \in Injection(1..n, S)
    BY <1>3 DEF Price!IsInjective, IsInjective, Injection
  <1>5. IsFiniteSet(1..n) /\ Cardinality(1..n) = n
    BY <1>1, FS_Interval
  <1>6. f \in Surjection(1..n, S)
    BY <1>4, <1>5, FS_Injection DEF n
  <1>7. f \in Seq(S) /\ Len(f) = n
    BY <1>1, <1>3
  <1> QED BY <1>6, <1>7 DEF Surjection, f

\* A set of rows as the page may have read it: all have been given an id.
Known(S) == IsFiniteSet(S) /\ \A r \in S : r.id \in Nat /\ r.id <= lastId

\* A row that is gone does not come back: ids are given away once.
IsGone(r) == \A q \in priceTable : q.id # r.id

\* A chain deletes a row with one of the calls it has left.
Deletes(chain, r) ==
  \E i \in 1..Len(chain.stages) : \E call \in chain.stages[i] :
    call.op = "delete" /\ call.id = r.id

IsChain(chain) ==
  /\ chain = [no |-> chain.no, kind |-> chain.kind, stale |-> chain.stale,
              stages |-> chain.stages, failed |-> chain.failed]
  /\ chain.no \in 1..submitted
  /\ \E S : chain.stages \in Seq(S)
  /\ chain.stages # <<>>
  /\ chain.failed \in BOOLEAN

\* What a chain that nothing failed of has still to delete, it still has a call for.
OnTrack(chain) ==
  /\ Known(chain.stale)
  /\ ~chain.failed => \A r \in chain.stale : Deletes(chain, r) \/ IsGone(r)

PriceInv ==
  /\ lastId \in Nat /\ submitted \in Nat /\ priceMode \in DOMAIN Price!ModeUnits
  /\ Known(priceTable) /\ Known(data) /\ Known(editing.rows)
  /\ \A l \in priceLoads : Known(l)
  /\ \A chain \in chains : IsChain(chain) /\ OnTrack(chain)
  /\ \A a, b \in chains : a.no = b.no => a = b

\* The body of DoneMeansGone.
ReportsTruly ==
  notice' # notice /\ notice'.result = "done" =>
    \A chain \in chains : chain.no = notice'.no =>
      \A gone \in chain.stale : \A r \in priceTable' : r.id # gone.id

LEMMA KnownIs ==
  ASSUME NEW S, Known(S), NEW T \in SUBSET S
  PROVE  Known(T)
  BY FS_Subset DEF Known

LEMMA KnownStays ==
  ASSUME PriceInv, NEW S, Known(S), lastId' \in Nat, lastId <= lastId'
  PROVE  Known(S)'
  BY DEF Known, PriceInv

LEMMA PricesInvInit == Price!PriceInit => PriceInv
  <1> SUFFICES ASSUME Price!PriceInit PROVE PriceInv
    OBVIOUS
  <1> DEFINE ids == {r.id : r \in FirstPrices}
  <1>0. IsFiniteSet(FirstPrices) /\ \A r \in FirstPrices : r.id \in Nat
    BY FirstPricesAssumption DEF Price!PriceRows
  <1>1. IsFiniteSet(ids)
    <2> DEFINE f == [r \in FirstPrices |-> r.id]
    <2>1. f \in Surjection(FirstPrices, ids)
      BY DEF Surjection
    <2> QED BY <2>1, FS_Surjection, <1>0
  <1>2. IsFiniteSet(ids \cup {0}) /\ ids \cup {0} \subseteq Nat
    BY <1>1, FS_AddElement, <1>0
  <1>3. lastId \in Nat /\ \A x \in ids : x <= lastId
    <2> DEFINE S == ids \cup {0}
    <2>1. S # {} /\ S \subseteq Nat /\ IsFiniteSet(S) /\ lastId = Price!Max(S)
      BY <1>2 DEF Price!PriceInit
    <2> HIDE DEF S
    <2>2. lastId \in S /\ \A x \in S : x <= lastId
      BY <2>1, LargestNumber
    <2> QED BY <2>1, <2>2 DEF S
  <1>4. Known(priceTable)
    BY <1>0, <1>3 DEF Price!PriceInit, Known
  <1>5. Known({}) /\ Known(Price!NotRead)
    <2>1. IsFiniteSet({}) /\ IsFiniteSet({[id |-> 0]})
      BY FS_EmptySet, FS_Singleton
    <2>2. \A r \in {[id |-> 0]} : r.id = 0
      OBVIOUS
    <2> QED BY <1>3, <2>1, <2>2 DEF Known, Price!NotRead
  <1>6. priceMode \in DOMAIN Price!ModeUnits
    BY DEF Price!PriceInit, Price!ModeUnits
  <1> QED BY <1>3, <1>4, <1>5, <1>6 DEF Price!PriceInit, PriceInv, Price!NewModel

\* Reading and opening: no call is answered.
LEMMA ReadingInv ==
  ASSUME PriceInv,
         \/ \E l \in priceLoads : Price!LoadRead(l) \/ Price!LoadAnswered(l) \/ Price!LoadFailed(l)
         \/ \E g \in Price!GroupByModel(data) \cup {Price!NewModel} : Price!HandleOpen(g)
         \/ Price!CloseDialog
         \/ \E mode \in DOMAIN Price!ModeUnits : Price!SetMode(mode)
         \/ UNCHANGED priceVars
  PROVE  PriceInv' /\ notice' = notice
  <1>1. UNCHANGED <<lastId, submitted, chains, priceTable, notice>>
    BY DEF Price!LoadRead, Price!LoadAnswered, Price!LoadFailed, Price!HandleOpen,
           Price!CloseDialog, Price!SetMode, priceVars
  <1>2. \A l \in priceLoads' : l \in priceLoads \/ l = priceTable
    BY DEF Price!LoadRead, Price!LoadAnswered, Price!LoadFailed, Price!HandleOpen,
           Price!CloseDialog, Price!SetMode, priceVars
  <1>3. data' = data \/ data' \in priceLoads
    BY DEF Price!LoadRead, Price!LoadAnswered, Price!LoadFailed, Price!HandleOpen,
           Price!CloseDialog, Price!SetMode, priceVars
  <1>4. Known(editing'.rows)
    <2>1. CASE editing' = editing
      BY <2>1 DEF PriceInv
    <2>2. ASSUME NEW g \in Price!GroupByModel(data), editing' = g PROVE Known(editing'.rows)
      <3>1. g.rows \in SUBSET data
        BY DEF Price!GroupByModel
      <3> QED BY <2>2, <3>1, KnownIs DEF PriceInv
    <2>3. CASE editing' = Price!NewModel
      BY <2>3, FS_EmptySet DEF Price!NewModel, Known
    <2> QED BY <2>1, <2>2, <2>3
            DEF Price!LoadRead, Price!LoadAnswered, Price!LoadFailed, Price!HandleOpen,
                Price!CloseDialog, Price!SetMode, priceVars
  <1>5. \A S : Known(S) => Known(S)'
    BY <1>1 DEF Known
  <1>6. \A chain : /\ IsChain(chain) => IsChain(chain)'
                   /\ OnTrack(chain) => OnTrack(chain)'
    BY <1>1, <1>5 DEF IsChain, OnTrack, Deletes, IsGone
  <1>7. priceMode' \in DOMAIN Price!ModeUnits
    <2>1. \A S : Price!ModeOf(S) \in DOMAIN Price!ModeUnits
      BY DEF Price!ModeOf, Price!ModeUnits
    <2> QED BY <2>1 DEF PriceInv, Price!LoadRead, Price!LoadAnswered, Price!LoadFailed,
                        Price!HandleOpen, Price!CloseDialog, Price!SetMode, priceVars
  <1> QED BY <1>1, <1>2, <1>3, <1>4, <1>5, <1>6, <1>7 DEF PriceInv

\* A new chain, with a call for every row that it is to delete.
LEMMA StartInv ==
  ASSUME PriceInv, NEW kind, NEW stale, NEW stages, NEW S, stages \in Seq(S), stages # <<>>,
         Known(stale), Price!Start(kind, stale, stages),
         \A r \in stale : \E i \in 1..Len(stages) : \E call \in stages[i] :
           call.op = "delete" /\ call.id = r.id
  PROVE  PriceInv'
  <1>0. PICK c : c = [no |-> submitted', kind |-> kind, stale |-> stale, stages |-> stages,
                      failed |-> FALSE]
    OBVIOUS
  <1>1. /\ submitted' = submitted + 1 /\ submitted \in Nat
        /\ chains' = chains \cup {c}
        /\ UNCHANGED <<priceTable, lastId, data, priceLoads, editing, priceMode>>
    BY <1>0 DEF PriceInv, Price!Start
  <1>2. \A T : Known(T) => Known(T)'
    BY <1>1 DEF Known
  <1>3. /\ c = [no |-> c.no, kind |-> c.kind, stale |-> c.stale, stages |-> c.stages,
                failed |-> c.failed]
        /\ c.no = submitted + 1 /\ c.stale = stale /\ c.stages = stages /\ c.failed = FALSE
    BY <1>0, <1>1
  <1>4. IsChain(c)'
    <2>1. c.no \in 1..submitted'
      BY <1>1, <1>3
    <2>2. c.stages \in Seq(S) /\ c.stages # <<>> /\ c.failed \in BOOLEAN
      BY <1>3
    <2> QED BY <1>3, <2>1, <2>2 DEF IsChain
  <1>5. OnTrack(c)'
    BY <1>2, <1>3 DEF OnTrack, Deletes
  <1>6. ASSUME NEW d \in chains
        PROVE  IsChain(d)' /\ OnTrack(d)' /\ d.no # c.no
    <2>1. IsChain(d) /\ OnTrack(d)
      BY DEF PriceInv
    <2>2. d.no \in 1..submitted
      BY <2>1 DEF IsChain
    <2>3. IsChain(d)'
      BY <1>1, <2>1, <2>2 DEF IsChain
    <2>4. OnTrack(d)'
      BY <1>1, <1>2, <2>1 DEF OnTrack, Deletes, IsGone
    <2> QED BY <1>1, <1>3, <2>2, <2>3, <2>4
  <1>7. \A a, b \in chains' : a.no = b.no => a = b
    BY <1>1, <1>6 DEF PriceInv
  <1> QED BY <1>1, <1>2, <1>4, <1>5, <1>6, <1>7 DEF PriceInv

LEMMA DeletionIs ==
  ASSUME NEW r
  PROVE  Price!Deletion(r).op = "delete" /\ Price!Deletion(r).id = r.id
  BY DEF Price!Deletion, Price!Call

LEMMA UnitsFinite ==
  ASSUME NEW mode \in DOMAIN Price!ModeUnits
  PROVE  IsFiniteSet(Price!ModeUnits[mode])
  <1>1. Price!ModeUnits[mode] \in
          {{"input_token", "output_token", "cache_read_token", "cache_write_token",
            "extra_context_token"}, {"request"}, {"audio_second"}, {"character"}}
    BY DEF Price!ModeUnits
  <1>2. \A x : IsFiniteSet({x})
    BY FS_Singleton
  <1>3. IsFiniteSet({"input_token", "output_token", "cache_read_token", "cache_write_token",
                     "extra_context_token"})
    <2>1. ASSUME NEW S, IsFiniteSet(S), NEW x PROVE IsFiniteSet(S \cup {x})
      BY <2>1, FS_AddElement
    <2>2. IsFiniteSet({"input_token"} \cup {"output_token"})
      BY <2>1, <1>2
    <2>3. IsFiniteSet(({"input_token"} \cup {"output_token"}) \cup {"cache_read_token"})
      BY <2>1, <2>2
    <2>4. IsFiniteSet((({"input_token"} \cup {"output_token"}) \cup {"cache_read_token"})
                      \cup {"cache_write_token"})
      BY <2>1, <2>3
    <2>5. IsFiniteSet(((({"input_token"} \cup {"output_token"}) \cup {"cache_read_token"})
                       \cup {"cache_write_token"}) \cup {"extra_context_token"})
      BY <2>1, <2>4
    <2>6. {"input_token", "output_token", "cache_read_token", "cache_write_token",
           "extra_context_token"}
          = ((({"input_token"} \cup {"output_token"}) \cup {"cache_read_token"})
             \cup {"cache_write_token"}) \cup {"extra_context_token"}
      OBVIOUS
    <2> QED BY <2>5, <2>6
  <1> QED BY <1>1, <1>2, <1>3

LEMMA SubmitEditInv ==
  ASSUME PriceInv, NEW v, Price!SubmitEdit(v)
  PROVE  PriceInv'
  <1> DEFINE gone == Price!StaleRows(editing.rows, priceMode)
             calls1 == Price!EditCalls(editing, priceMode, v)
             deletions == [i \in 1..Len(Price!SetToSeq(gone)) |->
                             {Price!Deletion(Price!SetToSeq(gone)[i])}]
  <1>1. calls1 # <<>> /\ Price!Start("edit", gone, calls1)
    BY DEF Price!SubmitEdit
  <1>2. gone \in SUBSET editing.rows
    BY DEF Price!StaleRows
  <1> HIDE DEF gone
  <1>3. Known(gone) /\ IsFiniteSet(gone)
    BY <1>2, KnownIs DEF PriceInv, Known
  <1>4. PICK n, f : n \in Nat /\ calls1 = deletions \o [i \in 1..n |-> f[i]]
    <2> DEFINE todo == {u \in Price!ModeUnits[priceMode] :
                          Price!Upsert(editing, u, v[u]) # {}}
               units == Price!SetToSeq(todo)
    <2>1. calls1 = deletions \o [i \in 1..Len(units) |-> Price!Upsert(editing, units[i], v[units[i]])]
      BY DEF Price!EditCalls, gone
    <2>2. IsFiniteSet(todo)
      <3>1. IsFiniteSet(Price!ModeUnits[priceMode])
        BY UnitsFinite DEF PriceInv
      <3>2. todo \in SUBSET Price!ModeUnits[priceMode]
        OBVIOUS
      <3> HIDE DEF todo
      <3> QED BY <3>1, <3>2, FS_Subset
    <2>3. Len(units) \in Nat
      <3> HIDE DEF todo
      <3> QED BY <2>2, SeqOfSet
    <2> DEFINE f == [i \in 1..Len(units) |-> Price!Upsert(editing, units[i], v[units[i]])]
    <2>4. f = [i \in 1..Len(units) |-> f[i]]
      OBVIOUS
    <2>5. calls1 = deletions \o [i \in 1..Len(units) |-> f[i]]
      BY <2>1
    <2> HIDE DEF todo, units, f
    <2> QED BY <2>3, <2>5
  <1> DEFINE stale == Price!SetToSeq(gone)
             updates == [i \in 1..n |-> f[i]]
  <1>5. stale \in Seq(gone) /\ \A x \in gone : \E i \in 1..Len(stale) : stale[i] = x
    BY <1>3, SeqOfSet
  <1>6. Len(stale) \in Nat /\ deletions = [i \in 1..Len(stale) |-> {Price!Deletion(stale[i])}]
    BY <1>5
  <1> HIDE DEF stale, deletions
  <1> DEFINE S == {deletions[i] : i \in 1..Len(stale)} \cup {f[i] : i \in 1..n}
  <1>7. deletions \in Seq(S) /\ Len(deletions) = Len(stale)
    <2>1. ASSUME NEW i \in 1..Len(stale) PROVE deletions[i] \in S
      OBVIOUS
    <2> HIDE DEF S
    <2> QED BY <1>6, <2>1
  <1>8. updates \in Seq(S)
    <2>1. ASSUME NEW i \in 1..n PROVE f[i] \in S
      OBVIOUS
    <2> HIDE DEF S
    <2> QED BY <1>4, <2>1
  <1> HIDE DEF S, updates
  <1>9. calls1 = deletions \o updates
    BY <1>4 DEF updates
  <1> HIDE DEF calls1
  <1>10. /\ calls1 \in Seq(S) /\ Len(calls1) = Len(deletions) + Len(updates)
         /\ \A i \in 1..Len(deletions) : calls1[i] = deletions[i]
    <2>1. Len(deletions) \in Nat /\ Len(updates) \in Nat
      BY <1>7, <1>8, LenProperties
    <2>2. calls1 \in Seq(S) /\ Len(calls1) = Len(deletions) + Len(updates)
      BY <1>7, <1>8, <1>9, ConcatProperties
    <2>3. \A i \in 1..Len(deletions) + Len(updates) :
            calls1[i] = IF i <= Len(deletions) THEN deletions[i] ELSE updates[i - Len(deletions)]
      BY <1>7, <1>8, <1>9, ConcatProperties
    <2> QED BY <2>1, <2>2, <2>3
  <1>11. ASSUME NEW r \in gone
         PROVE  \E i \in 1..Len(calls1) : \E call \in calls1[i] :
                  call.op = "delete" /\ call.id = r.id
    <2>1. PICK i \in 1..Len(stale) : stale[i] = r
      BY <1>5
    <2>2. deletions[i] = {Price!Deletion(r)}
      BY <1>6, <2>1
    <2>3. i \in 1..Len(calls1) /\ calls1[i] = {Price!Deletion(r)}
      <3>1. Len(updates) \in Nat
        BY <1>8, LenProperties
      <3> QED BY <1>6, <1>7, <1>10, <2>1, <2>2, <3>1
    <2> QED BY <2>3, DeletionIs
  <1> QED BY <1>1, <1>3, <1>10, <1>11, StartInv

\* The other submissions consist of one stage.
LEMMA OneStageInv ==
  ASSUME PriceInv, NEW kind, NEW stale, NEW calls1, Known(stale), Price!Start(kind, stale, <<calls1>>),
         \A r \in stale : Price!Deletion(r) \in calls1
  PROVE  PriceInv'
  <1>1. <<calls1>> \in Seq({calls1}) /\ <<calls1>> # <<>> /\ Len(<<calls1>>) = 1
    OBVIOUS
  <1>2. ASSUME NEW r \in stale
        PROVE  \E i \in 1..Len(<<calls1>>) : \E call \in <<calls1>>[i] :
                 call.op = "delete" /\ call.id = r.id
    <2>1. 1 \in 1..Len(<<calls1>>) /\ <<calls1>>[1] = calls1
      OBVIOUS
    <2> QED BY <2>1, DeletionIs
  <1> QED BY <1>1, <1>2, StartInv

LEMMA SubmittingInv ==
  ASSUME PriceInv,
         \/ \E v \in PriceForms : Price!SubmitEdit(v) \/ \E m \in PriceModels : Price!SubmitNew(m, v)
         \/ \E g \in Price!GroupByModel(data) : Price!HandleDeleteModel(g)
  PROVE  PriceInv' /\ notice' = notice
  <1>1. ASSUME NEW v, Price!SubmitEdit(v) PROVE PriceInv' /\ notice' = notice
    BY <1>1, SubmitEditInv DEF Price!SubmitEdit
  <1>2. ASSUME NEW v, NEW m, Price!SubmitNew(m, v) PROVE PriceInv' /\ notice' = notice
    <2>1. Price!Start("create", {}, <<Price!CreateCalls(m, priceMode, v)>>) /\ notice' = notice
      BY <1>2 DEF Price!SubmitNew
    <2>2. Known({})
      BY FS_EmptySet DEF Known
    <2> QED BY <2>1, <2>2, OneStageInv
  <1>3. ASSUME NEW g \in Price!GroupByModel(data), Price!HandleDeleteModel(g)
        PROVE  PriceInv' /\ notice' = notice
    <2>1. Price!Start("deletion", g.rows, <<{Price!Deletion(r) : r \in g.rows}>>) /\ notice' = notice
      BY <1>3 DEF Price!HandleDeleteModel
    <2>2. g.rows \in SUBSET data
      BY DEF Price!GroupByModel
    <2>3. Known(g.rows)
      BY <2>2, KnownIs DEF PriceInv
    <2>4. \A r \in g.rows : Price!Deletion(r) \in {Price!Deletion(q) : q \in g.rows}
      OBVIOUS
    <2> QED BY <2>1, <2>3, <2>4, OneStageInv
  <1> QED BY <1>1, <1>2, <1>3

\* What an answered call does to the table.
LEMMA EffectIs ==
  ASSUME PriceInv, NEW call, Price!Feasible(call), Price!Effect(call)
  PROVE  /\ lastId' \in Nat /\ lastId <= lastId'
         /\ Known(priceTable)'
         /\ \A r : r.id \in Nat /\ r.id <= lastId /\ IsGone(r) => IsGone(r)'
         /\ call.op = "delete" => \A r : r.id = call.id => IsGone(r)'
  <1> DEFINE id == IF call.op = "create" THEN lastId + 1 ELSE call.id
             others == {r \in priceTable : r.id # id}
  <1>1. PICK row : /\ row.id = id
                   /\ priceTable' = IF call.op = "delete" THEN others ELSE others \cup {row}
                   /\ lastId' = IF call.op = "create" THEN lastId + 1 ELSE lastId
    <2> DEFINE row0 == [id |-> id, model |-> call.model, unit |-> call.unit, price |-> call.price]
    <2>1. /\ priceTable' = IF call.op = "delete" THEN {r \in priceTable : r.id # row0.id}
                           ELSE {r \in priceTable : r.id # row0.id} \cup {row0}
          /\ lastId' = IF call.op = "create" THEN lastId + 1 ELSE lastId
      BY DEF Price!Effect
    <2>2. row0.id = id
      OBVIOUS
    <2> HIDE DEF row0, id
    <2> QED BY <2>1, <2>2
  <1>2. lastId \in Nat /\ IsFiniteSet(priceTable) /\ \A r \in priceTable : r.id \in Nat /\ r.id <= lastId
    BY DEF PriceInv, Known
  <1>3. /\ id \in Nat /\ id <= lastId'
        /\ call.op # "create" => \E q \in priceTable : q.id = id
    BY <1>1, <1>2 DEF Price!Feasible
  <1>4. lastId' \in Nat /\ lastId <= lastId'
    BY <1>1, <1>2
  <1>5. IsFiniteSet(priceTable')
    <2>1. IsFiniteSet(others)
      <3>1. others \in SUBSET priceTable
        OBVIOUS
      <3> HIDE DEF others
      <3> QED BY <1>2, <3>1, FS_Subset
    <2>2. IsFiniteSet(others \cup {row})
      BY <2>1, FS_AddElement
    <2> QED BY <1>1, <2>1, <2>2
  <1>6. ASSUME NEW r \in priceTable' PROVE r.id \in Nat /\ r.id <= lastId'
    <2>1. r \in priceTable \/ r = row
      BY <1>1
    <2> HIDE DEF id, others
    <2> QED BY <1>1, <1>2, <1>3, <1>4, <2>1
  <1>7. ASSUME NEW r, r.id \in Nat, r.id <= lastId, IsGone(r) PROVE IsGone(r)'
    <2>1. r.id # id
      <3>1. CASE call.op = "create"
        BY <1>2, <1>7, <3>1
      <3>2. CASE call.op # "create"
        BY <1>3, <1>7, <3>2 DEF IsGone
      <3> QED BY <3>1, <3>2
    <2>2. \A q \in priceTable' : q.id # r.id
      BY <1>1, <1>7, <2>1 DEF IsGone
    <2> QED BY <2>2 DEF IsGone
  <1>8. ASSUME NEW r, call.op = "delete", r.id = call.id PROVE IsGone(r)'
    BY <1>1, <1>8 DEF IsGone
  <1> QED BY <1>4, <1>5, <1>6, <1>7, <1>8 DEF Known

\* The chains that do not go on in a step stay as good as they were.
LEMMA OthersStay ==
  ASSUME PriceInv, submitted' = submitted, lastId' \in Nat, lastId <= lastId',
         \A r : r.id \in Nat /\ r.id <= lastId /\ IsGone(r) => IsGone(r)',
         NEW chain \in chains
  PROVE  IsChain(chain)' /\ OnTrack(chain)'
  <1>1. IsChain(chain) /\ OnTrack(chain)
    BY DEF PriceInv
  <1>2. Known(chain.stale)'
    BY <1>1, KnownStays DEF OnTrack
  <1>3. ASSUME ~chain.failed, NEW r \in chain.stale PROVE Deletes(chain, r) \/ IsGone(r)'
    BY <1>1, <1>3 DEF OnTrack, Known
  <1> QED BY <1>1, <1>2, <1>3 DEF IsChain, OnTrack, Deletes

\* What a chain has left when one of its calls is answered.
LEMMA RestIs ==
  ASSUME NEW chain, IsChain(chain), NEW call \in Head(chain.stages)
  PROVE  LET rest == Price!Rest(chain, call)
         IN  /\ rest = [no |-> chain.no, kind |-> chain.kind, stale |-> chain.stale,
                        stages |-> rest.stages, failed |-> chain.failed]
             /\ \E S : rest.stages \in Seq(S)
             /\ \A r : Deletes(chain, r) =>
                         Deletes(rest, r) \/ (call.op = "delete" /\ call.id = r.id)
  <1> DEFINE st == chain.stages
             now == Head(st) \ {call}
             left == IF now = {} THEN Tail(st) ELSE <<now>> \o Tail(st)
             rest == Price!Rest(chain, call)
  <1>1. rest = [no |-> chain.no, kind |-> chain.kind, stale |-> chain.stale,
                stages |-> left, failed |-> chain.failed]
    <2>1. rest = [chain EXCEPT !.stages = left]
      BY DEF Price!Rest
    <2>2. chain = [no |-> chain.no, kind |-> chain.kind, stale |-> chain.stale,
                   stages |-> chain.stages, failed |-> chain.failed]
      BY DEF IsChain
    <2>3. PICK a, b, c, d, e : chain = [no |-> a, kind |-> b, stale |-> c, stages |-> d, failed |-> e]
      BY <2>2
    <2> HIDE DEF left, rest
    <2>4. [chain EXCEPT !.stages = left] = [no |-> a, kind |-> b, stale |-> c, stages |-> left, failed |-> e]
      BY <2>3
    <2>5. chain.no = a /\ chain.kind = b /\ chain.stale = c /\ chain.failed = e
      BY <2>3
    <2> QED BY <2>1, <2>4, <2>5
  <1>2. rest.stages = left
    <2> HIDE DEF left, rest
    <2> QED BY <1>1
  <1>3. PICK S : st \in Seq(S)
    BY DEF IsChain
  <1>4. st # <<>> /\ Len(st) \in Nat /\ Len(st) >= 1
    BY <1>3 DEF IsChain
  <1>5. /\ Tail(st) \in Seq(S) /\ Len(Tail(st)) = Len(st) - 1
        /\ \A i \in 1..Len(st) - 1 : Tail(st)[i] = st[i + 1]
        /\ Head(st) = st[1]
    BY <1>3, <1>4
  <1>6. <<now>> \in Seq(S \cup {now}) /\ Tail(st) \in Seq(S \cup {now})
    <2>1. Tail(st) \in Seq(S \cup {now})
      <3> HIDE DEF now, st
      <3> QED BY <1>5, SeqMonotonic
    <2> QED BY <2>1
  <1>7. <<now>> \o Tail(st) \in Seq(S \cup {now})
    <2> HIDE DEF now, st
    <2> QED BY <1>6, ConcatProperties
  <1>8. \E T : left \in Seq(T)
    BY <1>5, <1>7
  <1>9. ASSUME NEW r, Deletes(chain, r), ~(call.op = "delete" /\ call.id = r.id)
        PROVE  Deletes(rest, r)
    <2>1. PICK i \in 1..Len(st) : \E c \in st[i] : c.op = "delete" /\ c.id = r.id
      BY <1>9 DEF Deletes
    <2>2. PICK c \in st[i] : c.op = "delete" /\ c.id = r.id /\ c # call
      BY <2>1, <1>9
    <2>3. \E j \in 1..Len(left) : c \in left[j]
      <3>0. ASSUME now # {}
            PROVE  /\ Len(left) = Len(st)
                   /\ left[1] = now
                   /\ \A j \in 2..Len(st) : left[j] = st[j]
        <4>1. left = <<now>> \o Tail(st)
          BY <3>0
        <4> HIDE DEF now, st, left
        <4>2. Len(<<now>>) = 1 /\ <<now>>[1] = now
          OBVIOUS
        <4>3. /\ Len(left) = Len(<<now>>) + Len(Tail(st))
              /\ \A j \in 1..Len(<<now>>) + Len(Tail(st)) :
                   left[j] = IF j <= Len(<<now>>) THEN <<now>>[j] ELSE Tail(st)[j - Len(<<now>>)]
          BY <1>6, <4>1, ConcatProperties
        <4>4. Len(Tail(st)) = Len(st) - 1
          BY <1>5
        <4>5. \A j \in 1..Len(st) : left[j] = IF j <= 1 THEN now ELSE Tail(st)[j - 1]
          <5> HIDE DEF left
          <5> QED BY <4>2, <4>3, <4>4, <1>4
        <4>6. ASSUME NEW j \in 2..Len(st) PROVE left[j] = st[j]
          <5>1. j - 1 \in 1..Len(st) - 1 /\ j \in 1..Len(st) /\ ~(j <= 1) /\ (j - 1) + 1 = j
            BY <4>6, <1>4
          <5>2. Tail(st)[j - 1] = st[(j - 1) + 1]
            BY <5>1, <1>5
          <5> QED BY <5>1, <5>2, <4>5
        <4> QED BY <4>2, <4>3, <4>4, <4>5, <4>6, <1>4
      <3>1. CASE i = 1
        <4>1. c \in now
          BY <3>1, <2>2, <1>5
        <4> HIDE DEF now, st, left
        <4> QED BY <4>1, <3>0, <1>4
      <3>2. CASE i # 1 /\ now = {}
        <4>1. left = Tail(st)
          BY <3>2
        <4> HIDE DEF now, st, left
        <4>2. i - 1 \in 1..Len(st) - 1 /\ (i - 1) + 1 = i
          BY <3>2, <1>4
        <4>3. Tail(st)[i - 1] = st[i]
          BY <4>2, <1>5
        <4> QED BY <4>1, <4>2, <4>3, <1>5, <2>2
      <3>3. CASE i # 1 /\ now # {}
        <4> HIDE DEF now, st, left
        <4>1. i \in 2..Len(st)
          BY <3>3, <1>4
        <4> QED BY <4>1, <3>0, <3>3, <1>4, <2>2
      <3> QED BY <3>1, <3>2, <3>3
    <2> HIDE DEF left
    <2> QED BY <2>2, <2>3, <1>2 DEF Deletes
  <1> HIDE DEF left
  <1> QED BY <1>1, <1>2, <1>8, <1>9

\* One chain is put in the place of another one of its number, or it is gone.
LEMMA ReplacedInv ==
  ASSUME PriceInv, NEW chain \in chains, NEW rest, rest.no = chain.no,
         chains' \subseteq (chains \ {chain}) \cup {rest},
         rest \in chains' => IsChain(rest)' /\ OnTrack(rest)',
         UNCHANGED <<data, editing, priceMode, submitted>>,
         lastId' \in Nat, lastId <= lastId', Known(priceTable)',
         \A r : r.id \in Nat /\ r.id <= lastId /\ IsGone(r) => IsGone(r)',
         priceLoads' \subseteq priceLoads \cup {Price!NotRead}
  PROVE  PriceInv'
  <1>1. Known(data)' /\ Known(editing.rows)'
    BY KnownStays DEF PriceInv, Known
  <1>2. ASSUME NEW l \in priceLoads' PROVE Known(l)'
    <2>1. CASE l \in priceLoads
      BY <2>1, KnownStays DEF PriceInv
    <2>2. CASE l = Price!NotRead
      <3>1. IsFiniteSet({[id |-> 0]})
        BY FS_Singleton
      <3>2. \A r \in {[id |-> 0]} : r.id = 0
        OBVIOUS
      <3> QED BY <2>2, <3>1, <3>2 DEF Known, Price!NotRead
    <2> QED BY <2>1, <2>2
  <1>3. ASSUME NEW c \in chains' PROVE IsChain(c)' /\ OnTrack(c)'
    <2>1. CASE c = rest
      BY <2>1
    <2>2. CASE c \in chains
      BY <2>2, OthersStay
    <2> QED BY <2>1, <2>2
  <1>4. ASSUME NEW a \in chains', NEW b \in chains', a.no = b.no PROVE a = b
    <2>1. \A c, d \in chains : c.no = d.no => c = d
      BY DEF PriceInv
    <2> QED BY <1>4, <2>1
  <1> QED BY <1>1, <1>2, <1>3, <1>4 DEF PriceInv

LEMMA ReportedIs ==
  ASSUME NEW no, NEW result, Price!Reported(no, result)
  PROVE  notice'.no = no /\ notice'.result = result
  BY DEF Price!Reported

\* An answered call: the chain still has a call for every row that is left to delete, so
\* that the last answer is that of the last row.
LEMMA AnsweredInv ==
  ASSUME PriceInv, NEW chain \in chains, NEW call \in Head(chain.stages),
         Price!Answered(chain, call)
  PROVE  PriceInv' /\ ReportsTruly
  <1> DEFINE rest == Price!Rest(chain, call)
             ends == rest.stages = <<>>
  <1>1. /\ Price!Feasible(call) /\ Price!Effect(call)
        /\ chains' = (chains \ {chain}) \cup (IF ends THEN {} ELSE {rest})
        /\ IF ends /\ ~chain.failed
           THEN Price!Reported(chain.no, "done") /\ priceLoads' = priceLoads \cup {Price!NotRead}
           ELSE UNCHANGED <<notice, priceLoads>>
        /\ UNCHANGED <<data, editing, priceMode, submitted>>
    BY DEF Price!Answered
  <1>2. IsChain(chain) /\ OnTrack(chain)
    BY DEF PriceInv
  <1>3. /\ rest = [no |-> chain.no, kind |-> chain.kind, stale |-> chain.stale,
                   stages |-> rest.stages, failed |-> chain.failed]
        /\ \E S : rest.stages \in Seq(S)
        /\ \A r : Deletes(chain, r) => Deletes(rest, r) \/ (call.op = "delete" /\ call.id = r.id)
    BY <1>2, RestIs
  <1> HIDE DEF rest
  <1>4. rest.no = chain.no /\ rest.kind = chain.kind /\ rest.stale = chain.stale
        /\ rest.failed = chain.failed
    BY <1>3
  <1>5. /\ lastId' \in Nat /\ lastId <= lastId'
        /\ Known(priceTable)'
        /\ \A r : r.id \in Nat /\ r.id <= lastId /\ IsGone(r) => IsGone(r)'
        /\ call.op = "delete" => \A r : r.id = call.id => IsGone(r)'
    BY <1>1, EffectIs
  <1>6. ASSUME NEW r \in chain.stale, ~chain.failed PROVE Deletes(rest, r) \/ IsGone(r)'
    <2>1. r.id \in Nat /\ r.id <= lastId
      BY <1>2 DEF OnTrack, Known
    <2>2. Deletes(chain, r) \/ IsGone(r)
      BY <1>2, <1>6 DEF OnTrack
    <2>3. CASE IsGone(r)
      BY <1>5, <2>1, <2>3
    <2>4. CASE Deletes(chain, r)
      BY <1>3, <1>5, <2>4
    <2> QED BY <2>2, <2>3, <2>4
  <1>7. ASSUME rest \in chains' PROVE IsChain(rest)' /\ OnTrack(rest)'
    <2>1. rest.stages # <<>>
      <3>1. CASE ends
        <4>1. rest \in chains /\ rest # chain
          BY <1>1, <1>7, <3>1
        <4> QED BY <4>1, <1>4 DEF PriceInv
      <3> QED BY <3>1
    <2>2. IsChain(rest)'
      BY <1>1, <1>2, <1>3, <1>4, <2>1 DEF IsChain
    <2>3. Known(rest.stale)'
      BY <1>2, <1>4, <1>5, KnownStays DEF OnTrack
    <2>4. ~rest.failed => \A r \in rest.stale : Deletes(rest, r) \/ IsGone(r)'
      BY <1>4, <1>6
    <2> QED BY <2>2, <2>3, <2>4 DEF OnTrack, Deletes
  <1>8. PriceInv'
    <2>1. chains' \subseteq (chains \ {chain}) \cup {rest}
      BY <1>1
    <2>2. priceLoads' \subseteq priceLoads \cup {Price!NotRead}
      BY <1>1
    <2> QED BY <1>1, <1>4, <1>5, <1>7, <2>1, <2>2, ReplacedInv
  <1>9. ASSUME notice' # notice, NEW c \in chains, c.no = notice'.no,
               NEW gone \in c.stale, NEW q \in priceTable'
        PROVE  q.id # gone.id
    <2>1. ends /\ ~chain.failed /\ notice'.no = chain.no
      BY <1>1, <1>9, ReportedIs
    <2>2. c = chain
      BY <1>9, <2>1 DEF PriceInv
    <2>3. ~Deletes(rest, gone)
      <3>1. Len(rest.stages) = 0
        BY <2>1
      <3> QED BY <3>1 DEF Deletes
    <2>4. IsGone(gone)'
      BY <1>6, <1>9, <2>1, <2>2, <2>3
    <2> QED BY <1>9, <2>4 DEF IsGone
  <1> QED BY <1>8, <1>9 DEF ReportsTruly

\* A call that failed, or whose answer is lost: its chain deletes nothing more.
LEMMA RefusedInv ==
  ASSUME PriceInv, NEW chain \in chains, NEW call \in Head(chain.stages),
         Price!Refused(chain, call)
  PROVE  PriceInv' /\ ReportsTruly
  <1> DEFINE unanswered == Head(chain.stages) \ {call}
  <1>1. IsChain(chain) /\ OnTrack(chain)
    BY DEF PriceInv
  <1>2. PICK rest : rest = [no |-> chain.no, kind |-> chain.kind, stale |-> chain.stale,
                            stages |-> <<unanswered>>, failed |-> TRUE]
    OBVIOUS
  <1>3. [chain EXCEPT !.stages = <<unanswered>>, !.failed = TRUE] = rest
    <2>1. PICK a, b, c, d, e : chain = [no |-> a, kind |-> b, stale |-> c, stages |-> d, failed |-> e]
      BY <1>1 DEF IsChain
    <2> DEFINE x == <<unanswered>>
               half == [chain EXCEPT !.stages = x]
    <2>2. half = [no |-> a, kind |-> b, stale |-> c, stages |-> x, failed |-> e]
      <3> HIDE DEF x
      <3> QED BY <2>1
    <2>3. chain.no = a /\ chain.kind = b /\ chain.stale = c
      BY <2>1
    <2>4. [chain EXCEPT !.stages = x, !.failed = TRUE] = [half EXCEPT !.failed = TRUE]
      <3> HIDE DEF x
      <3> QED OBVIOUS
    <2>5. \A y \in BOOLEAN : [half EXCEPT !.failed = y]
                             = [no |-> a, kind |-> b, stale |-> c, stages |-> x, failed |-> y]
      <3> HIDE DEF x, half
      <3> QED BY <2>2
    <2>6. [half EXCEPT !.failed = TRUE]
          = [no |-> a, kind |-> b, stale |-> c, stages |-> x, failed |-> TRUE]
      <3> HIDE DEF x, half
      <3> QED BY <2>5, Zenon
    <2> HIDE DEF x, half, unanswered
    <2>7. rest = [no |-> a, kind |-> b, stale |-> c, stages |-> x, failed |-> TRUE]
      BY <1>2, <2>3 DEF x
    <2> QED BY <2>4, <2>6, <2>7 DEF x
  <1>4. /\ (UNCHANGED <<priceTable, lastId>>) \/ (Price!Feasible(call) /\ Price!Effect(call))
        /\ chains' = (chains \ {chain}) \cup (IF unanswered = {} THEN {} ELSE {rest})
        /\ IF chain.failed THEN UNCHANGED notice ELSE Price!Reported(chain.no, "failed")
        /\ UNCHANGED <<data, priceLoads, editing, priceMode, submitted>>
    BY <1>3 DEF Price!Refused
  <1>5. /\ lastId' \in Nat /\ lastId <= lastId'
        /\ Known(priceTable)'
        /\ \A r : r.id \in Nat /\ r.id <= lastId /\ IsGone(r) => IsGone(r)'
    <2>1. CASE UNCHANGED <<priceTable, lastId>>
      BY <2>1 DEF PriceInv, Known, IsGone
    <2>2. CASE Price!Feasible(call) /\ Price!Effect(call)
      BY <2>2, EffectIs
    <2> QED BY <1>4, <2>1, <2>2
  <1>6. /\ rest.no = chain.no /\ rest.stale = chain.stale /\ rest.stages = <<unanswered>>
        /\ rest.failed = TRUE
        /\ rest = [no |-> rest.no, kind |-> rest.kind, stale |-> rest.stale,
                   stages |-> rest.stages, failed |-> rest.failed]
    <2> HIDE DEF unanswered
    <2> QED BY <1>2
  <1>7. IsChain(rest)'
    <2>1. <<unanswered>> \in Seq({unanswered}) /\ <<unanswered>> # <<>>
      OBVIOUS
    <2> QED BY <1>1, <1>4, <1>6, <2>1 DEF IsChain
  <1>8. OnTrack(rest)'
    <2>1. Known(rest.stale)'
      BY <1>1, <1>5, <1>6, KnownStays DEF OnTrack
    <2> QED BY <1>6, <2>1 DEF OnTrack
  <1>9. PriceInv'
    <2>1. chains' \subseteq (chains \ {chain}) \cup {rest}
      BY <1>4
    <2>2. priceLoads' \subseteq priceLoads \cup {Price!NotRead}
      BY <1>4
    <2> QED BY <1>4, <1>5, <1>6, <1>7, <1>8, <2>1, <2>2, ReplacedInv
  <1>10. notice' = notice \/ notice'.result = "failed"
    BY <1>4, ReportedIs
  <1> QED BY <1>9, <1>10 DEF ReportsTruly

LEMMA PriceInvNext ==
  ASSUME PriceInv, Price!PriceNext \/ UNCHANGED priceVars
  PROVE  PriceInv' /\ ReportsTruly
  <1>1. CASE \/ \E l \in priceLoads : Price!LoadRead(l) \/ Price!LoadAnswered(l) \/ Price!LoadFailed(l)
             \/ \E g \in Price!GroupByModel(data) \cup {Price!NewModel} : Price!HandleOpen(g)
             \/ Price!CloseDialog
             \/ \E mode \in DOMAIN Price!ModeUnits : Price!SetMode(mode)
             \/ UNCHANGED priceVars
    BY <1>1, ReadingInv DEF ReportsTruly
  <1>2. CASE \/ \E v \in PriceForms : Price!SubmitEdit(v) \/ \E m \in PriceModels : Price!SubmitNew(m, v)
             \/ \E g \in Price!GroupByModel(data) : Price!HandleDeleteModel(g)
    BY <1>2, SubmittingInv DEF ReportsTruly
  <1>3. ASSUME NEW chain \in chains, NEW call \in Head(chain.stages),
               Price!Answered(chain, call) \/ Price!Refused(chain, call)
        PROVE  PriceInv' /\ ReportsTruly
    BY <1>3, AnsweredInv, RefusedInv
  <1> QED BY <1>1, <1>2, <1>3 DEF Price!PriceNext

\* "Updated" and "deleted" are only said when the rows that had to go are gone, for any
\* table, forms and number of submissions that run side by side (Prices/index.tsx 190-244).
THEOREM ConsoleDoneMeansGone == Spec => DoneMeansGone
  <1>1. Init => PriceInv
    BY PricesInvInit DEF Init
  <1>2. PriceInv /\ [Next]_consoleVars => PriceInv' /\ ReportsTruly
    <2> SUFFICES ASSUME PriceInv, [Next]_consoleVars PROVE PriceInv' /\ ReportsTruly
      OBVIOUS
    <2> QED BY PageMoves, PriceInvNext
  <1> QED BY <1>1, <1>2, PTL
          DEF Spec, DoneMeansGone, Price!DoneMeansGone, ReportsTruly, Price!priceVars, priceVars

-----------------------------------------------------------------------------
(* LogParsing. *)

\* What the reader has read of each beginning of a body, up to n lines.
Reading(body, n, g) ==
  g = [m \in 0..n |-> IF m = 0 THEN Parse!Start ELSE Parse!ReadLine(g[m - 1], body[m])]

LEMMA ReadingExists ==
  ASSUME NEW body, NEW n \in Nat
  PROVE  \E g : Reading(body, n, g)
  <1> DEFINE G == {m \in 0..n : \E g : Reading(body, m, g)}
  <1>1. 0 \in G
    <2> DEFINE g == [m \in 0..0 |-> Parse!Start]
    <2>1. Reading(body, 0, g)
      BY DEF Reading
    <2> HIDE DEF g
    <2> QED BY <2>1
  <1>2. ASSUME NEW m \in 0..n - 1, m \in G PROVE m + 1 \in G
    <2>1. PICK g : Reading(body, m, g)
      BY <1>2
    <2> DEFINE x == Parse!ReadLine(g[m], body[m + 1])
               h == [k \in 0..m + 1 |-> IF k = m + 1 THEN x ELSE g[k]]
    <2>2. ASSUME NEW k \in 0..m + 1
          PROVE  h[k] = IF k = 0 THEN Parse!Start ELSE Parse!ReadLine(h[k - 1], body[k])
      <3>1. CASE k = m + 1
        <4>1. k - 1 = m /\ m \in 0..m + 1 /\ m # m + 1 /\ k # 0
          BY <3>1
        <4> HIDE DEF x
        <4>2. h[k] = x /\ h[m] = g[m]
          BY <3>1, <4>1
        <4> HIDE DEF h
        <4> QED BY <3>1, <4>1, <4>2 DEF x
      <3>2. CASE k # m + 1
        <4>1. k \in 0..m /\ (k # 0 => k - 1 \in 0..m /\ k - 1 # m + 1)
          BY <3>2
        <4> HIDE DEF x
        <4>2. h[k] = g[k] /\ (k # 0 => h[k - 1] = g[k - 1])
          BY <3>2, <4>1
        <4>3. g[k] = IF k = 0 THEN Parse!Start ELSE Parse!ReadLine(g[k - 1], body[k])
          BY <2>1, <4>1 DEF Reading
        <4> HIDE DEF h
        <4> QED BY <4>2, <4>3
      <3> QED BY <3>1, <3>2
    <2>3. h = [k \in 0..m + 1 |-> h[k]]
      OBVIOUS
    <2>4. m + 1 \in 0..n
      OBVIOUS
    <2> HIDE DEF h
    <2>5. Reading(body, m + 1, h)
      BY <2>2, <2>3 DEF Reading
    <2> QED BY <2>4, <2>5
  <1> HIDE DEF G
  <1>3. n \in G
    BY <1>1, <1>2, Induction
  <1> QED BY <1>3 DEF G

\* Two bodies are read alike as far as their lines are the same.
LEMMA ReadingAgrees ==
  ASSUME NEW s, NEW t, NEW n \in Nat, NEW k \in Nat, n <= k,
         \A m \in 1..n : s[m] = t[m],
         NEW g, NEW h, Reading(s, n, g), Reading(t, k, h)
  PROVE  g[n] = h[n]
  <1> DEFINE G == {m \in 0..n : g[m] = h[m]}
  <1>1. 0 \in G
    BY DEF Reading
  <1>2. ASSUME NEW m \in 0..n - 1, m \in G PROVE m + 1 \in G
    <2>1. m + 1 \in 1..n /\ m + 1 \in 0..n /\ m + 1 \in 0..k /\ (m + 1) - 1 = m /\ m + 1 # 0
      OBVIOUS
    <2>2. g[m + 1] = Parse!ReadLine(g[m], s[m + 1]) /\ h[m + 1] = Parse!ReadLine(h[m], t[m + 1])
      BY <2>1 DEF Reading
    <2> QED BY <1>2, <2>1, <2>2
  <1> HIDE DEF G
  <1>3. n \in G
    BY <1>1, <1>2, Induction
  <1> QED BY <1>3 DEF G

LEMMA ReadLinesIs ==
  ASSUME NEW body, Len(body) \in Nat
  PROVE  \E g : Reading(body, Len(body), g) /\ Parse!ReadLines(body) = g[Len(body)]
  <1>1. \E g : Reading(body, Len(body), g)
    BY ReadingExists
  <1> QED BY <1>1 DEF Reading, Parse!ReadLines

\* One more line is read after the lines before it.
LEMMA ReadOneMore ==
  ASSUME NEW S, NEW body \in Seq(S), NEW e \in S
  PROVE  Parse!ReadLines(Append(body, e)) = Parse!ReadLine(Parse!ReadLines(body), e)
  <1> DEFINE longer == Append(body, e)
             n == Len(body)
  <1>1. /\ n \in Nat /\ Len(longer) = n + 1 /\ longer[n + 1] = e
        /\ \A m \in 1..n : body[m] = longer[m]
    BY AppendProperties
  <1>2. PICK g : Reading(body, n, g) /\ Parse!ReadLines(body) = g[n]
    BY <1>1, ReadLinesIs
  <1> HIDE DEF longer, n
  <1>3. PICK h : Reading(longer, n + 1, h) /\ Parse!ReadLines(longer) = h[n + 1]
    <2>1. Len(longer) \in Nat
      BY <1>1
    <2>2. PICK h : Reading(longer, Len(longer), h) /\ Parse!ReadLines(longer) = h[Len(longer)]
      BY <2>1, ReadLinesIs
    <2> QED BY <1>1, <2>2
  <1>4. g[n] = h[n]
    <2>1. n + 1 \in Nat /\ n <= n + 1
      BY <1>1
    <2> QED BY <1>1, <1>2, <1>3, <2>1, ReadingAgrees
  <1>5. h[n + 1] = Parse!ReadLine(h[n], longer[n + 1])
    <2>1. n + 1 \in 0..n + 1 /\ n + 1 # 0 /\ (n + 1) - 1 = n
      BY <1>1
    <2> QED BY <1>3, <2>1 DEF Reading
  <1> QED BY <1>1, <1>2, <1>3, <1>4, <1>5 DEF longer, n

LEMMA ReadNothing == Parse!ReadLines(<<>>) = Parse!Start
  <1>1. PICK g : Reading(<<>>, 0, g) /\ Parse!ReadLines(<<>>) = g[0]
    BY ReadLinesIs
  <1> QED BY <1>1 DEF Reading

\* The calls, or the blocks, of an answer.
IsMap(f) ==
  /\ f = [i \in DOMAIN f |-> f[i]]
  /\ \A i \in DOMAIN f : f[i] \in [name : {"search"}, args : Seq(Pieces)]

IsMessage(w) ==
  /\ w = [reasoning |-> w.reasoning, content |-> w.content, calls |-> w.calls,
          blocks |-> w.blocks, errors |-> w.errors, finish |-> w.finish]
  /\ w.reasoning \in Seq(Pieces) /\ w.content \in Seq(Pieces)
  /\ IsMap(w.calls) /\ IsMap(w.blocks)
  /\ DOMAIN w.blocks = {} => w.blocks = <<>>
  /\ w.finish \in Finishes \cup {Parse!NoFinish}

\* The reader after the lines of an answer.
ReaderOf(w) ==
  [reasoning |-> w.reasoning, content |-> w.content, calls |-> w.calls, blocks |-> w.blocks,
   errors |-> w.errors, finishes |-> IF w.finish = Parse!NoFinish THEN <<>> ELSE <<w.finish>>]

ParseInv ==
  /\ \E S : lines \in Seq(S)
  /\ Len(lines) <= MaxLines
  /\ IsMessage(whole)
  /\ Parse!ReadLines(lines) = ReaderOf(whole)

LEMMA ParseInvInit == Parse!ParseInit => ParseInv
  <1> SUFFICES ASSUME Parse!ParseInit PROVE ParseInv
    OBVIOUS
  <1>1. lines = <<>> /\ whole = Parse!NothingSaid
    BY DEF Parse!ParseInit
  <1>2. lines \in Seq({}) /\ Len(lines) <= MaxLines
    BY <1>1, MaxAssumption
  <1>3. IsMessage(whole)
    BY <1>1 DEF IsMessage, IsMap, Parse!NothingSaid
  <1>4. ReaderOf(whole) = Parse!Start
    BY <1>1 DEF ReaderOf, Parse!NothingSaid, Parse!Start
  <1> QED BY <1>1, <1>2, <1>3, <1>4, ReadNothing DEF ParseInv

\* A step writes a line that the reader understands as the upstream meant it.
LEMMA WritesInv ==
  ASSUME ParseInv, NEW e, Parse!Write(e), IsMessage(whole'),
         Parse!ReadLine(ReaderOf(whole), e) = ReaderOf(whole')
  PROVE  ParseInv'
  <1>1. PICK S : lines \in Seq(S)
    BY DEF ParseInv
  <1>2. lines' = Append(lines, e) /\ Len(lines) < MaxLines
    BY DEF Parse!Write
  <1>3. lines \in Seq(S \cup {e}) /\ e \in S \cup {e}
    BY <1>1
  <1>4. lines' \in Seq(S \cup {e}) /\ Len(lines') <= MaxLines
    BY <1>2, <1>3, MaxAssumption
  <1>5. Parse!ReadLines(lines') = ReaderOf(whole')
    BY <1>2, <1>3, ReadOneMore DEF ParseInv
  <1> QED BY <1>4, <1>5 DEF ParseInv

LEMMA PieceAppended ==
  ASSUME NEW s \in Seq(Pieces), NEW p \in Pieces
  PROVE  s \o <<p>> = Append(s, p) /\ Append(s, p) \in Seq(Pieces)
  OBVIOUS

LEMMA TextInv ==
  ASSUME ParseInv, NEW p \in Pieces,
         Parse!SayReasoning(p) \/ Parse!SayContent(p) \/ Parse!SayError(p)
  PROVE  ParseInv'
  <1>0. IsMessage(whole)
    BY DEF ParseInv
  <1>1. CASE Parse!SayReasoning(p)
    <2> DEFINE e == [is |-> "reasoning", text |-> <<p>>]
    <2>1. Parse!Write(e) /\ whole' = [whole EXCEPT !.reasoning = Append(@, p)]
      BY <1>1 DEF Parse!SayReasoning
    <2>2. whole.reasoning \o e.text = Append(whole.reasoning, p)
          /\ Append(whole.reasoning, p) \in Seq(Pieces)
      BY <1>0, PieceAppended DEF IsMessage
    <2>3. Parse!ReadLine(ReaderOf(whole), e) = ReaderOf(whole')
      BY <1>0, <2>1, <2>2 DEF Parse!ReadLine, ReaderOf, IsMessage
    <2>4. IsMessage(whole')
      BY <1>0, <2>1, <2>2 DEF IsMessage
    <2> QED BY <2>1, <2>3, <2>4, WritesInv
  <1>2. CASE Parse!SayContent(p)
    <2> DEFINE e == [is |-> "content", text |-> <<p>>]
    <2>1. Parse!Write(e) /\ whole' = [whole EXCEPT !.content = Append(@, p)]
      BY <1>2 DEF Parse!SayContent
    <2>2. whole.content \o e.text = Append(whole.content, p)
          /\ Append(whole.content, p) \in Seq(Pieces)
      BY <1>0, PieceAppended DEF IsMessage
    <2>3. Parse!ReadLine(ReaderOf(whole), e) = ReaderOf(whole')
      BY <1>0, <2>1, <2>2 DEF Parse!ReadLine, Parse!DeltaText, ReaderOf, IsMessage
    <2>4. IsMessage(whole')
      BY <1>0, <2>1, <2>2 DEF IsMessage
    <2> QED BY <2>1, <2>3, <2>4, WritesInv
  <1>3. CASE Parse!SayError(p)
    <2> DEFINE e == [is |-> "error", text |-> <<p>>]
    <2>1. Parse!Write(e) /\ whole' = [whole EXCEPT !.errors = <<<<p>>>>] /\ whole.errors = <<>>
      BY <1>3 DEF Parse!SayError, Parse!Going
    <2>2. Append(whole.errors, e.text) = <<<<p>>>>
      BY <2>1
    <2>3. Parse!ReadLine(ReaderOf(whole), e) = ReaderOf(whole')
      BY <1>0, <2>1, <2>2 DEF Parse!ReadLine, ReaderOf, IsMessage
    <2>4. IsMessage(whole')
      BY <1>0, <2>1, <2>2 DEF IsMessage
    <2> QED BY <2>1, <2>3, <2>4, WritesInv
  <1> QED BY <1>1, <1>2, <1>3

\* Fragments of a call are put together by its index.
LEMMA CallInv ==
  ASSUME ParseInv, NEW i, NEW p \in Pieces, Parse!SayCall(i, p)
  PROVE  ParseInv'
  <1> DEFINE new == i \notin DOMAIN whole.calls
             e == [is |-> "call", index |-> i, name |-> IF new THEN "search" ELSE "", args |-> <<p>>]
             calls1 == [j \in DOMAIN whole.calls \cup {i} |->
                          IF j # i THEN whole.calls[j]
                          ELSE [name |-> "search",
                                args |-> IF new THEN <<p>> ELSE Append(whole.calls[i].args, p)]]
  <1>0. IsMessage(whole)
    BY DEF ParseInv
  <1>1. Parse!Write(e) /\ whole' = [whole EXCEPT !.calls = calls1]
    BY DEF Parse!SayCall
  <1>2. ~new => whole.calls[i] \in [name : {"search"}, args : Seq(Pieces)]
    BY <1>0 DEF IsMessage, IsMap
  <1>3. <<>> \o <<p>> = <<p>> /\ <<p>> \in Seq(Pieces)
    OBVIOUS
  <1>4. ~new => /\ whole.calls[i].name = "search"
                /\ whole.calls[i].args \o <<p>> = Append(whole.calls[i].args, p)
                /\ Append(whole.calls[i].args, p) \in Seq(Pieces)
    BY <1>2, PieceAppended
  <1>5. Parse!AppendToolCall(whole.calls, e) = calls1
    BY <1>3, <1>4 DEF Parse!AppendToolCall, Parse!NoCall
  <1>6. IsMap(calls1)
    <2>1. ASSUME NEW j \in DOMAIN calls1
          PROVE  calls1[j] \in [name : {"search"}, args : Seq(Pieces)]
      BY <1>0, <1>3, <1>4 DEF IsMessage, IsMap
    <2>2. calls1 = [j \in DOMAIN calls1 |-> calls1[j]]
      OBVIOUS
    <2> HIDE DEF calls1
    <2> QED BY <2>1, <2>2 DEF IsMap
  <1>7. Parse!ReadLine(ReaderOf(whole), e) = ReaderOf(whole')
    <2>1. e.is = "call"
      OBVIOUS
    <2> HIDE DEF e, calls1
    <2> QED BY <1>0, <1>1, <1>5, <2>1 DEF Parse!ReadLine, ReaderOf, IsMessage
  <1>8. IsMessage(whole')
    <2> HIDE DEF calls1
    <2> QED BY <1>0, <1>1, <1>6 DEF IsMessage
  <1> HIDE DEF e
  <1> QED BY <1>1, <1>7, <1>8, WritesInv

LEMMA BlockInv ==
  ASSUME ParseInv, NEW i, Parse!StartBlock(i) \/ \E p \in Pieces : Parse!FillBlock(i, p)
  PROVE  ParseInv'
  <1>0. IsMessage(whole)
    BY DEF ParseInv
  <1>1. CASE Parse!StartBlock(i)
    <2> DEFINE e == [is |-> "block start", index |-> i, name |-> "search"]
               new == [j \in DOMAIN whole.blocks \cup {i} |->
                         IF j = i THEN [name |-> "search", args |-> <<>>] ELSE whole.blocks[j]]
    <2>1. Parse!Write(e) /\ whole' = [whole EXCEPT !.blocks = new]
      BY <1>1 DEF Parse!StartBlock
    <2>2. IsMap(new) /\ DOMAIN new # {}
      <3>1. <<>> \in Seq(Pieces)
        OBVIOUS
      <3>2. ASSUME NEW j \in DOMAIN new
            PROVE  new[j] \in [name : {"search"}, args : Seq(Pieces)]
        BY <1>0, <3>1 DEF IsMessage, IsMap
      <3>3. new = [j \in DOMAIN new |-> new[j]] /\ DOMAIN new # {}
        OBVIOUS
      <3> HIDE DEF new
      <3> QED BY <3>2, <3>3 DEF IsMap
    <2>3. Parse!ReadLine(ReaderOf(whole), e) = ReaderOf(whole')
      BY <1>0, <2>1 DEF Parse!ReadLine, ReaderOf, IsMessage
    <2>4. IsMessage(whole')
      <3> HIDE DEF new
      <3> QED BY <1>0, <2>1, <2>2 DEF IsMessage
    <2> HIDE DEF e
    <2> QED BY <2>1, <2>3, <2>4, WritesInv
  <1>2. ASSUME NEW p \in Pieces, Parse!FillBlock(i, p) PROVE ParseInv'
    <2> DEFINE e == [is |-> "block json", index |-> i, args |-> <<p>>]
               old == whole.blocks
               new == [old EXCEPT ![i].args = Append(@, p)]
    <2>1. Parse!Write(e) /\ whole' = [whole EXCEPT !.blocks = new] /\ i \in DOMAIN old
      BY <1>2 DEF Parse!FillBlock
    <2>2. /\ old[i] \in [name : {"search"}, args : Seq(Pieces)]
          /\ old[i].args \o <<p>> = Append(old[i].args, p)
          /\ Append(old[i].args, p) \in Seq(Pieces)
      BY <1>0, <2>1, PieceAppended DEF IsMessage, IsMap
    <2>3. IsMap(new) /\ DOMAIN new # {}
      <3>1. ASSUME NEW j \in DOMAIN new
            PROVE  new[j] \in [name : {"search"}, args : Seq(Pieces)]
        BY <1>0, <2>1, <2>2 DEF IsMessage, IsMap
      <3>2. new = [j \in DOMAIN new |-> new[j]] /\ DOMAIN new # {}
        BY <2>1
      <3> HIDE DEF new
      <3> QED BY <3>1, <3>2 DEF IsMap
    <2>4. Parse!ReadLine(ReaderOf(whole), e) = ReaderOf(whole')
      <3>1. [old EXCEPT ![i].args = @ \o <<p>>] = new
        BY <2>2
      <3>2. e.is = "block json" /\ e.index = i /\ e.args = <<p>>
        OBVIOUS
      <3> HIDE DEF e, new
      <3>3. Parse!ReadLine(ReaderOf(whole), e) = [ReaderOf(whole) EXCEPT !.blocks = new]
        BY <2>1, <3>1, <3>2 DEF Parse!ReadLine, ReaderOf
      <3> QED BY <1>0, <2>1, <3>3 DEF ReaderOf, IsMessage
    <2>5. IsMessage(whole')
      <3> HIDE DEF new
      <3> QED BY <1>0, <2>1, <2>3 DEF IsMessage
    <2> HIDE DEF e
    <2> QED BY <2>1, <2>4, <2>5, WritesInv
  <1> QED BY <1>1, <1>2

LEMMA FinishedInv ==
  ASSUME ParseInv, NEW f \in Finishes, Parse!SayFinish(f)
  PROVE  ParseInv'
  <1> DEFINE e == [is |-> "finish", reason |-> f]
  <1>0. IsMessage(whole) /\ f # Parse!NoFinish
    BY FinishAssumption DEF ParseInv, Parse!NoFinish
  <1>1. Parse!Write(e) /\ whole' = [whole EXCEPT !.finish = f] /\ whole.finish = Parse!NoFinish
    BY DEF Parse!SayFinish, Parse!Going
  <1>2. Parse!ReadLine(ReaderOf(whole), e) = ReaderOf(whole')
    BY <1>0, <1>1 DEF Parse!ReadLine, ReaderOf, IsMessage
  <1>3. IsMessage(whole')
    BY <1>0, <1>1 DEF IsMessage
  <1> QED BY <1>1, <1>2, <1>3, WritesInv

LEMMA ParseInvNext == ParseInv /\ (Parse!ParseNext \/ UNCHANGED parseVars) => ParseInv'
  <1> SUFFICES ASSUME ParseInv, Parse!ParseNext \/ UNCHANGED parseVars PROVE ParseInv'
    OBVIOUS
  <1>1. CASE UNCHANGED parseVars
    BY <1>1 DEF parseVars, ParseInv
  <1> QED BY <1>1, TextInv, CallInv, BlockInv, FinishedInv DEF Parse!ParseNext

LEMMA ParseOK == ParseInv => Parse!StreamReadsLikeMessage /\ Parse!ParseTypeOK
  <1> SUFFICES ASSUME ParseInv PROVE Parse!StreamReadsLikeMessage /\ Parse!ParseTypeOK
    OBVIOUS
  <1> DEFINE s == ReaderOf(whole)
  <1>0. Parse!ReadLines(lines) = s /\ IsMessage(whole)
    BY DEF ParseInv
  <1>1. Parse!FinishReason(s.finishes) = whole.finish
    <2>1. CASE whole.finish = Parse!NoFinish
      <3>1. s.finishes = <<>>
        BY <2>1 DEF ReaderOf
      <3>2. Parse!ToSet(<<>>) = {}
        BY DEF Parse!ToSet
      <3> QED BY <2>1, <3>1, <3>2 DEF Parse!FinishReason
    <2>2. CASE whole.finish # Parse!NoFinish
      <3>1. s.finishes = <<whole.finish>>
        BY <2>2 DEF ReaderOf
      <3>2. Parse!Last(<<whole.finish>>) = whole.finish
        BY DEF Parse!Last
      <3>3. Parse!ToSet(<<whole.finish>>) = {whole.finish}
        BY DEF Parse!ToSet
      <3>4. <<whole.finish>> # <<>>
        OBVIOUS
      <3> QED BY <3>1, <3>2, <3>3, <3>4 DEF Parse!FinishReason
    <2> QED BY <2>1, <2>2
  <1>2. /\ s.content = whole.content /\ s.calls = whole.calls /\ s.blocks = whole.blocks
        /\ s.errors = whole.errors /\ s.reasoning = whole.reasoning
    BY DEF ReaderOf
  <1> HIDE DEF s
  <1>3. /\ Parse!ParseStream(lines).content = whole.content
        /\ Parse!ParseStream(lines).calls = whole.calls
        /\ Parse!ParseStream(lines).blocks = whole.blocks
        /\ Parse!ParseStream(lines).errors = whole.errors
    BY <1>0, <1>1, <1>2 DEF Parse!ParseStream
  <1>4. ASSUME DOMAIN whole.blocks = {}, whole.errors = <<>>
        PROVE  Parse!ParseStream(lines) = Parse!ParseMessage(whole)
    <2>1. whole.blocks = <<>>
      BY <1>0, <1>4 DEF IsMessage
    <2> QED BY <1>0, <1>1, <1>2, <1>4, <2>1 DEF Parse!ParseStream, Parse!ParseMessage
  <1>5. Parse!ParseTypeOK
    BY <1>0 DEF ParseInv, IsMessage, Parse!ParseTypeOK
  <1> QED BY <1>3, <1>4, <1>5 DEF Parse!StreamReadsLikeMessage

\* However a stream was cut into lines and its calls interleaved, the log page reads it
\* as it reads the same answer in one piece (parseResponseParts, 139-260), for any lines.
THEOREM ConsoleStreamReadsLikeMessage == Spec => []StreamReadsLikeMessage
  <1>1. Init => ParseInv
    BY ParseInvInit DEF Init
  <1>2. ParseInv /\ [Next]_consoleVars => ParseInv'
    BY PageMoves, ParseInvNext
  <1>3. ParseInv => StreamReadsLikeMessage
    BY ParseOK DEF StreamReadsLikeMessage
  <1> QED BY <1>1, <1>2, <1>3, PTL DEF Spec

-----------------------------------------------------------------------------
(* Types: the session. *)

LEMMA SessionTypeInit == SessionInit => SessionTypeOK
  <1> SUFFICES ASSUME SessionInit PROVE SessionTypeOK
    OBVIOUS
  <1>1. 0 \in 0..MaxSignIns /\ 0 \in 0..MaxVisits
    BY MaxAssumption
  <1>2. SignedOut \in Identities /\ "/login" \in Paths
    BY <1>1 DEF SignedOut, Identities, Paths, Public
  <1> QED BY <1>1, <1>2 DEF SessionInit, SessionTypeOK

\* The next token is the one above the tokens so far.
LEMMA NextToken ==
  ASSUME issued \subseteq Identities, \A i \in issued : i.token < MaxSignIns
  PROVE  \E k \in 1..MaxSignIns :
           \A i \in issued : i.token < k /\ (k = 1 \/ \E j \in issued : j.token = k - 1)
  <1> DEFINE Tokens == {i.token : i \in issued}
  <1>0. MaxSignIns \in Nat \ {0}
    BY MaxAssumption
  <1>1. \A i \in issued : i.token \in 0..MaxSignIns /\ i.token \in Tokens
    BY DEF Identities
  <1>2. CASE issued = {}
    BY <1>0, <1>2
  <1>3. CASE issued # {}
    <2>1. IsFiniteSet(Tokens) /\ Tokens \subseteq Nat /\ Tokens # {}
      <3>1. Tokens \subseteq 0..MaxSignIns /\ Tokens # {}
        BY <1>1, <1>3
      <3>2. IsFiniteSet(0..MaxSignIns) /\ 0..MaxSignIns \subseteq Nat
        BY <1>0, FS_Interval
      <3> QED BY <3>1, <3>2, FS_Subset
    <2> DEFINE n == Price!Max(Tokens)
    <2> HIDE DEF Tokens, n
    <2>2. n \in Tokens /\ \A x \in Tokens : x <= n
      BY <2>1, LargestNumber DEF n
    <2>3. PICK j \in issued : j.token = n
      BY <2>2 DEF Tokens
    <2>4. n \in 0..MaxSignIns /\ n < MaxSignIns
      BY <1>1, <2>3
    <2>5. \A i \in issued : i.token < n + 1
      BY <1>0, <1>1, <2>2, <2>4
    <2> DEFINE k == n + 1
    <2>6. k \in 1..MaxSignIns /\ k - 1 = n /\ \A i \in issued : i.token < k
      BY <1>0, <2>4, <2>5
    <2> HIDE DEF k
    <2>7. \A i \in issued : i.token < k /\ (k = 1 \/ \E m \in issued : m.token = k - 1)
      BY <2>3, <2>6
    <2> QED BY <2>6, <2>7
  <1> QED BY <1>2, <1>3

LEMMA LoginTypes ==
  ASSUME SessionTypeOK, NEW t \in Tabs, NEW u \in DOMAIN RoleOf, LoginSucceeds(t, u)
  PROVE  SessionTypeOK'
  <1> DEFINE n == CHOOSE k \in 1..MaxSignIns :
                    \A i \in issued : i.token < k /\ (k = 1 \/ \E j \in issued : j.token = k - 1)
             id == [token |-> n, username |-> u, role |-> RoleOf[u]]
  <1>1. n \in 1..MaxSignIns
    <2>1. issued \subseteq Identities /\ \A i \in issued : i.token < MaxSignIns
      BY DEF SessionTypeOK, LoginSucceeds
    <2> QED BY <2>1, NextToken
  <1>2. /\ issued' = issued \cup {id} /\ live' = live \cup {n} /\ SetAuth(t, id) /\ Go(t, "/")
        /\ signing' = [signing EXCEPT ![t] = FALSE] /\ UNCHANGED <<asking, visits>>
    BY DEF LoginSucceeds
  <1> HIDE DEF n
  <1>3. id \in Identities
    <2>1. n \in 0..MaxSignIns /\ RoleOf[u] \in Roles
      BY <1>1, MaxAssumption, RolesAssumption
    <2> QED BY <2>1 DEF Identities
  <1> HIDE DEF id
  <1>4. storage' \in Identities /\ memory' \in [Tabs -> Identities]
    BY <1>2, <1>3 DEF SetAuth, SessionTypeOK
  <1>5. at' \in [Tabs -> Paths]
    BY <1>2 DEF Go, SessionTypeOK, Paths
  <1>6. signing' \in [Tabs -> BOOLEAN]
    BY <1>2 DEF SessionTypeOK
  <1> QED BY <1>1, <1>2, <1>3, <1>4, <1>5, <1>6 DEF SessionTypeOK

LEMMA LoadTypesOfTab ==
  ASSUME SessionTypeOK, NEW t \in Tabs, NEW p \in Paths, NEW i \in Identities, Load(t, p, i)
  PROVE  /\ memory' \in [Tabs -> Identities] /\ at' \in [Tabs -> Paths]
         /\ asking' \in [Tabs -> 0..MaxSignIns] /\ signing' \in [Tabs -> BOOLEAN]
  <1>1. 0 \in 0..MaxSignIns
    BY MaxAssumption
  <1>2. memory' \in [Tabs -> Identities] /\ at' \in [Tabs -> Paths]
    BY DEF Load, Go, SessionTypeOK
  <1>3. asking' \in [Tabs -> 0..MaxSignIns] /\ signing' \in [Tabs -> BOOLEAN]
    BY <1>1 DEF Load, SessionTypeOK
  <1> QED BY <1>2, <1>3

LEMMA SessionTypes ==
  ASSUME SessionTypeOK, SessionNext \/ UNCHANGED sessionVars
  PROVE  SessionTypeOK'
  <1>0. SignedOut \in Identities /\ 0 \in 0..MaxSignIns /\ {"/login", "/", "/apikeys"} \subseteq Paths
    <2>1. 0 \in 0..MaxSignIns
      BY MaxAssumption
    <2>2. "/apikeys" \in Private
      BY DEF Private, PageRoles
    <2> QED BY <2>1, <2>2 DEF SignedOut, Identities, Paths, Public
  <1>1. ASSUME NEW t \in Tabs, NEW p \in Paths, Visit(t, p) PROVE SessionTypeOK'
    <2>1. Load(t, p, storage) /\ storage \in Identities
      BY <1>1 DEF Visit, SessionTypeOK
    <2>2. visits' \in 0..MaxVisits
      BY <1>1, MaxAssumption DEF Visit, SessionTypeOK
    <2> QED BY <1>1, <2>1, <2>2, LoadTypesOfTab DEF Visit, SessionTypeOK
  <1>2. ASSUME NEW t \in Tabs, Answered401(t) PROVE SessionTypeOK'
    BY <1>0, <1>2, LoadTypesOfTab DEF Answered401, SessionTypeOK
  <1>3. ASSUME NEW t \in Tabs, NEW p \in Paths, Go(t, p) PROVE at' \in [Tabs -> Paths]
    BY <1>3 DEF Go, SessionTypeOK
  <1>4. ASSUME NEW t \in Tabs,
               \/ GuardRedirects(t) \/ LoginRedirects(t)
               \/ \E p \in Private : Navigate(t, p)
        PROVE  SessionTypeOK'
    <2>1. at' = at \/ \E p \in Paths : Go(t, p)
      BY <1>0, <1>4 DEF GuardRedirects, LoginRedirects, Navigate, Paths
    <2>2. UNCHANGED <<storage, memory, asking, signing, live, issued, visits>>
      BY <1>4 DEF GuardRedirects, LoginRedirects, Navigate
    <2>3. at' \in [Tabs -> Paths]
      BY <1>3, <2>1 DEF SessionTypeOK
    <2> QED BY <2>2, <2>3 DEF SessionTypeOK
  <1>5. ASSUME NEW t \in Tabs, AnsweredWell(t) \/ Ask(t) PROVE SessionTypeOK'
    <2>1. memory[t].token \in 0..MaxSignIns
      BY DEF SessionTypeOK, Identities
    <2>2. asking' \in [Tabs -> 0..MaxSignIns]
      BY <1>0, <1>5, <2>1 DEF AnsweredWell, Ask, SessionTypeOK
    <2> QED BY <1>5, <2>2 DEF AnsweredWell, Ask, SessionTypeOK
  <1>6. ASSUME NEW t \in Tabs, SubmitLogin(t) PROVE SessionTypeOK'
    BY <1>6 DEF SubmitLogin, SessionTypeOK
  <1>7. ASSUME NEW t \in Tabs, HandleLogout(t) PROVE SessionTypeOK'
    <2>1. at' \in [Tabs -> Paths]
      BY <1>0, <1>3, <1>7 DEF HandleLogout
    <2> QED BY <1>0, <1>7, <2>1 DEF HandleLogout, SessionTypeOK
  <1>8. ASSUME NEW n \in live, Expire(n) PROVE SessionTypeOK'
    BY <1>8 DEF Expire, SessionTypeOK
  <1>9. ASSUME UNCHANGED sessionVars PROVE SessionTypeOK'
    BY <1>9 DEF sessionVars, SessionTypeOK
  <1> QED BY <1>1, <1>2, <1>4, <1>5, <1>6, <1>7, <1>8, <1>9, LoginTypes DEF SessionNext, TabStep

-----------------------------------------------------------------------------
(* Types: OrdersTab, LogsPage and ChatPage. *)

LEMMA OrdersTypes ==
  ASSUME Ord!OrdersTypeOK, Ord!OrdersNext \/ UNCHANGED ordersVars
  PROVE  Ord!OrdersTypeOK'
  <1>0. 1 \in OrderPages /\ FirstFilter \in OrderFilters /\ MaxOrderFetches \in Nat \ {0}
    BY MaxAssumption, FirstPageAssumption
  <1> DEFINE Fetches == [no : 1..MaxOrderFetches, query : Ord!OrderQueries]
  <1>1. Ord!Query \in Ord!OrderQueries
    BY DEF Ord!OrdersTypeOK, Ord!Query, Ord!OrderQueries
  <1>2. ASSUME NEW rest, rest \subseteq fetches, NEW q \in Ord!OrderQueries,
               Ord!FetchWith(rest, q)
        PROVE  fetches' \subseteq Fetches /\ fetched' \in 1..MaxOrderFetches
    <2>0. fetched \in 1..MaxOrderFetches /\ fetches \subseteq Fetches
      BY DEF Ord!OrdersTypeOK
    <2>1. fetched' \in 1..MaxOrderFetches /\ fetches \subseteq Fetches
      BY <1>0, <1>2, <2>0 DEF Ord!FetchWith
    <2>2. [no |-> fetched', query |-> q] \in Fetches
      BY <1>2, <2>1
    <2> QED BY <1>2, <2>1, <2>2 DEF Ord!FetchWith
  <1>3. ASSUME NEW rest, rest \subseteq fetches, page' \in OrderPages, filter' \in OrderFilters,
               Ord!RefetchIfChanged(rest)
        PROVE  fetches' \subseteq Fetches /\ fetched' \in 1..MaxOrderFetches
    <2>1. Ord!Query' \in Ord!OrderQueries
      BY <1>3 DEF Ord!Query, Ord!OrderQueries
    <2>2. CASE Ord!FetchWith(rest, Ord!Query')
      BY <1>2, <1>3, <2>1, <2>2
    <2>3. CASE fetches' = rest /\ fetched' = fetched
      BY <1>3, <2>3 DEF Ord!OrdersTypeOK
    <2> QED BY <1>3, <2>2, <2>3 DEF Ord!RefetchIfChanged
  <1>4. ASSUME \/ \E p \in OrderPages : Ord!ChangePage(p)
               \/ \E f \in OrderFilters : Ord!ApplyFilter(f)
        PROVE  Ord!OrdersTypeOK'
    <2>1. page' \in OrderPages /\ filter' \in OrderFilters /\ Ord!RefetchIfChanged(fetches)
          /\ UNCHANGED <<rowsOf, failed, marks, paid, markResult>>
      BY <1>0, <1>4 DEF Ord!ChangePage, Ord!ApplyFilter, Ord!OrdersTypeOK
    <2> QED BY <1>3, <2>1 DEF Ord!OrdersTypeOK
  <1>5. ASSUME NEW c \in fetches, Ord!FetchAnswered(c) \/ Ord!FetchFailed(c)
        PROVE  Ord!OrdersTypeOK'
    <2>1. c.query \in Ord!OrderQueries /\ c.query.page \in OrderPages
      BY <1>5 DEF Ord!OrdersTypeOK, Ord!OrderQueries
    <2>2. CASE Ord!FetchAnswered(c)
      <3>1. page' \in OrderPages /\ filter' \in OrderFilters
            /\ Ord!RefetchIfChanged(fetches \ {c})
        BY <2>1, <2>2 DEF Ord!FetchAnswered, Ord!OrdersTypeOK
      <3>2. fetches' \subseteq Fetches /\ fetched' \in 1..MaxOrderFetches
        BY <1>3, <3>1
      <3> QED BY <2>1, <2>2, <3>1, <3>2 DEF Ord!FetchAnswered, Ord!OrdersTypeOK
    <2>3. CASE Ord!FetchFailed(c)
      BY <2>3 DEF Ord!FetchFailed, Ord!OrdersTypeOK
    <2> QED BY <1>5, <2>2, <2>3
  <1>6. ASSUME Ord!Refetch PROVE Ord!OrdersTypeOK'
    BY <1>1, <1>2, <1>6 DEF Ord!Refetch, Ord!OrdersTypeOK
  <1>7. ASSUME NEW o \in PaidOrders, Ord!HandleMarkPaid(o) PROVE Ord!OrdersTypeOK'
    <2>1. [order |-> o, query |-> Ord!Query, done |-> FALSE]
            \in [order : PaidOrders, query : Ord!OrderQueries, done : BOOLEAN]
      BY <1>1
    <2> QED BY <2>1, <1>7 DEF Ord!HandleMarkPaid, Ord!OrdersTypeOK
  <1>8. ASSUME NEW m \in marks, Ord!ServeMark(m) \/ Ord!MarkDone(m) \/ Ord!MarkFailed(m)
        PROVE  Ord!OrdersTypeOK'
    <2>1. m \in [order : PaidOrders, query : Ord!OrderQueries, done : BOOLEAN]
      BY <1>8 DEF Ord!OrdersTypeOK
    <2>2. CASE Ord!ServeMark(m)
      BY <2>1, <2>2 DEF Ord!ServeMark, Ord!OrdersTypeOK
    <2>3. CASE Ord!MarkDone(m)
      <3>1. fetches' \subseteq Fetches /\ fetched' \in 1..MaxOrderFetches
        BY <1>2, <2>1, <2>3 DEF Ord!MarkDone
      <3> QED BY <2>1, <2>3, <3>1 DEF Ord!MarkDone, Ord!OrdersTypeOK
    <2>4. CASE Ord!MarkFailed(m)
      BY <2>4 DEF Ord!MarkFailed, Ord!OrdersTypeOK
    <2> QED BY <1>8, <2>2, <2>3, <2>4
  <1>9. ASSUME Ord!CloseResult \/ UNCHANGED ordersVars PROVE Ord!OrdersTypeOK'
    <2>1. CASE Ord!CloseResult
      <3>1. markResult' \in [visible : BOOLEAN, order : PaidOrders \cup {""},
                              key : PaidOrders \cup {""}]
        BY <2>1 DEF Ord!CloseResult, Ord!OrdersTypeOK
      <3> QED BY <2>1, <3>1 DEF Ord!CloseResult, Ord!OrdersTypeOK
    <2>2. CASE UNCHANGED ordersVars
      BY <2>2 DEF ordersVars, Ord!OrdersTypeOK
    <2> QED BY <1>9, <2>1, <2>2
  <1> QED BY <1>4, <1>5, <1>6, <1>7, <1>8, <1>9 DEF Ord!OrdersNext

LEMMA OrdersTypeInit == Ord!OrdersInit => Ord!OrdersTypeOK
  <1> SUFFICES ASSUME Ord!OrdersInit PROVE Ord!OrdersTypeOK
    OBVIOUS
  <1>1. 1 \in 1..MaxOrderFetches
    BY MaxAssumption
  <1>2. Ord!Query \in Ord!OrderQueries /\ page \in OrderPages /\ filter \in OrderFilters
    BY FirstPageAssumption DEF Ord!OrdersInit, Ord!OrderQueries, Ord!Query
  <1>3. rowsOf \in [page : {0}, filter : OrderFilters]
    BY FirstPageAssumption DEF Ord!OrdersInit
  <1>4. fetches \subseteq [no : 1..MaxOrderFetches, query : Ord!OrderQueries]
    BY <1>1, <1>2 DEF Ord!OrdersInit
  <1> QED BY <1>1, <1>2, <1>3, <1>4 DEF Ord!OrdersInit, Ord!OrdersTypeOK, Ord!NoResult

LEMMA LogsTypeInit == Log!LogsInit => Log!LogsTypeOK
  <1> SUFFICES ASSUME Log!LogsInit PROVE Log!LogsTypeOK
    OBVIOUS
  <1>1. 1 \in 1..MaxLogFetches /\ 1 \in LogPages /\ Today \in LogFilters
    BY MaxAssumption, FirstPageAssumption
  <1>2. logCalls \subseteq [no : 1..MaxLogFetches, page : LogPages, filter : LogFilters]
    BY <1>1 DEF Log!LogsInit
  <1> QED BY <1>1, <1>2 DEF Log!LogsInit, Log!LogsTypeOK

LEMMA LogsTypes ==
  ASSUME Log!LogsTypeOK, Log!LogsNext \/ UNCHANGED logsVars
  PROVE  Log!LogsTypeOK'
  <1>0. 1 \in LogPages /\ MaxLogFetches \in Nat \ {0}
    BY MaxAssumption, FirstPageAssumption
  <1>1. ASSUME NEW p \in LogPages, Log!FetchLogs(p, typed)
        PROVE  /\ logCalls' \subseteq [no : 1..MaxLogFetches, page : LogPages, filter : LogFilters]
               /\ asked' \in 1..MaxLogFetches /\ logsLoading' \in BOOLEAN
    BY <1>0, <1>1 DEF Log!FetchLogs, Log!LogsTypeOK
  <1>2. ASSUME Log!HandleSearch \/ \E p \in LogPages : Log!HandlePageChange(p)
        PROVE  Log!LogsTypeOK'
    BY <1>0, <1>1, <1>2 DEF Log!HandleSearch, Log!HandlePageChange, Log!LogsTypeOK
  <1>3. ASSUME NEW c \in logCalls, Log!LogsAnswered(c) \/ Log!LogsFailed(c)
        PROVE  Log!LogsTypeOK'
    <2>1. c.page \in LogPages /\ c.filter \in LogFilters
      BY <1>3 DEF Log!LogsTypeOK
    <2>2. CASE Log!LogsAnswered(c)
      <3>1. listedOf' \in [page : LogPages \cup {0}, filter : LogFilters] /\ pager' \in LogPages
        BY <2>1, <2>2 DEF Log!LogsAnswered
      <3> QED BY <2>2, <3>1 DEF Log!LogsAnswered, Log!LogsTypeOK
    <2>3. CASE Log!LogsFailed(c)
      BY <2>3 DEF Log!LogsFailed, Log!LogsTypeOK
    <2> QED BY <1>3, <2>2, <2>3
  <1>4. ASSUME NEW r \in Rows, NEW ok \in BOOLEAN,
               Log!Expand(r) \/ Log!Collapse(r) \/ Log!Store(r) \/ Log!MessagesAnswered(r, ok)
        PROVE  Log!LogsTypeOK'
    BY <1>4 DEF Log!Expand, Log!Collapse, Log!Store, Log!MessagesAnswered, Log!tableVars,
                Log!LogsTypeOK
  <1>5. ASSUME (\E f \in LogFilters : Log!Type(f)) \/ UNCHANGED logsVars PROVE Log!LogsTypeOK'
    BY <1>5 DEF logsVars, Log!Type, Log!LogsTypeOK
  <1> QED BY <1>2, <1>3, <1>4, <1>5 DEF Log!LogsNext


(* ChatPage *)

LEMMA ChatTypeInit == Chat!ChatInit => Chat!ChatTypeOK
  <1>1. 0 \in 0..MaxSends /\ 0 \in 0..MaxSelects
    BY MaxAssumption
  <1>2. Chat!ChatInit => DOMAIN history = {}
    BY DEF Chat!ChatInit
  <1> QED BY <1>1, <1>2 DEF Chat!ChatInit, Chat!ChatTypeOK

LEMMA ChatTypes ==
  ASSUME Chat!ChatTypeOK, ChatInv, ChatInv', Chat!ChatNext \/ UNCHANGED chatVars
  PROVE  Chat!ChatTypeOK'
  <1>1. \A i \in DOMAIN history' : history'[i].role \in {"user", "assistant"}
    <2>1. history' \in Seq(Bubbles)
      BY DEF ChatInv
    <2>2. ASSUME NEW i \in DOMAIN history' PROVE history'[i] \in Bubbles
      BY <2>1, ElementOfSeq
    <2> QED BY <2>2 DEF Bubbles
  <1>2. MaxSends \in Nat /\ MaxSelects \in Nat
    BY MaxAssumption
  <1>3. ASSUME NEW k \in ChatKeys \cup {NoKey},
               (k \in ChatKeys /\ Chat!SelectKey(k)) \/ Chat!ModelsLoaded(k) \/ Chat!ModelsRefused(k)
        PROVE  Chat!ChatTypeOK'
    BY <1>1, <1>2, <1>3
       DEF Chat!SelectKey, Chat!ModelsLoaded, Chat!ModelsRefused, Chat!ChatTypeOK
  <1>4. ASSUME NEW m, Chat!SelectModel(m) PROVE Chat!ChatTypeOK'
    BY <1>1, <1>2, <1>4 DEF Chat!SelectModel, Chat!ChatTypeOK
  <1>5. ASSUME Chat!HandleSend PROVE Chat!ChatTypeOK'
    BY <1>1, <1>2, <1>5 DEF Chat!HandleSend, Chat!pickVars, Chat!ChatTypeOK
  <1>6. ASSUME NEW s \in streams,
               \/ Chat!Piece(s) \/ Chat!ErrorLine(s) \/ Chat!Refused(s) \/ Chat!Broken(s)
               \/ Chat!Done(s)
        PROVE  Chat!ChatTypeOK'
    <2>1. UNCHANGED <<key, modelLoads, selects, sends>> /\ sending' \in BOOLEAN
      BY <1>6 DEF Chat!Piece, Chat!ErrorLine, Chat!Refused, Chat!Broken, Chat!Done, Chat!Ended,
                  Chat!pickVars, Chat!ChatTypeOK
    <2> QED BY <1>1, <2>1 DEF Chat!ChatTypeOK
  <1>7. ASSUME UNCHANGED chatVars PROVE Chat!ChatTypeOK'
    BY <1>7 DEF chatVars, Chat!ChatTypeOK
  <1> QED BY <1>3, <1>4, <1>5, <1>6, <1>7 DEF Chat!ChatNext

-----------------------------------------------------------------------------
(* Types: ChannelsPage. *)

LEMMA ChannelsTypeInit == Ch!ChannelsInit => Ch!ChannelsTypeOK
  <1> SUFFICES ASSUME Ch!ChannelsInit PROVE Ch!ChannelsTypeOK
    OBVIOUS
  <1>1. 0 \in 0..MaxCalls /\ 0 \in 0..0 /\ 0 \in 0..MaxEdits
    BY MaxAssumption
  <1>2. DOMAIN FirstRows = Channels
    BY FirstRowsAssumption
  <1>3. cache \in [Channels -> {Ch!NotLoaded} \cup SUBSET Models]
    BY DEF Ch!ChannelsInit
  <1> QED BY <1>1, <1>2, <1>3 DEF Ch!ChannelsInit, Ch!ChannelsTypeOK

\* What holds of every call.
TypedRequest(c) ==
  /\ DOMAIN c.rows = Channels /\ c.ids \subseteq Models
  /\ c.kind = "upstream" => c.id \in Channels

LEMMA NewRequestTyped ==
  ASSUME NEW kind, NEW id, NEW body, NEW n, kind = "upstream" => id \in Channels
  PROVE  TypedRequest(Ch!Call(kind, id, body, n))
  <1>1. DOMAIN FirstRows = Channels
    BY FirstRowsAssumption
  <1> QED BY <1>1 DEF TypedRequest, Ch!Call

\* One call more.
LEMMA SendTyped ==
  ASSUME Ch!ChannelsTypeOK, NEW c, TypedRequest(c), Ch!Send(c)
  PROVE  /\ sent' \in 0..MaxCalls /\ sent' = sent + 1
         /\ \A d \in calls' : TypedRequest(d)
  <1>1. sent \in 0..MaxCalls /\ \A d \in calls : TypedRequest(d)
    BY DEF Ch!ChannelsTypeOK, TypedRequest
  <1> QED BY <1>1, MaxAssumption DEF Ch!Send

\* A call with another status, and with what the server answered.
LEMMA AnsweredTyped ==
  ASSUME Ch!ChannelsTypeOK, NEW c, IsRequest(c), TypedRequest(c), NEW s, Ch!Answered(c, s)
  PROVE  \A d \in calls' : TypedRequest(d)
  <1>1. \A d \in calls : TypedRequest(d)
    BY DEF Ch!ChannelsTypeOK, TypedRequest
  <1>2. TypedRequest([c EXCEPT !.status = s])
    BY DEF IsRequest, TypedRequest
  <1> QED BY <1>1, <1>2 DEF Ch!Answered

\* A step that moves the calls, and the rows of the server.
LEMMA CallsOnly ==
  ASSUME Ch!ChannelsTypeOK, \A d \in calls' : TypedRequest(d), DOMAIN rows' = Channels,
         UNCHANGED <<listed, dialog, candidates, cache, seq, edits>>,
         sent' \in 0..MaxCalls, sent <= sent'
  PROVE  Ch!ChannelsTypeOK'
  <1>1. seq' \in 0..sent'
    BY MaxAssumption DEF Ch!ChannelsTypeOK
  <1>2. \A c \in calls' : /\ DOMAIN c.rows = Channels /\ c.ids \subseteq Models
                          /\ c.kind = "upstream" => c.id \in Channels
    BY DEF TypedRequest
  <1> QED BY <1>1, <1>2 DEF Ch!ChannelsTypeOK

LEMMA ServeTypes ==
  ASSUME Ch!ChannelsTypeOK, ChannelsInv, ChannelsInv', NEW c \in calls, Ch!Serve(c)
  PROVE  Ch!ChannelsTypeOK'
  <1>1. IsRequest(c) /\ TypedRequest(c)
    BY DEF ChannelsInv, Ch!ChannelsTypeOK, TypedRequest
  <1>2. DOMAIN rows' = Channels /\ DOMAIN rows = Channels
    BY DEF ChannelsInv, RowsInv
  <1>3. \E e, s : IsRequest(e) /\ TypedRequest(e) /\ Ch!Answered(e, s)
    <2>1. CASE c.kind = "list"
      <3>1. IsRequest([c EXCEPT !.rows = rows]) /\ TypedRequest([c EXCEPT !.rows = rows])
        BY <1>1, <1>2, <2>1 DEF IsRequest, TypedRequest
      <3> QED BY <2>1, <3>1 DEF Ch!Serve
    <2>2. CASE c.kind = "upstream"
      <3>1. Upstream[c.id] \subseteq Models
        BY <1>1, <2>2, UpstreamAssumption DEF TypedRequest
      <3>2. /\ IsRequest([c EXCEPT !.ids = Upstream[c.id]])
            /\ TypedRequest([c EXCEPT !.ids = Upstream[c.id]])
        BY <1>1, <2>2, <3>1 DEF IsRequest, TypedRequest
      <3> QED BY <2>2, <3>2 DEF Ch!Serve
    <2>3. CASE c.kind \in {"create", "edit", "delete", "models"}
      <3>1. Ch!Answered(c, "ok") \/ Ch!Answered(c, "error")
        BY <2>3 DEF Ch!Serve
      <3> QED BY <1>1, <3>1
    <2> QED BY <1>1, <2>1, <2>2, <2>3 DEF IsRequest
  <1>4. \A d \in calls' : TypedRequest(d)
    BY <1>3, AnsweredTyped
  <1>5. UNCHANGED <<listed, dialog, candidates, cache, seq, sent, edits>>
    BY DEF Ch!Serve
  <1> QED BY <1>2, <1>4, <1>5, CallsOnly DEF Ch!ChannelsTypeOK

\* The answers.
LEMMA AnswersTypes ==
  ASSUME Ch!ChannelsTypeOK, ChannelsInv, NEW c \in calls,
         \/ Ch!Fail(c) \/ Ch!Failed(c) \/ Ch!Listed(c) \/ Ch!Submitted(c) \/ Ch!Deleted(c)
         \/ Ch!ModelsSaved(c) \/ Ch!UpstreamLoaded(c)
  PROVE  Ch!ChannelsTypeOK'
  <1>1. IsRequest(c) /\ TypedRequest(c) /\ \A d \in calls : TypedRequest(d)
    BY DEF ChannelsInv, Ch!ChannelsTypeOK, TypedRequest
  <1>2. \A d \in calls' : TypedRequest(d)
    <2>1. CASE Ch!Fail(c)
      BY <1>1, <2>1, AnsweredTyped DEF Ch!Fail
    <2>2. CASE Ch!Failed(c) \/ Ch!Listed(c) \/ Ch!UpstreamLoaded(c)
      BY <1>1, <2>2 DEF Ch!Failed, Ch!Listed, Ch!UpstreamLoaded
    <2>3. CASE Ch!Submitted(c) \/ Ch!Deleted(c) \/ Ch!ModelsSaved(c)
      <3>1. TypedRequest(Ch!Call("list", Ch!NewChannel, Ch!NoBody, 0))
        BY NewRequestTyped
      <3> QED BY <1>1, <2>3, <3>1 DEF Ch!Submitted, Ch!Deleted, Ch!ModelsSaved, Ch!ThenFetch
    <2> QED BY <2>1, <2>2, <2>3
  <1>3. UNCHANGED <<rows, seq, sent, edits>>
    BY DEF Ch!Fail, Ch!Failed, Ch!Listed, Ch!Submitted, Ch!Deleted, Ch!ModelsSaved,
           Ch!UpstreamLoaded
  <1>4. DOMAIN listed' = Channels
    <2>1. listed' = listed \/ listed' = c.rows
      BY DEF Ch!Fail, Ch!Failed, Ch!Listed, Ch!Submitted, Ch!Deleted, Ch!ModelsSaved,
             Ch!UpstreamLoaded
    <2> QED BY <1>1, <2>1 DEF TypedRequest, Ch!ChannelsTypeOK
  <1>5. dialog' = dialog \/ dialog' = Ch!Closed
    BY DEF Ch!Fail, Ch!Failed, Ch!Listed, Ch!Submitted, Ch!Deleted, Ch!ModelsSaved,
           Ch!UpstreamLoaded
  <1>6. candidates' = candidates \/ candidates' = {} \/ candidates' = c.ids
    BY DEF Ch!Fail, Ch!Failed, Ch!Listed, Ch!Submitted, Ch!Deleted, Ch!ModelsSaved,
           Ch!UpstreamLoaded
  <1>7. cache' = cache \/ cache' = [cache EXCEPT ![c.id] = c.ids]
    BY DEF Ch!Fail, Ch!Failed, Ch!Listed, Ch!Submitted, Ch!Deleted, Ch!ModelsSaved,
           Ch!UpstreamLoaded
  <1>8. c.ids \in SUBSET Models
    BY <1>1 DEF TypedRequest
  <1>9. candidates' \in {Ch!NotLoaded} \cup SUBSET Models
    BY <1>6, <1>8 DEF Ch!ChannelsTypeOK
  <1>10. cache' \in [Channels -> {Ch!NotLoaded} \cup SUBSET Models]
    BY <1>7, <1>8 DEF Ch!ChannelsTypeOK
  <1>11. \A d \in calls' : /\ DOMAIN d.rows = Channels /\ d.ids \subseteq Models
                           /\ d.kind = "upstream" => d.id \in Channels
    BY <1>2 DEF TypedRequest
  <1> QED BY <1>3, <1>4, <1>5, <1>9, <1>10, <1>11 DEF Ch!ChannelsTypeOK

\* The drawer and the dialog, up to the calls.
LEMMA EditTypes ==
  ASSUME Ch!ChannelsTypeOK,
         \/ Ch!OpenCreate \/ (\E c \in Channels : Ch!OpenEdit(c))
         \/ (\E f \in Forms : Ch!FillSettings(f.conf, f.key) \/ Ch!FillMapping(f.mapping))
         \/ Ch!CloseDrawer \/ (\E S : Ch!TickAll(S))
         \/ (\E m \in Models : Ch!ToggleModel(m) \/ Ch!ToggleTts(m))
         \/ Ch!VoiceEditor \/ Ch!CloseDialog
  PROVE  Ch!ChannelsTypeOK'
  <1>1. UNCHANGED <<rows, listed, candidates, cache, seq, calls, sent>>
    BY DEF Ch!OpenCreate, Ch!OpenEdit, Ch!FillSettings, Ch!FillMapping, Ch!CloseDrawer,
           Ch!TickAll, Ch!ToggleModel, Ch!ToggleTts, Ch!VoiceEditor, Ch!SaveVoiceEditor,
           Ch!CloseDialog
  <1>2. edits' = edits \/ Ch!Edit
    BY DEF Ch!OpenCreate, Ch!OpenEdit, Ch!FillSettings, Ch!FillMapping, Ch!CloseDrawer,
           Ch!TickAll, Ch!ToggleModel, Ch!ToggleTts, Ch!VoiceEditor, Ch!SaveVoiceEditor,
           Ch!CloseDialog
  <1>3. edits' \in 0..MaxEdits
    BY <1>2, MaxAssumption DEF Ch!Edit, Ch!ChannelsTypeOK
  <1>4. \/ dialog' = dialog \/ dialog' = Ch!Closed
        \/ dialog # Ch!Closed /\ dialog'.id = dialog.id
    <2>1. CASE \/ Ch!OpenCreate \/ (\E c \in Channels : Ch!OpenEdit(c))
               \/ (\E f \in Forms : Ch!FillSettings(f.conf, f.key) \/ Ch!FillMapping(f.mapping))
               \/ Ch!CloseDrawer \/ Ch!CloseDialog
      BY <2>1 DEF Ch!OpenCreate, Ch!OpenEdit, Ch!FillSettings, Ch!FillMapping, Ch!CloseDrawer,
                  Ch!CloseDialog
    <2>2. ASSUME NEW S, Ch!TickAll(S) PROVE dialog # Ch!Closed /\ dialog'.id = dialog.id
      BY <2>2 DEF Ch!TickAll
    <2>3. ASSUME NEW m \in Models, Ch!ToggleModel(m)
          PROVE  dialog # Ch!Closed /\ dialog'.id = dialog.id
      BY <2>3 DEF Ch!ToggleModel
    <2>4. ASSUME NEW m \in Models, Ch!ToggleTts(m)
          PROVE  dialog # Ch!Closed /\ dialog'.id = dialog.id
      BY <2>4 DEF Ch!ToggleTts
    <2>5. ASSUME NEW m \in Models, NEW text \in Texts, Ch!SaveVoiceEditor(m, text)
          PROVE  dialog # Ch!Closed /\ dialog'.id = dialog.id
      BY <2>5 DEF Ch!SaveVoiceEditor
    <2> QED BY <2>1, <2>2, <2>3, <2>4, <2>5 DEF Ch!VoiceEditor
  <1> QED BY <1>1, <1>3, <1>4 DEF Ch!ChannelsTypeOK

\* A list of models is asked for, numbered one above the last.
LEMMA UpstreamTypes ==
  ASSUME Ch!ChannelsTypeOK, NEW c \in Channels,
         seq' = seq + 1, Ch!Send(Ch!Call("upstream", c, Ch!NoBody, seq + 1))
  PROVE  /\ sent' \in 0..MaxCalls /\ seq' \in 0..sent'
         /\ \A d \in calls' : TypedRequest(d)
  <1>1. TypedRequest(Ch!Call("upstream", c, Ch!NoBody, seq + 1))
    BY NewRequestTyped
  <1>2. /\ sent' \in 0..MaxCalls /\ sent' = sent + 1
        /\ \A d \in calls' : TypedRequest(d)
    BY <1>1, SendTyped
  <1>3. sent \in 0..MaxCalls /\ seq \in 0..sent
    BY DEF Ch!ChannelsTypeOK
  <1>4. seq' \in 0..sent'
    BY <1>2, <1>3, MaxAssumption
  <1> QED BY <1>2, <1>4

LEMMA AskingTypes ==
  ASSUME Ch!ChannelsTypeOK,
         \/ (\E c \in Channels : Ch!HandleDelete(c) \/ Ch!OpenManageModels(c))
         \/ Ch!RefreshUpstream \/ Ch!HandleSubmit \/ Ch!HandleSaveModels
  PROVE  Ch!ChannelsTypeOK'
  <1>0. sent \in 0..MaxCalls /\ \A d \in calls : TypedRequest(d)
    BY DEF Ch!ChannelsTypeOK, TypedRequest
  <1>1. ASSUME NEW kind, NEW id, NEW body, kind # "upstream",
               Ch!Send(Ch!Call(kind, id, body, 0)),
               UNCHANGED <<rows, listed, dialog, candidates, cache, seq, edits>>
        PROVE  Ch!ChannelsTypeOK'
    <2>1. TypedRequest(Ch!Call(kind, id, body, 0))
      BY <1>1, NewRequestTyped
    <2>2. /\ sent' \in 0..MaxCalls /\ sent' = sent + 1
          /\ \A d \in calls' : TypedRequest(d)
      BY <1>1, <2>1, SendTyped
    <2>3. sent <= sent' /\ DOMAIN rows' = Channels
      BY <1>0, <1>1, <2>2 DEF Ch!ChannelsTypeOK
    <2> QED BY <1>1, <2>2, <2>3, CallsOnly
  <1>2. ASSUME NEW c \in Channels, Ch!HandleDelete(c) PROVE Ch!ChannelsTypeOK'
    BY <1>1, <1>2 DEF Ch!HandleDelete
  <1>3. CASE Ch!HandleSubmit
    <2> DEFINE kind == IF drawer.id = Ch!NewChannel THEN "create" ELSE "edit"
    <2>1. kind # "upstream" /\ Ch!Send(Ch!Call(kind, drawer.id, Ch!DrawerPayload(drawer), 0))
          /\ UNCHANGED <<rows, listed, dialog, candidates, cache, seq, edits>>
      BY <1>3 DEF Ch!HandleSubmit
    <2> HIDE DEF kind
    <2> QED BY <1>1, <2>1
  <1>4. CASE Ch!HandleSaveModels
    BY <1>1, <1>4 DEF Ch!HandleSaveModels
  <1>5. ASSUME sent' \in 0..MaxCalls, seq' \in 0..sent', \A d \in calls' : TypedRequest(d),
               UNCHANGED <<rows, listed, cache, edits>>,
               dialog' = dialog \/ dialog'.id \in Channels,
               candidates' = candidates \/ \E c \in Channels : candidates' = cache[c]
        PROVE  Ch!ChannelsTypeOK'
    <2>1. candidates' \in {Ch!NotLoaded} \cup SUBSET Models
      BY <1>5 DEF Ch!ChannelsTypeOK
    <2>2. \A d \in calls' : /\ DOMAIN d.rows = Channels /\ d.ids \subseteq Models
                            /\ d.kind = "upstream" => d.id \in Channels
      BY <1>5 DEF TypedRequest
    <2> QED BY <1>5, <2>1, <2>2 DEF Ch!ChannelsTypeOK
  <1>6. ASSUME NEW c \in Channels, Ch!OpenManageModels(c) PROVE Ch!ChannelsTypeOK'
    <2>1. /\ dialog'.id = c /\ candidates' = cache[c]
          /\ UNCHANGED <<rows, listed, cache, edits>>
      BY <1>6 DEF Ch!OpenManageModels
    <2>2. CASE UNCHANGED <<seq, calls, sent>>
      BY <1>0, <1>5, <2>1, <2>2 DEF Ch!ChannelsTypeOK
    <2>3. CASE seq' = seq + 1 /\ Ch!Send(Ch!Call("upstream", c, Ch!NoBody, seq + 1))
      BY <1>5, <2>1, <2>3, UpstreamTypes
    <2> QED BY <1>6, <2>2, <2>3 DEF Ch!OpenManageModels
  <1>7. CASE Ch!RefreshUpstream
    <2>1. dialog.id \in Channels
      BY <1>7 DEF Ch!RefreshUpstream, Ch!ChannelsTypeOK
    <2>2. /\ seq' = seq + 1 /\ Ch!Send(Ch!Call("upstream", dialog.id, Ch!NoBody, seq + 1))
          /\ UNCHANGED <<rows, listed, dialog, candidates, cache, edits>>
      BY <1>7 DEF Ch!RefreshUpstream
    <2>3. /\ sent' \in 0..MaxCalls /\ seq' \in 0..sent'
          /\ \A d \in calls' : TypedRequest(d)
      BY <2>1, <2>2, UpstreamTypes
    <2> QED BY <1>5, <2>2, <2>3
  <1> QED BY <1>2, <1>3, <1>4, <1>6, <1>7

LEMMA ChannelsTypesNext ==
  ASSUME Ch!ChannelsTypeOK, ChannelsInv, ChannelsInv', Ch!ChannelsNext \/ UNCHANGED channelVars
  PROVE  Ch!ChannelsTypeOK'
  <1>1. CASE UNCHANGED channelVars
    BY <1>1 DEF channelVars, Ch!ChannelsTypeOK
  <1>2. ASSUME NEW c \in Channels, Ch!RowActions(c) PROVE Ch!ChannelsTypeOK'
    BY <1>2, EditTypes, AskingTypes DEF Ch!RowActions
  <1>3. ASSUME Ch!DialogActions PROVE Ch!ChannelsTypeOK'
    BY <1>3, EditTypes, AskingTypes DEF Ch!DialogActions
  <1>4. ASSUME NEW c \in calls,
               \/ Ch!Serve(c) \/ Ch!Fail(c) \/ Ch!Failed(c) \/ Ch!Listed(c) \/ Ch!Submitted(c)
               \/ Ch!Deleted(c) \/ Ch!ModelsSaved(c) \/ Ch!UpstreamLoaded(c)
        PROVE  Ch!ChannelsTypeOK'
    BY <1>4, ServeTypes, AnswersTypes
  <1> QED BY <1>1, <1>2, <1>3, <1>4, EditTypes, AskingTypes DEF Ch!ChannelsNext

-----------------------------------------------------------------------------
(* Types: PricesPage. *)

LEMMA PriceTypeInit == Price!PriceInit => Price!PriceTypeOK
  <1> SUFFICES ASSUME Price!PriceInit PROVE Price!PriceTypeOK
    OBVIOUS
  <1>1. PriceInv
    BY PricesInvInit
  <1>2. \A r \in priceTable : r.id <= lastId
    BY <1>1 DEF PriceInv, Known
  <1>3. 0 \in 0..MaxSubmits /\ "token" \in DOMAIN Price!ModeUnits
    BY MaxAssumption DEF Price!ModeUnits
  <1> QED BY <1>2, <1>3, FirstPricesAssumption DEF Price!PriceInit, Price!PriceTypeOK, Price!NewModel

\* Loading, opening and closing: the chains stay as they are.
LEMMA ReadingTypes ==
  ASSUME Price!PriceTypeOK, PriceInv',
         \/ \E l \in priceLoads : Price!LoadRead(l) \/ Price!LoadAnswered(l) \/ Price!LoadFailed(l)
         \/ \E g \in Price!GroupByModel(data) \cup {Price!NewModel} : Price!HandleOpen(g)
         \/ Price!CloseDialog
         \/ \E mode \in DOMAIN Price!ModeUnits : Price!SetMode(mode)
         \/ UNCHANGED priceVars
  PROVE  Price!PriceTypeOK'
  <1>1. /\ UNCHANGED <<priceTable, lastId, chains, submitted, notice>>
        /\ open' \in {open, TRUE, FALSE}
        /\ data' = data \/ (data' \in priceLoads /\ data' # Price!NotRead)
        /\ \A l \in priceLoads' : l \in priceLoads \/ l = priceTable
        /\ editing' = editing \/ editing' \in Price!GroupByModel(data) \cup {Price!NewModel}
    BY DEF Price!LoadRead, Price!LoadAnswered, Price!LoadFailed, Price!HandleOpen,
           Price!CloseDialog, Price!SetMode, priceVars
  <1>2. \A g \in Price!GroupByModel(data) : g.model \in PriceModels /\ g.rows \subseteq Price!PriceRows
    <2>1. \A r \in data : r \in Price!PriceRows /\ r.model \in PriceModels
      BY DEF Price!PriceTypeOK, Price!PriceRows
    <2> QED BY <2>1 DEF Price!GroupByModel
  <1>3. priceMode' \in DOMAIN Price!ModeUnits
    BY DEF PriceInv
  <1>4. \A chain \in chains' : Price!ChainTypeOK(chain)'
    BY <1>1 DEF Price!PriceTypeOK, Price!ChainTypeOK
  <1>5. data' \subseteq Price!PriceRows /\ open' \in BOOLEAN
        /\ \A l \in priceLoads' : l = Price!NotRead \/ l \subseteq Price!PriceRows
    BY <1>1 DEF Price!PriceTypeOK
  <1>6. editing' # Price!NewModel
        => editing'.model \in PriceModels /\ editing'.rows \subseteq Price!PriceRows
    BY <1>1, <1>2 DEF Price!PriceTypeOK
  <1> QED BY <1>1, <1>3, <1>4, <1>5, <1>6 DEF Price!PriceTypeOK

\* A new chain, which has typed calls only.
LEMMA StartTypes ==
  ASSUME Price!PriceTypeOK, NEW kind \in {"edit", "create", "deletion"},
         NEW stale \in SUBSET Price!PriceRows, NEW stages \in Seq(Price!Stages), stages # <<>>,
         Price!Start(kind, stale, stages), UNCHANGED <<open, notice>>
  PROVE  Price!PriceTypeOK'
  <1>0. PICK c : c = [no |-> submitted', kind |-> kind, stale |-> stale, stages |-> stages,
                      failed |-> FALSE]
    OBVIOUS
  <1>1. /\ submitted' = submitted + 1 /\ submitted < MaxSubmits
        /\ chains' = chains \cup {c}
        /\ UNCHANGED <<priceTable, lastId, data, priceLoads, editing, priceMode>>
    BY <1>0 DEF Price!Start
  <1>2. submitted \in 0..MaxSubmits /\ MaxSubmits \in Nat
    BY MaxAssumption DEF Price!PriceTypeOK
  <1>3. submitted' \in 0..MaxSubmits /\ submitted' \in 1..submitted'
        /\ 1..submitted \subseteq 1..submitted'
    BY <1>1, <1>2
  <1>4. Price!ChainTypeOK(c)'
    BY <1>0, <1>3 DEF Price!ChainTypeOK
  <1>5. ASSUME NEW d \in chains PROVE Price!ChainTypeOK(d)'
    BY <1>3 DEF Price!PriceTypeOK, Price!ChainTypeOK
  <1>6. \A d \in chains' : Price!ChainTypeOK(d)'
    BY <1>1, <1>4, <1>5
  <1> QED BY <1>1, <1>3, <1>6 DEF Price!PriceTypeOK

LEMMA ModeUnitsAre ==
  ASSUME NEW mode \in DOMAIN Price!ModeUnits
  PROVE  Price!ModeUnits[mode] \subseteq Price!Units
  BY DEF Price!Units

\* A set of calls, of which there is one.
LEMMA StageIs ==
  ASSUME NEW S \in SUBSET Price!PriceCalls, S # {}
  PROVE  S \in Price!Stages
  BY DEF Price!Stages

LEMMA DeletionTyped ==
  ASSUME NEW r \in Price!PriceRows
  PROVE  Price!Deletion(r) \in Price!PriceCalls
  BY DEF Price!PriceRows, Price!PriceCalls, Price!Deletion, Price!Call

\* A finite set of rows has one of the largest id.
LEMMA LatestRow ==
  ASSUME NEW S, IsFiniteSet(S), S # {}, \A r \in S : r.id \in Nat
  PROVE  \E r \in S : \A q \in S : q.id <= r.id
  <1> DEFINE ids == {r.id : r \in S}
  <1>1. IsFiniteSet(ids)
    <2> DEFINE f == [r \in S |-> r.id]
    <2>1. f \in Surjection(S, ids)
      BY DEF Surjection
    <2> QED BY <2>1, FS_Surjection
  <1>2. ids # {} /\ ids \subseteq Nat
    OBVIOUS
  <1>3. \A r \in S : r.id \in ids
    OBVIOUS
  <1>4. \A x \in ids : \E r \in S : r.id = x
    OBVIOUS
  <1> HIDE DEF ids
  <1>5. PICK m \in ids : \A x \in ids : x <= m
    BY <1>1, <1>2, LargestNumber
  <1> QED BY <1>3, <1>4, <1>5

LEMMA UpsertTyped ==
  ASSUME NEW g, g.model \in PriceModels, g.rows \subseteq Price!PriceRows, IsFiniteSet(g.rows),
         NEW u \in Price!Units, NEW price \in Int
  PROVE  Price!Upsert(g, u, price) \subseteq Price!PriceCalls
  <1> DEFINE rows1 == {r \in g.rows : r.unit = u}
             row == CHOOSE r \in rows1 : \A q \in rows1 : q.id <= r.id
  <1>1. CASE rows1 = {}
    BY <1>1 DEF Price!Upsert, Price!Call, Price!PriceCalls
  <1>2. CASE rows1 # {}
    <2>1. Price!Upsert(g, u, price)
          = {Price!Call("update", row.id, row.model, u,
                        IF price = Price!NoPrice THEN row.price ELSE price)}
      BY <1>2 DEF Price!Upsert
    <2>2. rows1 \in SUBSET g.rows /\ rows1 \subseteq Price!PriceRows
      OBVIOUS
    <2>3. \A r \in rows1 : r.id \in Nat
      BY DEF Price!PriceRows
    <2> HIDE DEF rows1
    <2>4. IsFiniteSet(rows1)
      BY <2>2, FS_Subset
    <2>5. row \in rows1
      BY <1>2, <2>3, <2>4, LatestRow
    <2>6. row.id \in Nat /\ row.model \in PriceModels /\ row.price \in Int
      BY <2>2, <2>5 DEF Price!PriceRows
    <2> HIDE DEF row
    <2> QED BY <2>1, <2>6 DEF Price!Call, Price!PriceCalls
  <1> QED BY <1>1, <1>2

LEMMA SubmitEditTypes ==
  ASSUME Price!PriceTypeOK, PriceInv, NEW v \in PriceForms, Price!SubmitEdit(v)
  PROVE  Price!PriceTypeOK'
  <1> DEFINE gone == Price!StaleRows(editing.rows, priceMode)
             stale == Price!SetToSeq(gone)
             todo == {u \in Price!ModeUnits[priceMode] : Price!Upsert(editing, u, v[u]) # {}}
             units == Price!SetToSeq(todo)
             calls1 == Price!EditCalls(editing, priceMode, v)
             deletions == [i \in 1..Len(stale) |-> {Price!Deletion(stale[i])}]
             upserts == [i \in 1..Len(units) |-> Price!Upsert(editing, units[i], v[units[i]])]
  <1>1. calls1 = deletions \o upserts
    BY DEF Price!EditCalls
  <1>2. /\ calls1 # <<>> /\ Price!Start("edit", gone, calls1) /\ UNCHANGED <<open, notice>>
        /\ editing # Price!NewModel
    BY DEF Price!SubmitEdit
  <1>3. /\ gone \in SUBSET editing.rows /\ todo \in SUBSET Price!ModeUnits[priceMode]
        /\ \A u \in todo : Price!Upsert(editing, u, v[u]) # {}
    BY DEF Price!StaleRows
  <1>4. editing.model \in PriceModels /\ editing.rows \subseteq Price!PriceRows
    BY <1>2 DEF Price!PriceTypeOK
  <1>5. IsFiniteSet(editing.rows)
    BY DEF PriceInv, Known
  <1>6. Price!ModeUnits[priceMode] \subseteq Price!Units /\ IsFiniteSet(Price!ModeUnits[priceMode])
    BY ModeUnitsAre, UnitsFinite DEF PriceInv
  <1> HIDE DEF gone, todo, calls1
  <1>7. stale \in Seq(gone) /\ units \in Seq(todo)
    BY <1>3, <1>5, <1>6, FS_Subset, SeqOfSet
  <1>8. deletions \in Seq(Price!Stages)
    <2>1. ASSUME NEW i \in 1..Len(stale) PROVE {Price!Deletion(stale[i])} \in Price!Stages
      <3>1. stale[i] \in Price!PriceRows
        BY <1>3, <1>4, <1>7
      <3>2. {Price!Deletion(stale[i])} \in SUBSET Price!PriceCalls
        BY <3>1, DeletionTyped
      <3> QED BY <3>2, StageIs
    <2>2. Len(stale) \in Nat
      BY <1>7
    <2> HIDE DEF stale
    <2> QED BY <2>1, <2>2
  <1>9. upserts \in Seq(Price!Stages)
    <2>1. ASSUME NEW i \in 1..Len(units)
          PROVE  Price!Upsert(editing, units[i], v[units[i]]) \in Price!Stages
      <3>1. units[i] \in todo
        BY <1>7
      <3>2. units[i] \in Price!Units
        BY <1>3, <1>6, <3>1
      <3>3. v[units[i]] \in Int
        BY <3>2, FirstPricesAssumption
      <3>4. Price!Upsert(editing, units[i], v[units[i]]) \in SUBSET Price!PriceCalls
        BY <1>4, <1>5, <3>2, <3>3, UpsertTyped
      <3> QED BY <1>3, <3>1, <3>4, StageIs
    <2>2. Len(units) \in Nat
      BY <1>7
    <2> HIDE DEF units
    <2> QED BY <2>1, <2>2
  <1> HIDE DEF deletions, upserts
  <1>10. calls1 \in Seq(Price!Stages)
    BY <1>1, <1>8, <1>9, ConcatProperties
  <1>11. gone \in SUBSET Price!PriceRows
    BY <1>3, <1>4
  <1> QED BY <1>2, <1>10, <1>11, StartTypes

LEMMA OneStageTypes ==
  ASSUME Price!PriceTypeOK, NEW kind \in {"edit", "create", "deletion"},
         NEW stale \in SUBSET Price!PriceRows, NEW stage \in SUBSET Price!PriceCalls, stage # {},
         Price!Start(kind, stale, <<stage>>), UNCHANGED <<open, notice>>
  PROVE  Price!PriceTypeOK'
  <1>1. <<stage>> \in Seq(Price!Stages) /\ <<stage>> # <<>>
    BY StageIs
  <1> QED BY <1>1, StartTypes

LEMMA SubmitNewTypes ==
  ASSUME Price!PriceTypeOK, PriceInv, NEW v \in PriceForms, NEW m \in PriceModels,
         Price!SubmitNew(m, v)
  PROVE  Price!PriceTypeOK'
  <1> DEFINE calls1 == Price!CreateCalls(m, priceMode, v)
  <1>1. /\ calls1 # {} /\ Price!Start("create", {}, <<calls1>>) /\ UNCHANGED <<open, notice>>
    BY DEF Price!SubmitNew
  <1>2. calls1 \in SUBSET Price!PriceCalls
    <2>1. ASSUME NEW u \in Price!ModeUnits[priceMode]
          PROVE  Price!Call("create", 0, m, u, v[u]) \in Price!PriceCalls
      <3>1. u \in Price!Units
        BY ModeUnitsAre DEF PriceInv
      <3>2. v[u] \in Int
        BY <3>1, FirstPricesAssumption
      <3> QED BY <3>1, <3>2 DEF Price!Call, Price!PriceCalls
    <2> QED BY <2>1 DEF Price!CreateCalls
  <1> HIDE DEF calls1
  <1>3. {} \in SUBSET Price!PriceRows
    OBVIOUS
  <1> QED BY <1>1, <1>2, <1>3, OneStageTypes

LEMMA DeleteModelTypes ==
  ASSUME Price!PriceTypeOK, NEW g \in Price!GroupByModel(data), Price!HandleDeleteModel(g)
  PROVE  Price!PriceTypeOK'
  <1> DEFINE calls1 == {Price!Deletion(r) : r \in g.rows}
  <1>1. Price!Start("deletion", g.rows, <<calls1>>) /\ UNCHANGED <<open, notice>>
    BY DEF Price!HandleDeleteModel
  <1>2. g.rows \in SUBSET Price!PriceRows /\ g.rows # {}
    BY DEF Price!PriceTypeOK, Price!GroupByModel
  <1>3. calls1 \in SUBSET Price!PriceCalls /\ calls1 # {}
    BY <1>2, DeletionTyped
  <1> HIDE DEF calls1
  <1> QED BY <1>1, <1>2, <1>3, OneStageTypes

\* A call of a chain changes the table.
LEMMA EffectTypes ==
  ASSUME Price!PriceTypeOK, PriceInv, PriceInv', NEW call \in Price!PriceCalls,
         Price!Feasible(call), Price!Effect(call)
  PROVE  priceTable' \subseteq Price!PriceRows /\ \A r \in priceTable' : r.id <= lastId'
  <1>1. \A r \in priceTable' : r.id <= lastId'
    BY DEF PriceInv, Known
  <1> DEFINE id == IF call.op = "create" THEN lastId + 1 ELSE call.id
             row == [id |-> id, model |-> call.model, unit |-> call.unit, price |-> call.price]
  <1>2. id \in Nat \ {0}
    <2>1. CASE call.op = "create"
      BY <2>1 DEF PriceInv
    <2>2. CASE call.op # "create"
      <3>1. PICK r \in priceTable : r.id = call.id
        BY <2>2 DEF Price!Feasible
      <3>2. r.id \in Nat \ {0}
        BY DEF Price!PriceTypeOK, Price!PriceRows
      <3> QED BY <2>2, <3>1, <3>2
    <2> QED BY <2>1, <2>2
  <1>3. row \in Price!PriceRows
    <2> HIDE DEF id
    <2> QED BY <1>2 DEF Price!PriceRows, Price!PriceCalls
  <1>4. priceTable' \subseteq priceTable \cup {row}
    BY DEF Price!Effect
  <1> HIDE DEF row
  <1> QED BY <1>1, <1>3, <1>4 DEF Price!PriceTypeOK

\* The first stage of a chain, without a call.
LEMMA HeadTyped ==
  ASSUME NEW chain, Price!ChainTypeOK(chain), NEW call \in Head(chain.stages)
  PROVE  /\ call \in Price!PriceCalls
         /\ \A S : S = Head(chain.stages) \ {call} /\ S # {} => S \in Price!Stages
         /\ Tail(chain.stages) \in Seq(Price!Stages)
  <1>1. chain.stages \in Seq(Price!Stages) /\ chain.stages # <<>>
    BY DEF Price!ChainTypeOK
  <1>2. Head(chain.stages) \in Price!Stages /\ Tail(chain.stages) \in Seq(Price!Stages)
    BY <1>1
  <1> QED BY <1>2 DEF Price!Stages

\* One chain goes on, or is gone.
LEMMA ChainTypes ==
  ASSUME Price!PriceTypeOK, NEW rest, rest \in chains' => Price!ChainTypeOK(rest),
         chains' \subseteq chains \cup {rest},
         priceTable' \subseteq Price!PriceRows, \A r \in priceTable' : r.id <= lastId',
         open' \in BOOLEAN, priceLoads' \subseteq priceLoads \cup {Price!NotRead},
         notice' \in [no : 0..MaxSubmits, result : {"none", "done", "failed"}],
         UNCHANGED <<data, editing, priceMode, submitted>>
  PROVE  Price!PriceTypeOK'
  <1>1. \A c \in chains' : Price!ChainTypeOK(c)'
    BY DEF Price!PriceTypeOK, Price!ChainTypeOK
  <1>2. \A l \in priceLoads' : l = Price!NotRead \/ l \subseteq Price!PriceRows
    BY DEF Price!PriceTypeOK
  <1> QED BY <1>1, <1>2 DEF Price!PriceTypeOK

\* What is told of a chain.
LEMMA NoticeTyped ==
  ASSUME Price!PriceTypeOK, NEW chain \in chains, NEW result \in {"none", "done", "failed"},
         Price!Reported(chain.no, result)
  PROVE  notice' \in [no : 0..MaxSubmits, result : {"none", "done", "failed"}]
  <1>1. chain.no \in 1..submitted /\ submitted \in 0..MaxSubmits /\ MaxSubmits \in Nat
    BY MaxAssumption DEF Price!PriceTypeOK, Price!ChainTypeOK
  <1>2. chain.no \in 0..MaxSubmits
    BY <1>1
  <1> QED BY <1>2 DEF Price!Reported

LEMMA AnsweredTypes ==
  ASSUME Price!PriceTypeOK, PriceInv, PriceInv', NEW chain \in chains,
         NEW call \in Head(chain.stages), Price!Answered(chain, call)
  PROVE  Price!PriceTypeOK'
  <1> DEFINE now == Head(chain.stages) \ {call}
             left == IF now = {} THEN Tail(chain.stages) ELSE <<now>> \o Tail(chain.stages)
             rest == Price!Rest(chain, call)
             ends == rest.stages = <<>>
  <1>1. /\ Price!Feasible(call) /\ Price!Effect(call)
        /\ chains' = (chains \ {chain}) \cup (IF ends THEN {} ELSE {rest})
        /\ IF ends /\ ~chain.failed
           THEN /\ Price!Reported(chain.no, "done") /\ priceLoads' = priceLoads \cup {Price!NotRead}
                /\ open' = (open /\ chain.kind = "deletion")
           ELSE UNCHANGED <<notice, priceLoads, open>>
        /\ UNCHANGED <<data, editing, priceMode, submitted>>
    BY DEF Price!Answered
  <1>2. Price!ChainTypeOK(chain) /\ IsChain(chain)
    BY DEF Price!PriceTypeOK, PriceInv
  <1>3. priceTable' \subseteq Price!PriceRows /\ \A r \in priceTable' : r.id <= lastId'
    BY <1>1, <1>2, HeadTyped, EffectTypes
  <1>4. /\ rest = [no |-> chain.no, kind |-> chain.kind, stale |-> chain.stale,
                   stages |-> rest.stages, failed |-> chain.failed]
    BY <1>2, RestIs
  <1>5. rest.stages = left
    <2>1. rest = [chain EXCEPT !.stages = left]
      BY DEF Price!Rest
    <2>2. PICK a, b, c, d, e : chain = [no |-> a, kind |-> b, stale |-> c, stages |-> d, failed |-> e]
      BY <1>2 DEF IsChain
    <2> HIDE DEF left, rest
    <2> QED BY <2>1, <2>2
  <1>6. left \in Seq(Price!Stages)
    <2>1. Tail(chain.stages) \in Seq(Price!Stages) /\ (now # {} => now \in Price!Stages)
      BY <1>2, HeadTyped
    <2> HIDE DEF now
    <2>2. now # {} => <<now>> \o Tail(chain.stages) \in Seq(Price!Stages)
      BY <2>1, ConcatProperties
    <2> QED BY <2>1, <2>2
  <1> HIDE DEF left, rest, now
  <1>7. ASSUME ~ends PROVE Price!ChainTypeOK(rest)
    <2>1. /\ rest.no = chain.no /\ rest.kind = chain.kind /\ rest.stale = chain.stale
          /\ rest.failed = chain.failed
      BY <1>4
    <2> QED BY <1>2, <1>5, <1>6, <1>7, <2>1 DEF Price!ChainTypeOK
  <1>8. rest \in chains' => Price!ChainTypeOK(rest)
    BY <1>1, <1>7 DEF Price!PriceTypeOK
  <1>9. notice' \in [no : 0..MaxSubmits, result : {"none", "done", "failed"}]
    BY <1>1, NoticeTyped DEF Price!PriceTypeOK
  <1>10. open' \in BOOLEAN
    <2>1. open \in BOOLEAN
      BY DEF Price!PriceTypeOK
    <2>2. CASE open' = open
      BY <2>1, <2>2
    <2>3. CASE open' = (open /\ chain.kind = "deletion")
      BY <2>3
    <2> QED BY <1>1, <2>2, <2>3
  <1>11. chains' \subseteq chains \cup {rest} /\ priceLoads' \subseteq priceLoads \cup {Price!NotRead}
    BY <1>1
  <1> QED BY <1>1, <1>3, <1>8, <1>9, <1>10, <1>11, ChainTypes

LEMMA RefusedTypes ==
  ASSUME Price!PriceTypeOK, PriceInv, PriceInv', NEW chain \in chains,
         NEW call \in Head(chain.stages), Price!Refused(chain, call)
  PROVE  Price!PriceTypeOK'
  <1> DEFINE unanswered == Head(chain.stages) \ {call}
             rest == [chain EXCEPT !.stages = <<unanswered>>, !.failed = TRUE]
  <1>1. /\ (UNCHANGED <<priceTable, lastId>>) \/ (Price!Feasible(call) /\ Price!Effect(call))
        /\ chains' = (chains \ {chain}) \cup (IF unanswered = {} THEN {} ELSE {rest})
        /\ IF chain.failed THEN UNCHANGED notice ELSE Price!Reported(chain.no, "failed")
        /\ UNCHANGED <<data, priceLoads, open, editing, priceMode, submitted>>
    BY DEF Price!Refused
  <1>2. Price!ChainTypeOK(chain) /\ IsChain(chain)
    BY DEF Price!PriceTypeOK, PriceInv
  <1>3. priceTable' \subseteq Price!PriceRows /\ \A r \in priceTable' : r.id <= lastId'
    <2>1. CASE UNCHANGED <<priceTable, lastId>>
      BY <2>1 DEF Price!PriceTypeOK
    <2>2. CASE Price!Feasible(call) /\ Price!Effect(call)
      BY <1>2, <2>2, HeadTyped, EffectTypes
    <2> QED BY <1>1, <2>1, <2>2
  <1>4. unanswered # {} => unanswered \in Price!Stages
    BY <1>2, HeadTyped
  <1>5. /\ rest.no = chain.no /\ rest.kind = chain.kind /\ rest.stale = chain.stale
        /\ rest.stages = <<unanswered>> /\ rest.failed \in BOOLEAN
    <2>1. PICK a, b, c, d, e : chain = [no |-> a, kind |-> b, stale |-> c, stages |-> d, failed |-> e]
      BY <1>2 DEF IsChain
    <2> DEFINE x == <<unanswered>>
    <2> HIDE DEF x
    <2>2. PICK t : t = TRUE
      OBVIOUS
    <2> DEFINE half == [chain EXCEPT !.stages = x]
    <2>3. [chain EXCEPT !.stages = x, !.failed = t]
          = [no |-> a, kind |-> b, stale |-> c, stages |-> x, failed |-> t]
      <3>1. half = [no |-> a, kind |-> b, stale |-> c, stages |-> x, failed |-> e]
        BY <2>1
      <3>2. [chain EXCEPT !.stages = x, !.failed = t] = [half EXCEPT !.failed = t]
        OBVIOUS
      <3> HIDE DEF half
      <3> QED BY <3>1, <3>2
    <2>4. rest = [chain EXCEPT !.stages = x, !.failed = t]
      BY <2>2 DEF x
    <2> HIDE DEF rest
    <2>5. rest.stages = x
      BY <2>3, <2>4
    <2>6. /\ rest.no = chain.no /\ rest.kind = chain.kind /\ rest.stale = chain.stale
          /\ rest.failed = t
      BY <2>1, <2>3, <2>4
    <2> QED BY <2>2, <2>5, <2>6 DEF x
  <1> HIDE DEF rest, unanswered
  <1>6. ASSUME unanswered # {} PROVE Price!ChainTypeOK(rest)
    <2>1. <<unanswered>> \in Seq(Price!Stages) /\ <<unanswered>> # <<>>
      BY <1>4, <1>6
    <2> QED BY <1>2, <1>5, <2>1 DEF Price!ChainTypeOK
  <1>7. rest \in chains' => Price!ChainTypeOK(rest)
    BY <1>1, <1>6 DEF Price!PriceTypeOK
  <1>8. notice' \in [no : 0..MaxSubmits, result : {"none", "done", "failed"}]
    BY <1>1, NoticeTyped DEF Price!PriceTypeOK
  <1>9. chains' \subseteq chains \cup {rest} /\ open' \in BOOLEAN
    BY <1>1 DEF Price!PriceTypeOK
  <1> QED BY <1>1, <1>3, <1>7, <1>8, <1>9, ChainTypes

LEMMA PriceTypesNext ==
  ASSUME Price!PriceTypeOK, PriceInv, PriceInv', Price!PriceNext \/ UNCHANGED priceVars
  PROVE  Price!PriceTypeOK'
  <1>1. CASE \/ \E l \in priceLoads : Price!LoadRead(l) \/ Price!LoadAnswered(l) \/ Price!LoadFailed(l)
             \/ \E g \in Price!GroupByModel(data) \cup {Price!NewModel} : Price!HandleOpen(g)
             \/ Price!CloseDialog
             \/ \E mode \in DOMAIN Price!ModeUnits : Price!SetMode(mode)
             \/ UNCHANGED priceVars
    BY <1>1, ReadingTypes
  <1>2. ASSUME NEW v \in PriceForms,
               Price!SubmitEdit(v) \/ \E m \in PriceModels : Price!SubmitNew(m, v)
        PROVE  Price!PriceTypeOK'
    BY <1>2, SubmitEditTypes, SubmitNewTypes
  <1>3. ASSUME NEW g \in Price!GroupByModel(data), Price!HandleDeleteModel(g)
        PROVE  Price!PriceTypeOK'
    BY <1>3, DeleteModelTypes
  <1>4. ASSUME NEW chain \in chains, NEW call \in Head(chain.stages),
               Price!Answered(chain, call) \/ Price!Refused(chain, call)
        PROVE  Price!PriceTypeOK'
    BY <1>4, AnsweredTypes, RefusedTypes
  <1> QED BY <1>1, <1>2, <1>3, <1>4 DEF Price!PriceNext

-----------------------------------------------------------------------------
(* Types: GroupsPage. *)

\* The types of the calls and of what the server keeps.
CallsTyped == \A c \in groupCalls : Group!CallTypeOK(c)
HasTyped == DOMAIN has = Group!Dialogs
            /\ \A d \in Group!Dialogs : has[d] \in [Groups -> SUBSET Group!Items[d]]

LEMMA GroupsTypeInit == Group!GroupsInit => Group!GroupsTypeOK
  <1> SUFFICES ASSUME Group!GroupsInit PROVE Group!GroupsTypeOK
    OBVIOUS
  <1>1. Group!NoGroups \in Group!Tables /\ groupTable \in Group!Tables
    BY FirstHasAssumption DEF Group!GroupsInit, Group!NoGroups, Group!Tables
  <1>2. DOMAIN has = Group!Dialogs
        /\ \A d \in Group!Dialogs : has[d] \in [Groups -> SUBSET Group!Items[d]]
    BY FirstHasAssumption DEF Group!GroupsInit
  <1>3. ASSUME NEW d \in Group!Dialogs PROVE Group!DialogTypeOK(d, dialogs[d])
    <2>1. Group!FirstEntry(d) \in Group!Entries[d]
      BY DEF Group!FirstEntry, Group!Entries, Group!Dialogs
    <2>2. dialogs[d] = [open |-> FALSE, group |-> Group!Absent, rows |-> {}, spins |-> FALSE,
                        adding |-> FALSE, entry |-> Group!FirstEntry(d)]
      BY DEF Group!GroupsInit
    <2> QED BY <2>1, <2>2 DEF Group!DialogTypeOK
  <1>4. ASSUME NEW c \in groupCalls PROVE Group!CallTypeOK(c)
    <2>1. c.step = "list" /\ c.dialog = "page" /\ c.item = Group!Absent
          /\ c.table = Group!NoGroups
      BY DEF Group!GroupsInit
    <2>2. "page" \notin Group!Dialogs
      BY DEF Group!Dialogs
    <2> QED BY <1>1, <2>1, <2>2 DEF Group!CallTypeOK
  <1>5. 0 \in 0..MaxGroupCalls
    BY MaxAssumption
  <1> QED BY <1>1, <1>2, <1>3, <1>4, <1>5 DEF Group!GroupsInit, Group!GroupsTypeOK

\* A call that is sent.
LEMMA NewCallTyped ==
  ASSUME NEW step, NEW d, NEW g, NEW item,
         \/ /\ d \in Group!Dialogs /\ g \in Groups
            /\ step = "add" => item \in Group!Entries[d] \ {Group!Blank}
         \/ /\ d = "page" /\ step \in {"list", "create", "update", "delete"}
            /\ item \in Settings \cup {Group!Absent}
  PROVE  Group!CallTypeOK(Group!Call(step, d, g, item))
  <1>1. Group!NoGroups \in Group!Tables
    BY DEF Group!NoGroups, Group!Tables
  <1>2. "page" \notin Group!Dialogs
    BY DEF Group!Dialogs
  <1> DEFINE c == Group!Call(step, d, g, item)
  <1>3. /\ c.step = step /\ c.dialog = d /\ c.group = g /\ c.item = item /\ c.rows = {}
        /\ c.table = Group!NoGroups
    BY DEF Group!Call
  <1> HIDE DEF c
  <1>4. Group!CallTypeOK(c)
    BY <1>1, <1>2, <1>3 DEF Group!CallTypeOK
  <1> QED BY <1>4 DEF c

LEMMA SendTypes ==
  ASSUME Group!GroupsTypeOK, NEW c, Group!CallTypeOK(c), Group!Send(c)
  PROVE  groupSent' \in 0..MaxGroupCalls /\ CallsTyped'
  <1>1. groupSent \in 0..MaxGroupCalls /\ CallsTyped
    BY DEF Group!GroupsTypeOK, CallsTyped
  <1>2. groupSent' \in 0..MaxGroupCalls
    BY <1>1, MaxAssumption DEF Group!Send
  <1>3. groupCalls' = groupCalls \cup {c}
    BY DEF Group!Send
  <1> QED BY <1>1, <1>2, <1>3 DEF CallsTyped

\* One dialog changes, and the calls.
LEMMA DialogTypes ==
  ASSUME Group!GroupsTypeOK, GroupInv', NEW d \in Group!Dialogs,
         Group!DialogTypeOK(d, dialogs'[d]),
         \A e \in Group!Dialogs : e # d => dialogs'[e] = dialogs[e],
         CallsTyped', groupSent' \in 0..MaxGroupCalls, allChannels' \subseteq GroupChannels,
         UNCHANGED <<groupTable, has, groupList, groupForm>>
  PROVE  Group!GroupsTypeOK'
  <1>1. \A e \in Group!Dialogs : Group!DialogTypeOK(e, dialogs'[e])
    BY DEF Group!GroupsTypeOK
  <1>2. spinning' \in BOOLEAN
    BY DEF GroupInv
  <1>3. \A c \in groupCalls' : Group!CallTypeOK(c)
    BY DEF CallsTyped
  <1> QED BY <1>1, <1>2, <1>3 DEF Group!GroupsTypeOK

LEMMA DialogIs ==
  ASSUME Group!GroupsTypeOK, GroupInv, NEW d \in Group!Dialogs
  PROVE  /\ IsDialog(dialogs[d]) /\ Group!DialogTypeOK(d, dialogs[d])
         /\ dialogs = [e \in Group!Dialogs |-> dialogs[e]]
         /\ Group!FirstEntry(d) \in Group!Entries[d]
         /\ CallsTyped /\ groupSent \in 0..MaxGroupCalls /\ allChannels \subseteq GroupChannels
  <1>1. Group!FirstEntry(d) \in Group!Entries[d]
    BY DEF Group!FirstEntry, Group!Entries, Group!Dialogs
  <1> QED BY <1>1 DEF GroupInv, Group!GroupsTypeOK, CallsTyped

LEMMA UserTypes ==
  ASSUME Group!GroupsTypeOK, GroupInv, GroupInv', NEW d \in Group!Dialogs, NEW g \in Groups,
         Group!OpenDialog(d, g) \/ Group!Add(d) \/ (\E i : Group!Remove(d, i)) \/ Group!CloseDialog(d)
  PROVE  Group!GroupsTypeOK'
  <1>0. UNCHANGED <<groupTable, has, groupList, groupForm, allChannels>>
    BY DEF Group!OpenDialog, Group!Add, Group!Remove, Group!CloseDialog
  <1>a. /\ IsDialog(dialogs[d]) /\ Group!DialogTypeOK(d, dialogs[d])
        /\ dialogs = [e \in Group!Dialogs |-> dialogs[e]]
    BY DialogIs
  <1>1. CASE Group!CloseDialog(d)
    <2>0. dialogs' = [dialogs EXCEPT ![d].open = FALSE]
      BY <1>1 DEF Group!CloseDialog
    <2>1. /\ Group!DialogTypeOK(d, dialogs'[d])
          /\ \A e \in Group!Dialogs : e # d => dialogs'[e] = dialogs[e]
      <3>1. /\ dialogs'[d].open = FALSE /\ dialogs'[d].group = dialogs[d].group
            /\ dialogs'[d].rows = dialogs[d].rows /\ dialogs'[d].entry = dialogs[d].entry
            /\ \A e \in Group!Dialogs : e # d => dialogs'[e] = dialogs[e]
        BY <1>a, <2>0 DEF IsDialog
      <3> QED BY <1>a, <3>1 DEF Group!DialogTypeOK
    <2>2. CallsTyped' /\ groupSent' = groupSent
      BY <1>1, DialogIs DEF Group!CloseDialog, CallsTyped
    <2> QED BY <1>0, <2>1, <2>2, DialogIs, DialogTypes
  <1>2. CASE Group!OpenDialog(d, g)
    <2>1. dialogs' = [dialogs EXCEPT ![d].open = TRUE, ![d].group = g, ![d].spins = TRUE,
                                     ![d].entry = Group!FirstEntry(d)]
      BY <1>2 DEF Group!OpenDialog
    <2>2. /\ dialogs'[d].open = TRUE /\ dialogs'[d].group = g
          /\ dialogs'[d].rows = dialogs[d].rows /\ dialogs'[d].entry = Group!FirstEntry(d)
          /\ \A e \in Group!Dialogs : e # d => dialogs'[e] = dialogs[e]
      BY <1>a, <2>1 DEF IsDialog
    <2>3. Group!DialogTypeOK(d, dialogs'[d])
      BY <1>a, <2>2, DialogIs DEF Group!DialogTypeOK
    <2>4. Group!CallTypeOK(Group!Call("load", d, g, Group!Absent))
      BY NewCallTyped
    <2>5. groupSent' \in 0..MaxGroupCalls /\ CallsTyped'
      BY <1>2, <2>4, SendTypes DEF Group!OpenDialog
    <2> QED BY <1>0, <2>2, <2>3, <2>5, DialogIs, DialogTypes
  <1>3. CASE Group!Add(d)
    <2>0. dialogs' = [dialogs EXCEPT ![d].adding = TRUE]
      BY <1>3 DEF Group!Add
    <2>1. /\ Group!DialogTypeOK(d, dialogs'[d])
          /\ \A e \in Group!Dialogs : e # d => dialogs'[e] = dialogs[e]
      <3>1. /\ dialogs'[d].open = dialogs[d].open /\ dialogs'[d].group = dialogs[d].group
            /\ dialogs'[d].rows = dialogs[d].rows /\ dialogs'[d].entry = dialogs[d].entry
            /\ \A e \in Group!Dialogs : e # d => dialogs'[e] = dialogs[e]
        BY <1>a, <2>0 DEF IsDialog
      <3> QED BY <1>a, <3>1 DEF Group!DialogTypeOK
    <2>2. dialogs[d].group \in Groups /\ dialogs[d].entry \in Group!Entries[d] \ {Group!Blank}
      BY <1>3, DialogIs DEF Group!Add, Group!DialogTypeOK
    <2>3. Group!CallTypeOK(Group!Call("add", d, dialogs[d].group, dialogs[d].entry))
      BY <2>2, NewCallTyped
    <2>4. groupSent' \in 0..MaxGroupCalls /\ CallsTyped'
      BY <1>3, <2>3, SendTypes DEF Group!Add
    <2> QED BY <1>0, <2>1, <2>4, DialogIs, DialogTypes
  <1>4. ASSUME NEW i, Group!Remove(d, i) PROVE Group!GroupsTypeOK'
    <2>1. dialogs' = dialogs /\ dialogs[d].group \in Groups
      BY <1>4, DialogIs DEF Group!Remove, Group!DialogTypeOK
    <2>2. Group!CallTypeOK(Group!Call("delete", d, dialogs[d].group, i))
      BY <2>1, NewCallTyped
    <2>3. groupSent' \in 0..MaxGroupCalls /\ CallsTyped'
      BY <1>4, <2>2, SendTypes DEF Group!Remove
    <2> QED BY <1>0, <2>1, <2>3, DialogIs, DialogTypes
  <1> QED BY <1>1, <1>2, <1>3, <1>4

LEMMA AnswerTypes ==
  ASSUME Group!GroupsTypeOK, GroupInv, GroupInv', NEW d \in Group!Dialogs, NEW c \in groupCalls,
         Group!Added(d, c) \/ Group!Removed(d, c) \/ Group!Loaded(d, c)
  PROVE  Group!GroupsTypeOK'
  <1>0. c.group \in Groups /\ c.rows \subseteq Group!Items[d]
    BY DialogIs DEF CallsTyped, Group!CallTypeOK, Group!Added, Group!Removed, Group!Loaded
  <1>a. /\ IsDialog(dialogs[d]) /\ Group!DialogTypeOK(d, dialogs[d])
        /\ dialogs = [e \in Group!Dialogs |-> dialogs[e]]
    BY DialogIs
  <1>1. CASE Group!Loaded(d, c)
    <2>1. dialogs' = [dialogs EXCEPT ![d].rows = c.rows, ![d].spins = FALSE]
      BY <1>1 DEF Group!Loaded
    <2>2. /\ Group!DialogTypeOK(d, dialogs'[d])
          /\ \A e \in Group!Dialogs : e # d => dialogs'[e] = dialogs[e]
      <3>1. /\ dialogs'[d].open = dialogs[d].open /\ dialogs'[d].group = dialogs[d].group
            /\ dialogs'[d].rows = c.rows /\ dialogs'[d].entry = dialogs[d].entry
            /\ \A e \in Group!Dialogs : e # d => dialogs'[e] = dialogs[e]
        BY <1>a, <2>1 DEF IsDialog
      <3> QED BY <1>0, <1>a, <3>1 DEF Group!DialogTypeOK
    <2>3. CallsTyped'
      BY <1>1, DialogIs DEF Group!Loaded, CallsTyped
    <2>4. /\ UNCHANGED <<groupTable, has, groupList, groupForm, groupSent>>
          /\ allChannels' \subseteq GroupChannels
      BY <1>1, DialogIs DEF Group!Loaded
    <2> QED BY <2>2, <2>3, <2>4, DialogIs, DialogTypes
  <1>2. ASSUME NEW D, Group!ThenLoad(c, d, D), IsDialog(D), Group!DialogTypeOK(d, D)
        PROVE  Group!GroupsTypeOK'
    <2>1. dialogs' = [dialogs EXCEPT ![d] = [D EXCEPT !.spins = TRUE]]
      BY <1>2 DEF Group!ThenLoad
    <2>2. Group!DialogTypeOK(d, [D EXCEPT !.spins = TRUE])
      BY <1>2 DEF IsDialog, Group!DialogTypeOK
    <2>3. /\ dialogs'[d] = [D EXCEPT !.spins = TRUE]
          /\ \A e \in Group!Dialogs : e # d => dialogs'[e] = dialogs[e]
      BY <2>1, DialogIs
    <2>4. Group!CallTypeOK(Group!Call("load", d, c.group, Group!Absent))
      BY <1>0, NewCallTyped
    <2>5. CallsTyped'
      BY <1>2, <2>4, DialogIs DEF Group!ThenLoad, CallsTyped
    <2>6. UNCHANGED <<groupTable, has, groupList, groupForm, allChannels, groupSent>>
      BY <1>2 DEF Group!ThenLoad
    <2> QED BY <2>2, <2>3, <2>5, <2>6, DialogIs, DialogTypes
  <1>3. CASE Group!Added(d, c)
    <2> DEFINE D == [dialogs[d] EXCEPT !.adding = FALSE, !.entry = Group!FirstEntry(d)]
    <2>1. Group!ThenLoad(c, d, D)
      BY <1>3 DEF Group!Added
    <2>2. IsDialog(D)
      <3>1. FALSE \in BOOLEAN
        OBVIOUS
      <3> QED BY <3>1, DialogIs, Unlocked, Zenon
    <2>3. Group!DialogTypeOK(d, D)
      <3>1. D.open = dialogs[d].open /\ D.group = dialogs[d].group /\ D.rows = dialogs[d].rows
            /\ D.entry = Group!FirstEntry(d)
        BY DialogIs DEF IsDialog
      <3> HIDE DEF D
      <3> QED BY <3>1, DialogIs DEF Group!DialogTypeOK
    <2> HIDE DEF D
    <2> QED BY <2>1, <2>2, <2>3, <1>2
  <1>4. CASE Group!Removed(d, c)
    BY <1>2, <1>4, DialogIs DEF Group!Removed
  <1> QED BY <1>1, <1>3, <1>4

LEMMA ChannelDialogTypes ==
  ASSUME Group!GroupsTypeOK, GroupInv, GroupInv', NEW c \in groupCalls,
         Group!ChannelAdded(c) \/ Group!ChannelsReloaded(c) \/ Group!ChannelRemoved(c)
  PROVE  Group!GroupsTypeOK'
  <1> DEFINE d == "groupChannels"
  <1>0. /\ d \in Group!Dialogs /\ c.dialog = d
        /\ UNCHANGED <<groupTable, has, groupList, groupForm, allChannels, groupSent>>
    BY DEF GroupInv, IsCall, Group!Dialogs, Group!ChannelAdded, Group!ChannelsReloaded,
           Group!ChannelRemoved
  <1>1. Group!Blank \in Group!Entries[d]
    BY DEF Group!Entries
  <1>2. dialogs' = [dialogs EXCEPT ![d].entry = Group!Blank]
        \/ dialogs' = [dialogs EXCEPT ![d].rows = c.rows, ![d].adding = FALSE]
        \/ dialogs' = [dialogs EXCEPT ![d].rows = @ \ {c.item}]
    BY DEF Group!ChannelAdded, Group!ChannelsReloaded, Group!ChannelRemoved
  <1>3. groupCalls' = groupCalls \ {c}
        \/ groupCalls' = (groupCalls \ {c}) \cup {Group!Call("reload", d, c.group, Group!Absent)}
    BY DEF Group!ChannelAdded, Group!ChannelsReloaded, Group!ChannelRemoved
  <1> HIDE DEF d
  <1>4. c.group \in Groups /\ c.rows \subseteq Group!Items[d]
    BY <1>0, DialogIs DEF CallsTyped, Group!CallTypeOK
  <1>5. Group!CallTypeOK(Group!Call("reload", d, c.group, Group!Absent))
    BY <1>0, <1>4, NewCallTyped
  <1>6. CallsTyped'
    BY <1>0, <1>3, <1>5, DialogIs DEF CallsTyped
  <1>7. Group!DialogTypeOK(d, dialogs'[d])
    <2>1. /\ IsDialog(dialogs[d]) /\ Group!DialogTypeOK(d, dialogs[d])
          /\ dialogs = [e \in Group!Dialogs |-> dialogs[e]]
      BY <1>0, DialogIs
    <2>2. /\ dialogs'[d].open = dialogs[d].open /\ dialogs'[d].group = dialogs[d].group
          /\ dialogs'[d].rows \in {c.rows, dialogs[d].rows, dialogs[d].rows \ {c.item}}
          /\ dialogs'[d].entry \in {dialogs[d].entry, Group!Blank}
      BY <1>0, <1>2, <2>1 DEF IsDialog
    <2> QED BY <1>1, <1>4, <2>1, <2>2 DEF Group!DialogTypeOK
  <1>8. \A e \in Group!Dialogs : e # d => dialogs'[e] = dialogs[e]
    BY <1>0, <1>2, DialogIs
  <1> QED BY <1>0, <1>6, <1>7, <1>8, DialogIs, DialogTypes

LEMMA FailedTypes ==
  ASSUME Group!GroupsTypeOK, GroupInv, GroupInv', NEW c \in groupCalls, Group!CallFailed(c)
  PROVE  Group!GroupsTypeOK'
  <1>1. ASSUME NEW d \in Group!Dialogs PROVE Group!DialogTypeOK(d, dialogs'[d])
    <2>1. /\ dialogs'[d].open = dialogs[d].open /\ dialogs'[d].group = dialogs[d].group
          /\ dialogs'[d].rows = dialogs[d].rows /\ dialogs'[d].entry = dialogs[d].entry
      <3>1. IsDialog(dialogs[d])
        BY DialogIs
      <3>2. dialogs'[d] = dialogs[d] \/ \E a, b : dialogs'[d] = [dialogs[d] EXCEPT !.spins = a, !.adding = b]
        BY DEF Group!CallFailed
      <3> QED BY <3>1, <3>2 DEF IsDialog
    <2> QED BY <2>1, DialogIs DEF Group!DialogTypeOK
  <1>2. /\ groupCalls' \subseteq groupCalls
        /\ UNCHANGED <<groupTable, has, groupList, groupForm, allChannels, groupSent>>
    BY DEF Group!CallFailed
  <1>3. spinning' \in BOOLEAN
    BY DEF GroupInv
  <1> QED BY <1>1, <1>2, <1>3 DEF Group!GroupsTypeOK

\* What is not in a dialog.
LEMMA OutsideTypes ==
  ASSUME Group!GroupsTypeOK, GroupInv', dialogs' = dialogs, CallsTyped', HasTyped',
         groupTable' \in Group!Tables, groupList' \in Group!Tables,
         groupForm' \in {Group!NoForm} \cup
           [of : Groups \cup {Group!NewGroup}, name : Groups \cup {Group!Blank}, setting : Settings],
         allChannels' = allChannels, groupSent' \in 0..MaxGroupCalls
  PROVE  Group!GroupsTypeOK'
  <1>1. spinning' \in BOOLEAN
    BY DEF GroupInv
  <1>2. \A c \in groupCalls' : Group!CallTypeOK(c)
    BY DEF CallsTyped
  <1> QED BY <1>1, <1>2 DEF Group!GroupsTypeOK, HasTyped

LEMMA PageTypes ==
  ASSUME Group!GroupsTypeOK, GroupInv', NEW c \in groupCalls,
         Group!Submitted(c) \/ Group!Deleted(c) \/ Group!ListLoaded(c)
  PROVE  Group!GroupsTypeOK'
  <1>1. c.table \in Group!Tables /\ CallsTyped
    BY DEF Group!GroupsTypeOK, Group!CallTypeOK, CallsTyped
  <1>2. Group!CallTypeOK(Group!Call("list", "page", Group!Absent, Group!Absent))
    BY NewCallTyped
  <1>3. CallsTyped'
    BY <1>1, <1>2 DEF CallsTyped, Group!Submitted, Group!Deleted, Group!ListLoaded,
                      Group!ThenFetchData, Group!PageCall
  <1>4. /\ UNCHANGED <<groupTable, has, dialogs, allChannels, groupSent>>
        /\ groupForm' \in {groupForm, Group!NoForm} /\ groupList' \in {groupList, c.table}
    BY DEF Group!Submitted, Group!Deleted, Group!ListLoaded, Group!ThenFetchData
  <1> QED BY <1>1, <1>3, <1>4, OutsideTypes DEF Group!GroupsTypeOK, HasTyped

LEMMA FormTypes ==
  ASSUME Group!GroupsTypeOK, GroupInv', NEW g, Group!HandleSubmit \/ Group!HandleDelete(g)
  PROVE  Group!GroupsTypeOK'
  <1>1. PICK step, h, i : /\ step \in {"create", "update", "delete"}
                          /\ i \in Settings \cup {Group!Absent}
                          /\ Group!Send(Group!Call(step, "page", h, i))
    <2>1. CASE Group!HandleSubmit
      <3>1. groupForm.setting \in Settings
        BY <2>1 DEF Group!HandleSubmit, Group!GroupsTypeOK
      <3> QED BY <2>1, <3>1 DEF Group!HandleSubmit, Group!PageCall
    <2>2. CASE Group!HandleDelete(g)
      BY <2>2 DEF Group!HandleDelete, Group!PageCall
    <2> QED BY <2>1, <2>2
  <1>2. Group!CallTypeOK(Group!Call(step, "page", h, i))
    BY <1>1, NewCallTyped
  <1>3. groupSent' \in 0..MaxGroupCalls /\ CallsTyped'
    BY <1>1, <1>2, SendTypes
  <1>4. UNCHANGED <<groupTable, has, groupList, groupForm, dialogs, allChannels>>
    BY DEF Group!HandleSubmit, Group!HandleDelete
  <1> QED BY <1>3, <1>4, OutsideTypes DEF Group!GroupsTypeOK, HasTyped

\* The form of a group is opened, filled in or closed.
LEMMA FormStaysTyped ==
  ASSUME Group!GroupsTypeOK, GroupInv',
         groupForm' \in {Group!NoForm} \cup
           [of : Groups \cup {Group!NewGroup}, name : Groups \cup {Group!Blank}, setting : Settings],
         UNCHANGED <<groupTable, has, groupList, dialogs, allChannels, groupCalls, groupSent>>
  PROVE  Group!GroupsTypeOK'
  <1>1. CallsTyped'
    BY DEF Group!GroupsTypeOK, CallsTyped
  <1> QED BY <1>1, OutsideTypes DEF Group!GroupsTypeOK, HasTyped

LEMMA OpenNewTypes ==
  ASSUME Group!GroupsTypeOK, GroupInv', Group!HandleOpen(Group!NewGroup)
  PROVE  Group!GroupsTypeOK'
  <1>1. groupForm' = [of |-> Group!NewGroup, name |-> Group!Blank, setting |-> FirstSetting]
    BY DEF Group!HandleOpen
  <1>2. UNCHANGED <<groupTable, has, groupList, dialogs, allChannels, groupCalls, groupSent>>
    BY DEF Group!HandleOpen
  <1> QED BY <1>1, <1>2, FirstHasAssumption, FormStaysTyped

LEMMA OpenListedTypes ==
  ASSUME Group!GroupsTypeOK, GroupInv', NEW g \in Groups, groupList[g] # Group!Absent,
         Group!HandleOpen(g)
  PROVE  Group!GroupsTypeOK'
  <1>1. CASE g = Group!NewGroup
    BY <1>1, OpenNewTypes
  <1>2. CASE g # Group!NewGroup
    <2>1. groupForm' = [of |-> g, name |-> g, setting |-> groupList[g]]
      BY <1>2 DEF Group!HandleOpen
    <2>2. groupList[g] \in Settings
      BY DEF Group!GroupsTypeOK, Group!Tables
    <2>3. UNCHANGED <<groupTable, has, groupList, dialogs, allChannels, groupCalls, groupSent>>
      BY DEF Group!HandleOpen
    <2> QED BY <2>1, <2>2, <2>3, FormStaysTyped
  <1> QED BY <1>1, <1>2

LEMMA FillFormTypes ==
  ASSUME Group!GroupsTypeOK, GroupInv', NEW n \in Groups, NEW s \in Settings, Group!FillForm(n, s)
  PROVE  Group!GroupsTypeOK'
  <1>1. groupForm \in [of : Groups \cup {Group!NewGroup}, name : Groups \cup {Group!Blank},
                       setting : Settings]
    BY DEF Group!FillForm, Group!GroupsTypeOK
  <1>2. groupForm' \in [of : Groups \cup {Group!NewGroup}, name : Groups \cup {Group!Blank},
                        setting : Settings]
    BY <1>1 DEF Group!FillForm
  <1>3. UNCHANGED <<groupTable, has, groupList, dialogs, allChannels, groupCalls, groupSent>>
    BY DEF Group!FillForm
  <1> QED BY <1>2, <1>3, FormStaysTyped

LEMMA CloseFormTypes ==
  ASSUME Group!GroupsTypeOK, GroupInv', Group!CloseForm
  PROVE  Group!GroupsTypeOK'
  BY FormStaysTyped DEF Group!CloseForm

\* What is typed or picked in a dialog.
LEMMA EntryTypes ==
  ASSUME Group!GroupsTypeOK, GroupInv, GroupInv', NEW e,
         \/ Group!TypePrice(e) /\ e \in {Group!Blank, Group!Filled}
         \/ Group!PickChannel(e) /\ e \in GroupChannels \cup {Group!Blank}
  PROVE  Group!GroupsTypeOK'
  <1>1. PICK d \in Group!Dialogs : /\ dialogs' = [dialogs EXCEPT ![d].entry = e]
                                   /\ e \in Group!Entries[d]
    BY DEF Group!TypePrice, Group!PickChannel, Group!Dialogs, Group!Entries
  <1>2. UNCHANGED <<groupTable, has, groupList, groupForm, allChannels, groupCalls, groupSent>>
    BY DEF Group!TypePrice, Group!PickChannel
  <1>3. /\ Group!DialogTypeOK(d, dialogs'[d])
        /\ \A x \in Group!Dialogs : x # d => dialogs'[x] = dialogs[x]
    <2>1. /\ IsDialog(dialogs[d]) /\ Group!DialogTypeOK(d, dialogs[d])
          /\ dialogs = [x \in Group!Dialogs |-> dialogs[x]]
      BY DialogIs
    <2>2. /\ dialogs'[d].open = dialogs[d].open /\ dialogs'[d].group = dialogs[d].group
          /\ dialogs'[d].rows = dialogs[d].rows /\ dialogs'[d].entry = e
          /\ \A x \in Group!Dialogs : x # d => dialogs'[x] = dialogs[x]
      BY <1>1, <2>1 DEF IsDialog
    <2> QED BY <1>1, <2>1, <2>2 DEF Group!DialogTypeOK
  <1>4. CallsTyped'
    BY <1>2, DialogIs DEF CallsTyped
  <1> QED BY <1>2, <1>3, <1>4, DialogIs, DialogTypes

\* The server answers: the call keeps its type, and so do the tables.
LEMMA ReplyTypes ==
  ASSUME Group!GroupsTypeOK, GroupInv', NEW e, NEW s, NEW t \in Group!Tables, NEW h,
         IsCall(e), Group!CallTypeOK(e), Group!Reply(e, s, t, h), HasTyped'
  PROVE  Group!GroupsTypeOK'
  <1>1. Group!CallTypeOK([e EXCEPT !.status = s])
    <2> DEFINE f == [e EXCEPT !.status = s]
    <2>1. /\ f.step = e.step /\ f.dialog = e.dialog /\ f.group = e.group /\ f.item = e.item
          /\ f.rows = e.rows /\ f.table = e.table
      BY DEF IsCall
    <2> HIDE DEF f
    <2>2. Group!CallTypeOK(f)
      BY <2>1 DEF Group!CallTypeOK
    <2> QED BY <2>2 DEF f
  <1>2. CallsTyped
    BY DEF Group!GroupsTypeOK, CallsTyped
  <1>3. CallsTyped'
    BY <1>1, <1>2 DEF Group!Reply, CallsTyped
  <1>4. UNCHANGED <<groupList, groupForm, dialogs, allChannels, groupSent>> /\ groupTable' = t
    BY DEF Group!Reply
  <1> QED BY <1>3, <1>4, OutsideTypes DEF Group!GroupsTypeOK

\* The rows of one group change, to some that there may be.
LEMMA OwnedTyped ==
  ASSUME HasTyped, NEW d \in Group!Dialogs, NEW g, NEW S, S \subseteq Group!Items[d],
         has' = [has EXCEPT ![d][g] = S]
  PROVE  HasTyped'
  <1>1. /\ DOMAIN has' = Group!Dialogs /\ \A e \in Group!Dialogs : e # d => has'[e] = has[e]
        /\ has'[d] = [has[d] EXCEPT ![g] = S]
    BY DEF HasTyped
  <1>2. has[d] \in [Groups -> SUBSET Group!Items[d]]
    BY DEF HasTyped
  <1>3. has'[d] \in [Groups -> SUBSET Group!Items[d]]
    BY <1>1, <1>2
  <1> QED BY <1>1, <1>3 DEF HasTyped

LEMMA ServeTypesOfGroups ==
  ASSUME Group!GroupsTypeOK, GroupInv, GroupInv', NEW c \in groupCalls,
         \/ Group!ServeList(c) \/ Group!ServeRows(c) \/ Group!ServeGroup(c) \/ Group!ServeRow(c)
         \/ Group!AddChannelToGroup(c) \/ Group!RemoveChannelFromGroup(c) \/ Group!Lose(c)
  PROVE  Group!GroupsTypeOK'
  <1>0. /\ IsCall(c) /\ Group!CallTypeOK(c) /\ groupTable \in Group!Tables /\ HasTyped
        /\ (has' = has => HasTyped')
    BY DEF GroupInv, Group!GroupsTypeOK, HasTyped
  <1>1. ASSUME NEW s, Group!Reply(c, s, groupTable, has) PROVE Group!GroupsTypeOK'
    <2>1. HasTyped'
      BY <1>0, <1>1 DEF Group!Reply
    <2> QED BY <1>0, <1>1, <2>1, ReplyTypes
  <1>2. CASE Group!ServeList(c)
    <2> DEFINE e == [c EXCEPT !.table = groupTable]
    <2>1. /\ IsCall(e) /\ e.step = c.step /\ e.dialog = c.dialog /\ e.group = c.group
          /\ e.item = c.item /\ e.rows = c.rows /\ e.table = groupTable
      BY <1>0 DEF IsCall
    <2>2. Group!Reply(e, "ok", groupTable, has)
      BY <1>2 DEF Group!ServeList
    <2> HIDE DEF e
    <2>3. Group!CallTypeOK(e) /\ HasTyped'
      BY <1>0, <2>1, <2>2 DEF Group!CallTypeOK, Group!Reply
    <2> QED BY <1>0, <2>1, <2>2, <2>3, ReplyTypes
  <1>3. CASE Group!ServeRows(c)
    <2>1. PICK rows1 \in {has[c.dialog][c.group]}
                 \cup (IF c.dialog = "groupPrices" THEN {UNION {has["groupPrices"][g] : g \in Groups}} ELSE {}) :
            Group!Reply([c EXCEPT !.rows = rows1], "ok", groupTable, has)
      BY <1>3 DEF Group!ServeRows
    <2>2. c.dialog \in Group!Dialogs /\ c.group \in Groups
      BY <1>0, <1>3 DEF Group!ServeRows, IsCall, Group!CallTypeOK, Group!Dialogs
    <2>3. rows1 \subseteq Group!Items[c.dialog]
      <3>1. has[c.dialog] \in [Groups -> SUBSET Group!Items[c.dialog]]
        BY <1>0, <2>2 DEF HasTyped
      <3>2. CASE rows1 = has[c.dialog][c.group]
        BY <2>2, <3>1, <3>2
      <3>3. CASE c.dialog = "groupPrices" /\ rows1 = UNION {has["groupPrices"][g] : g \in Groups}
        BY <3>1, <3>3
      <3> QED BY <2>1, <3>2, <3>3
    <2> DEFINE e == [c EXCEPT !.rows = rows1]
    <2>4. /\ IsCall(e) /\ e.step = c.step /\ e.dialog = c.dialog /\ e.group = c.group
          /\ e.item = c.item /\ e.rows = rows1 /\ e.table = c.table
      BY <1>0 DEF IsCall
    <2>5. Group!Reply(e, "ok", groupTable, has)
      BY <2>1
    <2> HIDE DEF e
    <2>6. Group!CallTypeOK(e) /\ HasTyped'
      BY <1>0, <2>3, <2>4, <2>5 DEF Group!CallTypeOK, Group!Reply
    <2> QED BY <1>0, <2>4, <2>5, <2>6, ReplyTypes
  <1>4. CASE Group!ServeGroup(c)
    <2>1. c.item \in Settings \cup {Group!Absent}
      BY <1>0, <1>4 DEF Group!ServeGroup, Group!CallTypeOK
    <2>2. [groupTable EXCEPT ![c.group] = c.item] \in Group!Tables
      BY <1>0, <2>1 DEF Group!Tables
    <2>3. ASSUME Group!Reply(c, "ok", [groupTable EXCEPT ![c.group] = c.item], has)
          PROVE  Group!GroupsTypeOK'
      <3>1. HasTyped'
        BY <1>0, <2>3 DEF Group!Reply
      <3> QED BY <1>0, <2>2, <2>3, <3>1, ReplyTypes
    <2> QED BY <1>1, <1>4, <2>3 DEF Group!ServeGroup
  <1>5. CASE Group!Lose(c)
    BY <1>1, <1>5 DEF Group!Lose
  <1>6. ASSUME NEW h, HasTyped', Group!Reply(c, "ok", groupTable, h) PROVE Group!GroupsTypeOK'
    BY <1>0, <1>6, ReplyTypes
  <1>7. CASE Group!ServeRow(c)
    <2> DEFINE d == c.dialog
               taken == UNION {has[d][g] : g \in Groups}
    <2>1. d \in Group!Dialogs /\ d \in {"rules", "groupPrices"} /\ c.group \in Groups
      BY <1>0, <1>7 DEF Group!ServeRow, Group!CallTypeOK, Group!Dialogs
    <2>2. has[d] \in [Groups -> SUBSET Group!Items[d]]
      BY <1>0, <2>1 DEF HasTyped
    <2>3. ASSUME NEW id \in Group!Items[d],
                 Group!Reply(c, "ok", groupTable, [has EXCEPT ![d][c.group] = @ \cup {id}])
          PROVE  Group!GroupsTypeOK'
      <3>1. has' = [has EXCEPT ![d][c.group] = has[d][c.group] \cup {id}]
        BY <2>3 DEF Group!Reply
      <3>2. has[d][c.group] \cup {id} \subseteq Group!Items[d]
        BY <2>1, <2>2
      <3>3. HasTyped'
        BY <1>0, <2>1, <3>1, <3>2, OwnedTyped
      <3> QED BY <1>6, <2>3, <3>3
    <2>4. ASSUME Group!Reply(c, "ok", groupTable,
                             [has EXCEPT ![d] = [g \in Groups |-> has[d][g] \ {c.item}]])
          PROVE  Group!GroupsTypeOK'
      <3>1. has' = [has EXCEPT ![d] = [g \in Groups |-> has[d][g] \ {c.item}]]
        BY <2>4 DEF Group!Reply
      <3>2. [g \in Groups |-> has[d][g] \ {c.item}] \in [Groups -> SUBSET Group!Items[d]]
        BY <2>2
      <3>3. HasTyped'
        BY <1>0, <2>1, <3>1, <3>2 DEF HasTyped
      <3> QED BY <1>6, <2>4, <3>3
    <2> HIDE DEF d, taken
    <2>5. \/ \E id \in Group!Items[d] :
               Group!Reply(c, "ok", groupTable, [has EXCEPT ![d][c.group] = @ \cup {id}])
          \/ Group!Reply(c, "ok", groupTable,
                         [has EXCEPT ![d] = [g \in Groups |-> has[d][g] \ {c.item}]])
          \/ Group!Reply(c, "error", groupTable, has)
      BY <1>7 DEF Group!ServeRow, d
    <2> QED BY <1>1, <2>3, <2>4, <2>5
  <1>8. CASE Group!AddChannelToGroup(c) \/ Group!RemoveChannelFromGroup(c)
    <2> DEFINE d == "groupChannels"
    <2>1. /\ d \in Group!Dialogs /\ c.group \in Groups
          /\ c.step = "add" => c.item \in Group!Items[d]
      BY <1>0, <1>8 DEF Group!AddChannelToGroup, Group!RemoveChannelFromGroup, Group!CallTypeOK,
                        Group!Dialogs, Group!Items, Group!Entries
    <2> HIDE DEF d
    <2>2. has[d][c.group] \subseteq Group!Items[d]
      BY <1>0, <2>1 DEF HasTyped
    <2>3. CASE Group!AddChannelToGroup(c)
      <3>1. ASSUME Group!Reply(c, "ok", groupTable, [has EXCEPT ![d][c.group] = @ \cup {c.item}])
            PROVE  Group!GroupsTypeOK'
        <4>1. has' = [has EXCEPT ![d][c.group] = has[d][c.group] \cup {c.item}]
          BY <3>1 DEF Group!Reply
        <4>2. has[d][c.group] \cup {c.item} \subseteq Group!Items[d]
          BY <2>1, <2>2, <2>3 DEF Group!AddChannelToGroup
        <4>3. HasTyped'
          BY <1>0, <2>1, <4>1, <4>2, OwnedTyped
        <4> QED BY <1>6, <3>1, <4>3
      <3> QED BY <1>1, <2>3, <3>1 DEF Group!AddChannelToGroup, d
    <2>4. CASE Group!RemoveChannelFromGroup(c)
      <3>1. ASSUME Group!Reply(c, "ok", groupTable, [has EXCEPT ![d][c.group] = @ \ {c.item}])
            PROVE  Group!GroupsTypeOK'
        <4>1. has' = [has EXCEPT ![d][c.group] = has[d][c.group] \ {c.item}]
          BY <3>1 DEF Group!Reply
        <4>2. has[d][c.group] \ {c.item} \subseteq Group!Items[d]
          BY <2>2
        <4>3. HasTyped'
          BY <1>0, <2>1, <4>1, <4>2, OwnedTyped
        <4> QED BY <1>6, <3>1, <4>3
      <3> QED BY <1>1, <2>4, <3>1 DEF Group!RemoveChannelFromGroup, d
    <2> QED BY <1>8, <2>3, <2>4
  <1> QED BY <1>2, <1>3, <1>4, <1>5, <1>7, <1>8

LEMMA GroupsTypesNext ==
  ASSUME Group!GroupsTypeOK, GroupInv, GroupInv',
         (\E parts \in SUBSET Group!Parts : Group!GroupsNextOf(parts)) \/ UNCHANGED groupVars
  PROVE  Group!GroupsTypeOK'
  <1>1. CASE UNCHANGED groupVars
    BY <1>1 DEF groupVars, Group!GroupsTypeOK
  <1>2. ASSUME NEW parts \in SUBSET Group!Parts, Group!GroupsNextOf(parts)
        PROVE  Group!GroupsTypeOK'
    <2>0. /\ {"rules", "groupChannels", "groupPrices"} \subseteq Group!Dialogs
          /\ FirstSetting \in Settings
      BY FirstHasAssumption DEF Group!Dialogs
    <2>a. ASSUME NEW d \in Group!Dialogs, Group!Add(d) \/ (\E i : Group!Remove(d, i)) \/ Group!CloseDialog(d)
          PROVE  Group!GroupsTypeOK'
      <3>1. dialogs[d].open
        BY <2>a DEF Group!Add, Group!Remove, Group!CloseDialog
      <3>2. dialogs[d].group \in Groups
        BY <3>1 DEF Group!GroupsTypeOK, Group!DialogTypeOK
      <3> QED BY <2>a, <3>2, UserTypes
    <2>1. CASE "form" \in parts /\ Group!HandleOpen(Group!NewGroup)
      BY <2>1, OpenNewTypes
    <2>2. ASSUME NEW g \in Groups, Group!RowActions(g, parts) PROVE Group!GroupsTypeOK'
      <3>1. CASE Group!HandleDelete(g)
        BY <3>1, FormTypes
      <3>2. CASE Group!HandleOpen(g)
        BY <2>2, <3>2, OpenListedTypes DEF Group!RowActions
      <3>3. ASSUME NEW d \in Group!Dialogs, Group!OpenDialog(d, g) PROVE Group!GroupsTypeOK'
        BY <3>3, UserTypes
      <3> QED BY <2>0, <2>2, <3>1, <3>2, <3>3
              DEF Group!RowActions, Group!OpenChannelModal, Group!HandleOpenRules, Group!HandleOpenPrices
    <2>3. CASE Group!GroupModal
      <3>1. CASE Group!HandleSubmit
        BY <3>1, FormTypes
      <3> QED BY <2>3, <3>1, FillFormTypes, CloseFormTypes DEF Group!GroupModal
    <2>4. CASE Group!RulesModal
      <3>1. \/ Group!Add("rules") \/ (\E i : Group!Remove("rules", i)) \/ Group!CloseDialog("rules")
        BY <2>4 DEF Group!RulesModal, Group!HandleAddRule, Group!HandleDeleteRule
      <3> QED BY <2>0, <2>a, <3>1
    <2>5. CASE Group!ChannelsModal
      <3>1. \/ \E e \in GroupChannels \cup {Group!Blank} : Group!PickChannel(e)
            \/ Group!Add("groupChannels") \/ (\E i : Group!Remove("groupChannels", i))
            \/ Group!CloseDialog("groupChannels")
        BY <2>5 DEF Group!ChannelsModal, Group!HandleAddChannelToGroup, Group!HandleRemoveChannelFromGroup
      <3> QED BY <2>0, <2>a, <3>1, EntryTypes
    <2>6. CASE Group!PricesModal
      <3>1. \/ Group!TypePrice(Group!Blank) \/ Group!TypePrice(Group!Filled)
            \/ Group!Add("groupPrices") \/ (\E i : Group!Remove("groupPrices", i))
            \/ Group!CloseDialog("groupPrices")
        BY <2>6 DEF Group!PricesModal, Group!HandleAddGroupPrice, Group!HandleDeleteGroupPrice
      <3> QED BY <2>0, <2>a, <3>1, EntryTypes
    <2>7. ASSUME NEW c \in groupCalls,
                 \/ Group!Submitted(c) \/ Group!Deleted(c) \/ Group!ListLoaded(c) \/ Group!CallFailed(c)
          PROVE  Group!GroupsTypeOK'
      BY <2>7, PageTypes, FailedTypes
    <2>8. ASSUME NEW c \in groupCalls,
                 \/ Group!RulesFetched(c) \/ Group!RuleAdded(c) \/ Group!RuleDeleted(c)
                 \/ Group!PricesFetched(c) \/ Group!PriceAdded(c) \/ Group!PriceDeleted(c)
                 \/ Group!ChannelsLoaded(c)
          PROVE  Group!GroupsTypeOK'
      BY <2>0, <2>8, AnswerTypes
         DEF Group!RulesFetched, Group!RuleAdded, Group!RuleDeleted, Group!PricesFetched,
             Group!PriceAdded, Group!PriceDeleted, Group!ChannelsLoaded
    <2> QED
      BY <1>2, <2>1, <2>2, <2>3, <2>4, <2>5, <2>6, <2>7, <2>8, ChannelDialogTypes, ServeTypesOfGroups
         DEF Group!GroupsNextOf
  <1> QED BY <1>1, <1>2

-----------------------------------------------------------------------------
(* Types: all pages. *)

\* The types of the pages, with the invariants that they rest on.
TypesInv ==
  /\ SessionTypeOK
  /\ Ch!ChannelsTypeOK /\ ChannelsInv
  /\ Ord!OrdersTypeOK /\ Log!LogsTypeOK
  /\ ParseInv
  /\ Chat!ChatTypeOK /\ ChatInv
  /\ Price!PriceTypeOK /\ PriceInv
  /\ Group!GroupsTypeOK /\ GroupInv

LEMMA TypesInit == Init => TypesInv
  BY SessionTypeInit, ChannelsTypeInit, ChannelsInvInit, OrdersTypeInit, LogsTypeInit, ParseInvInit,
     ChatTypeInit, ChatInvInit, PriceTypeInit, PricesInvInit, GroupsTypeInit, GroupInit
     DEF Init, TypesInv

LEMMA TypesNext == TypesInv /\ [Next]_consoleVars => TypesInv'
  <1> SUFFICES ASSUME TypesInv, [Next]_consoleVars PROVE TypesInv'
    OBVIOUS
  <1>1. SessionTypeOK' /\ Ord!OrdersTypeOK' /\ Log!LogsTypeOK' /\ ParseInv'
    BY PageMoves, SessionTypes, OrdersTypes, LogsTypes, ParseInvNext DEF TypesInv
  <1>2. ChannelsInv' /\ Ch!ChannelsTypeOK'
    BY PageMoves, ChannelsInvNext, ChannelsTypesNext DEF TypesInv
  <1>3. ChatInv' /\ Chat!ChatTypeOK'
    BY PageMoves, ChatInvNext, ChatTypes DEF TypesInv
  <1>4. PriceInv' /\ Price!PriceTypeOK'
    BY PageMoves, PriceInvNext, PriceTypesNext DEF TypesInv
  <1>5. GroupInv' /\ Group!GroupsTypeOK'
    BY PageMoves, GroupNext, GroupsTypesNext DEF TypesInv
  <1> QED BY <1>1, <1>2, <1>3, <1>4, <1>5 DEF TypesInv

\* Every variable of every page stays within its type: what is asked, shown and sent is
\* about rows, models, channels and groups that there are, every number stays within its
\* bound, no submission of prices waits for a stage without a call (Prices/index.tsx
\* 190-244), and no dialog of a group is open over none (Groups/index.tsx 185-258).
THEOREM ConsoleTypes == Spec => []ConsoleTypeOK
  <1>1. TypesInv /\ DashTypeOK => ConsoleTypeOK
    BY ParseOK DEF TypesInv, ConsoleTypeOK
  <1> QED BY <1>1, TypesInit, TypesNext, DashboardTypeOK, PTL DEF Spec
=============================================================================
