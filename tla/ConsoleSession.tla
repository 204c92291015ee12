-------------------------------- MODULE ConsoleSession --------------------------------
(***************************************************************************)
(* Sign-in of the console, in several tabs of one browser.  A tab keeps the   *)
(* identity (token, user name, role) in its memory and writes it to the       *)
(* browser's storage, from which a tab reads it only when its page loads.     *)
(* Every call carries the token the tab has when the call is sent; an answer  *)
(* 401 forgets the identity and loads /login anew.                           *)
(*                                                                          *)
(* The content of the pages is left out: a mounted page sends a call now and  *)
(* then.  The server answers 401 when the token is no longer good.           *)
(*                                                                          *)
(* Sources: store/auth.ts, api/client.ts, api/auth.ts, router/index.tsx,      *)
(* components/AuthGuard, components/Layout and pages/Login of the console.    *)
(***************************************************************************)
EXTENDS Integers

CONSTANTS
  Tabs,
  RoleOf,        \* the role of each user
  MaxSignIns,    \* bound: sign-ins
  MaxVisits      \* bound: page loads that the user asks for

VARIABLES
  storage,   \* the identity in localStorage, under auth-storage
  memory,    \* per tab, the identity in its store
  at,        \* per tab, the path
  asking,    \* per tab, the token of the page's call on its way, or 0
  signing,   \* per tab, whether a sign-in is on its way
  live,      \* server: tokens that are good
  issued,    \* identities that the server has issued
  visits     \* page loads so far

sessionVars == <<storage, memory, at, asking, signing, live, issued, visits>>

SignedOut == [token |-> 0, username |-> "", role |-> ""]

Roles == {"user", "admin", "superadmin"}
Staff == {"admin", "superadmin"}

\* The routes; a page below "/" stands under AuthGuard and Layout.
Public == {"/login", "/home", "/pricing", "/guide"}
PageRoles ==
  [p \in {"/apikeys", "/groups", "/users"} |->
     CASE p = "/apikeys" -> Roles [] p = "/groups" -> Staff [] OTHER -> {"superadmin"}]
Private == DOMAIN PageRoles
Paths == Public \cup Private \cup {"/"}

\* The entries of the sidebar that a role sees.
NavItems(role) ==
  {"/apikeys"} \cup (IF role \in Staff THEN {"/groups"} ELSE {})
               \cup (IF role = "superadmin" THEN {"/users"} ELSE {})

\* The guard of a page lets the tab through.
Admitted(t) == at[t] \in Private /\ memory[t].token # 0 /\ memory[t].role \in PageRoles[at[t]]

-----------------------------------------------------------------------------
SessionInit ==
  /\ storage = SignedOut
  /\ memory = [t \in Tabs |-> SignedOut]
  /\ at = [t \in Tabs |-> "/login"]
  /\ asking = [t \in Tabs |-> 0] /\ signing = [t \in Tabs |-> FALSE]
  /\ live = {} /\ issued = {} /\ visits = 0

Go(t, p) == at' = [at EXCEPT ![t] = p]

\* Loading a page makes the store anew, from the storage; calls of the page die.
Load(t, p, stored) ==
  /\ memory' = [memory EXCEPT ![t] = stored]
  /\ asking' = [asking EXCEPT ![t] = 0]
  /\ signing' = [signing EXCEPT ![t] = FALSE]
  /\ Go(t, p)

\* The user opens a path, or reloads.
Visit(t, p) ==
  /\ visits < MaxVisits
  /\ visits' = visits + 1
  /\ Load(t, p, storage)
  /\ UNCHANGED <<storage, live, issued>>

\* A click in the sidebar.
Navigate(t, p) ==
  /\ at[t] \in Private /\ memory[t].token # 0 /\ p \in NavItems(memory[t].role)
  /\ Go(t, p)
  /\ UNCHANGED <<storage, memory, asking, signing, live, issued, visits>>

\* AuthGuard, and the index route.
GuardRedirects(t) ==
  /\ at[t] \in Private \cup {"/"}
  /\ IF memory[t].token = 0 THEN Go(t, "/login") ELSE at[t] = "/" /\ Go(t, "/apikeys")
  /\ UNCHANGED <<storage, memory, asking, signing, live, issued, visits>>

\* The effect of the sign-in page: who has a token does not stay.
LoginRedirects(t) ==
  /\ at[t] = "/login" /\ memory[t].token # 0
  /\ Go(t, "/")
  /\ UNCHANGED <<storage, memory, asking, signing, live, issued, visits>>

\* handleSubmit, up to the answer.
SubmitLogin(t) ==
  /\ at[t] = "/login" /\ ~signing[t]
  /\ signing' = [signing EXCEPT ![t] = TRUE]
  /\ UNCHANGED <<storage, memory, at, asking, live, issued, visits>>

\* Mutant: the store keeps the role of who was signed in before.
SetAuthWithoutRole(t, id) ==
  LET kept == [id EXCEPT !.role = storage.role]
  IN  /\ storage' = kept
      /\ memory' = [memory EXCEPT ![t] = kept]

SetAuth(t, id) ==
  /\ storage' = id
  /\ memory' = [memory EXCEPT ![t] = id]

\* The user is right about the password.
LoginSucceeds(t, u) ==
  /\ signing[t]
  /\ \A i \in issued : i.token < MaxSignIns
  /\ LET n == CHOOSE k \in 1..MaxSignIns :
                 \A i \in issued : i.token < k /\ (k = 1 \/ \E j \in issued : j.token = k - 1)
         id == [token |-> n, username |-> u, role |-> RoleOf[u]]
     IN  /\ issued' = issued \cup {id}
         /\ live' = live \cup {n}
         /\ SetAuth(t, id)
  /\ Go(t, "/")
  /\ signing' = [signing EXCEPT ![t] = FALSE]
  /\ UNCHANGED <<asking, visits>>

\* A mounted page sends a call.
Ask(t) ==
  /\ Admitted(t) /\ asking[t] = 0
  /\ asking' = [asking EXCEPT ![t] = memory[t].token]
  /\ UNCHANGED <<storage, memory, at, signing, live, issued, visits>>

AnsweredWell(t) ==
  /\ asking[t] \in live
  /\ asking' = [asking EXCEPT ![t] = 0]
  /\ UNCHANGED <<storage, memory, at, signing, live, issued, visits>>

\* Mutant: the interceptor goes to the sign-in page and forgets nothing.
Answered401StillSignedIn(t) ==
  /\ signing[t] \/ (asking[t] # 0 /\ asking[t] \notin live)
  /\ storage' = storage
  /\ Load(t, "/login", storage)
  /\ UNCHANGED <<live, issued, visits>>

\* The response interceptor; a wrong password is answered 401 as well.
Answered401(t) ==
  /\ signing[t] \/ (asking[t] # 0 /\ asking[t] \notin live)
  /\ storage' = SignedOut
  /\ Load(t, "/login", SignedOut)
  /\ UNCHANGED <<live, issued, visits>>

HandleLogout(t) ==
  /\ at[t] \in Private /\ memory[t].token # 0
  /\ storage' = SignedOut
  /\ memory' = [memory EXCEPT ![t] = SignedOut]
  /\ Go(t, "/login")
  /\ UNCHANGED <<asking, signing, live, issued, visits>>

\* Server: a token runs out.
Expire(n) ==
  /\ live' = live \ {n}
  /\ UNCHANGED <<storage, memory, at, asking, signing, issued, visits>>

TabStep(t) ==
  \/ GuardRedirects(t) \/ LoginRedirects(t) \/ AnsweredWell(t) \/ Answered401(t) \/ Ask(t)

SessionNext ==
  \/ \E t \in Tabs :
       \/ TabStep(t) \/ SubmitLogin(t) \/ HandleLogout(t)
       \/ \E p \in Paths : Visit(t, p)
       \/ \E p \in Private : Navigate(t, p)
       \/ \E u \in DOMAIN RoleOf : LoginSucceeds(t, u)
  \/ \E n \in live : Expire(n)

SessionSpec == SessionInit /\ [][SessionNext]_sessionVars

-----------------------------------------------------------------------------
(* Properties. *)

Identities == [token : 0..MaxSignIns, username : DOMAIN RoleOf \cup {""}, role : Roles \cup {""}]

SessionTypeOK ==
  /\ storage \in Identities
  /\ memory \in [Tabs -> Identities]
  /\ at \in [Tabs -> Paths]
  /\ asking \in [Tabs -> 0..MaxSignIns] /\ signing \in [Tabs -> BOOLEAN]
  /\ live \subseteq 1..MaxSignIns
  /\ issued \subseteq Identities
  /\ visits \in 0..MaxVisits

\* Whatever tabs sign in, sign out and reload, the name and the role that a tab
\* shows and guards its pages by are those the server gave with the token the tab
\* sends: the parts of two sign-ins never mix (store/auth.ts 14-26).
OneIdentity ==
  \A i \in {storage} \cup {memory[t] : t \in Tabs} : i = SignedOut \/ i \in issued

\* A page that sends no call: a public one, or one refused for want of the role.
Resting(t) == at[t] \in Public \ {"/login"} \/ (at[t] \in Private /\ ~Admitted(t))

\* A tab does not go in circles with a token that is no longer good: time and again it
\* is without one, or with a good one, or at a page that sends no call
\* (client.ts 17-26, Login 14-19).
DeadSessionEnds ==
  \A t \in Tabs : []<>(memory[t].token \in live \cup {0} \/ Resting(t))
=============================================================================
