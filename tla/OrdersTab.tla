--------------------------------- MODULE OrdersTab ---------------------------------
(***************************************************************************)
(* The orders tab of the payment page.  The page number and the filters make  *)
(* a query; an effect fetches whenever the query changes.  An answer sets the *)
(* rows and also the page number, so that it may itself change the query and  *)
(* cause the next fetch.  Nothing marks an older fetch as overtaken.         *)
(*                                                                          *)
(* Status and buyer filters are one value.  The query a handler fetches with  *)
(* is the one of the render it belongs to.                                   *)
(*                                                                          *)
(* Sources: pages/Payment/index.tsx (OrdersTab) and api/payments.ts.         *)
(***************************************************************************)
EXTENDS Integers

CONSTANTS
  OrderPages,    \* page numbers
  OrderFilters,  \* FirstFilter shows all orders
  FirstFilter,
  Orders,
  MaxFetches     \* bound: fetches of the tab

VARIABLES
  page,        \* pagination.current
  filter,      \* status and username
  rowsOf,      \* data: the query whose rows are shown
  fetches,     \* fetches on their way
  fetched,     \* fetches so far
  failed,      \* whether the last fetch to end failed
  marks,       \* mark-paid calls on their way
  paid,        \* server: orders marked as paid
  markResult   \* the dialog with the key: its order and the order of the key, or NoResult

ordersVars == <<page, filter, rowsOf, fetches, fetched, failed, marks, paid, markResult>>

NoResult == [visible |-> FALSE, order |-> "", key |-> ""]

Query == [page |-> page, filter |-> filter]

OrdersInit ==
  /\ page = 1 /\ filter = FirstFilter
  /\ rowsOf = [page |-> 0, filter |-> FirstFilter]
  /\ fetches = {[no |-> 1, query |-> Query]} /\ fetched = 1
  /\ failed = FALSE
  /\ marks = {} /\ paid = {} /\ markResult = NoResult

FetchWith(rest, q) ==
  /\ fetched < MaxFetches
  /\ fetched' = fetched + 1
  /\ fetches' = rest \cup {[no |-> fetched', query |-> q]}

\* The effect on the dependencies of fetchData.
RefetchIfChanged(rest) ==
  IF Query' # Query THEN FetchWith(rest, Query') ELSE fetches' = rest /\ fetched' = fetched

\* The pager of the table.
ChangePage(p) ==
  /\ page' = p /\ filter' = filter
  /\ RefetchIfChanged(fetches)
  /\ UNCHANGED <<rowsOf, failed, marks, paid, markResult>>

ApplyFilter(f) ==
  /\ page' = 1 /\ filter' = f
  /\ RefetchIfChanged(fetches)
  /\ UNCHANGED <<rowsOf, failed, marks, paid, markResult>>

\* The query button.
Refetch ==
  /\ FetchWith(fetches, Query)
  /\ UNCHANGED <<page, filter, rowsOf, failed, marks, paid, markResult>>

\* Mutant: an answer sets the rows and the total, not the page.
FetchAnsweredRowsOnly(c) ==
  /\ rowsOf' = c.query
  /\ failed' = FALSE
  /\ page' = page /\ filter' = filter
  /\ RefetchIfChanged(fetches \ {c})
  /\ UNCHANGED <<marks, paid, markResult>>

FetchAnswered(c) ==
  /\ rowsOf' = c.query
  /\ failed' = FALSE
  /\ page' = c.query.page /\ filter' = filter
  /\ RefetchIfChanged(fetches \ {c})
  /\ UNCHANGED <<marks, paid, markResult>>

FetchFailed(c) ==
  /\ failed' = TRUE
  /\ fetches' = fetches \ {c}
  /\ UNCHANGED <<page, filter, rowsOf, fetched, marks, paid, markResult>>

-----------------------------------------------------------------------------
(* handleMarkPaid: the call remembers the query of the render it was clicked in. *)

HandleMarkPaid(o) ==
  /\ rowsOf.page # 0 /\ o \notin paid
  /\ marks' = marks \cup {[order |-> o, query |-> Query, done |-> FALSE]}
  /\ UNCHANGED <<page, filter, rowsOf, fetches, fetched, failed, paid, markResult>>

ServeMark(m) ==
  /\ ~m.done /\ m.order \notin paid
  /\ paid' = paid \cup {m.order}
  /\ marks' = (marks \ {m}) \cup {[m EXCEPT !.done = TRUE]}
  /\ UNCHANGED <<page, filter, rowsOf, fetches, fetched, failed, markResult>>

\* The dialog that may be open shows the new key instead.
MarkDone(m) ==
  /\ m.done
  /\ marks' = marks \ {m}
  /\ markResult' = [visible |-> TRUE, order |-> m.order, key |-> m.order]
  /\ FetchWith(fetches, m.query)
  /\ UNCHANGED <<page, filter, rowsOf, failed, paid>>

MarkFailed(m) ==
  /\ marks' = marks \ {m}
  /\ UNCHANGED <<page, filter, rowsOf, fetches, fetched, failed, paid, markResult>>

CloseResult ==
  /\ markResult.visible
  /\ markResult' = [markResult EXCEPT !.visible = FALSE]
  /\ UNCHANGED <<page, filter, rowsOf, fetches, fetched, failed, marks, paid>>

OrdersNext ==
  \/ \E p \in OrderPages : ChangePage(p)
  \/ \E f \in OrderFilters : ApplyFilter(f)
  \/ Refetch
  \/ \E c \in fetches : FetchAnswered(c) \/ FetchFailed(c)
  \/ \E o \in Orders : HandleMarkPaid(o)
  \/ \E m \in marks : ServeMark(m) \/ MarkDone(m) \/ MarkFailed(m)
  \/ CloseResult

-----------------------------------------------------------------------------
(* Properties. *)

OrderQueries == [page : OrderPages, filter : OrderFilters]

OrdersTypeOK ==
  /\ page \in OrderPages /\ filter \in OrderFilters
  /\ rowsOf \in OrderQueries \cup [page : {0}, filter : OrderFilters]
  /\ fetches \subseteq [no : 1..MaxFetches, query : OrderQueries]
  /\ fetched \in 1..MaxFetches
  /\ failed \in BOOLEAN
  /\ marks \subseteq [order : Orders, query : OrderQueries, done : BOOLEAN]
  /\ paid \subseteq Orders
  /\ markResult \in [visible : BOOLEAN, order : Orders \cup {""}, key : Orders \cup {""}]

\* When nothing is on its way any more and the last fetch went well, the pager is at
\* the page whose rows are shown, although overlapping fetches are answered in any
\* order and a payment confirmed by hand fetches the page it was clicked on
\* (fetchData and its effect, 435-459; handleMarkPaid, 467-480).
PagerIsAtTheRows == fetches = {} /\ ~failed => page = rowsOf.page
=============================================================================
