---------------------------------- MODULE LogsPage ----------------------------------
(***************************************************************************)
(* The request-log page: a table that is searched and paged, and rows that    *)
(* are expanded to show the stored messages of a request.  Messages are       *)
(* fetched once per row and kept; the gateway stores them some time after the *)
(* request is in the log, so that a row can be expanded too early.           *)
(*                                                                          *)
(* The filters are one value; what the expanded row renders of the messages   *)
(* is the subject of LogParsing.                                             *)
(*                                                                          *)
(* Sources: pages/Logs/index.tsx and api/logs.ts.                            *)
(***************************************************************************)
EXTENDS Integers

CONSTANTS
  LogPages, LogFilters,
  Today,        \* the filters at first
  Rows,         \* requests in the log
  MaxFetches    \* bound: fetches of the table

VARIABLES
  typed,       \* filters, as typed
  pager,       \* pagination.current
  listedOf,    \* data: page and filters of the rows; page 0 before the first answer
  logCalls,    \* fetchLogs calls on their way
  asked,       \* fetchLogs calls so far
  logsLoading,
  lastFailed,  \* whether the last fetch to end failed
  messages,    \* messagesCache: absent, loading, data or error
  expanded,    \* rows that are open
  messageCalls, \* rows whose messages are being fetched
  stored       \* server: requests whose message file is written

logsVars == <<typed, pager, listedOf, logCalls, asked, logsLoading, lastFailed,
              messages, expanded, messageCalls, stored>>
tableVars == <<typed, pager, listedOf, logCalls, asked, logsLoading, lastFailed>>

\* The fetch of the mount effect.
LogsInit ==
  /\ typed = Today /\ pager = 1
  /\ listedOf = [page |-> 0, filter |-> Today]
  /\ logCalls = {[no |-> 1, page |-> 1, filter |-> Today]} /\ asked = 1
  /\ logsLoading = TRUE /\ lastFailed = FALSE
  /\ messages = [r \in Rows |-> "absent"]
  /\ expanded = {} /\ messageCalls = {} /\ stored = {}

FetchLogs(p, f) ==
  /\ asked < MaxFetches
  /\ asked' = asked + 1
  /\ logCalls' = logCalls \cup {[no |-> asked', page |-> p, filter |-> f]}
  /\ logsLoading' = TRUE

Type(f) ==
  /\ typed' = f
  /\ UNCHANGED <<pager, listedOf, logCalls, asked, logsLoading, lastFailed,
                 messages, expanded, messageCalls, stored>>

HandleSearch ==
  /\ pager' = 1
  /\ FetchLogs(1, typed)
  /\ UNCHANGED <<typed, listedOf, lastFailed, messages, expanded, messageCalls, stored>>

\* The next page is fetched with the filters as typed, searched for or not.
HandlePageChange(p) ==
  /\ FetchLogs(p, typed)
  /\ UNCHANGED <<typed, pager, listedOf, lastFailed, messages, expanded, messageCalls, stored>>

LogsAnswered(c) ==
  /\ logCalls' = logCalls \ {c}
  /\ listedOf' = [page |-> c.page, filter |-> c.filter]
  /\ pager' = c.page
  /\ logsLoading' = FALSE /\ lastFailed' = FALSE
  /\ UNCHANGED <<typed, asked, messages, expanded, messageCalls, stored>>

\* fetchLogs has no catch; its finally block ends the loading of newer fetches too.
LogsFailed(c) ==
  /\ logCalls' = logCalls \ {c}
  /\ logsLoading' = FALSE /\ lastFailed' = TRUE
  /\ UNCHANGED <<typed, pager, listedOf, asked, messages, expanded, messageCalls, stored>>

-----------------------------------------------------------------------------
(* handleExpand. *)

Expand(r) ==
  /\ listedOf.page # 0 /\ r \notin expanded
  /\ expanded' = expanded \cup {r}
  /\ IF messages[r] # "absent"
     THEN UNCHANGED <<messages, messageCalls>>
     ELSE messages' = [messages EXCEPT ![r] = "loading"] /\ messageCalls' = messageCalls \cup {r}
  /\ UNCHANGED <<tableVars, stored>>

Collapse(r) ==
  /\ r \in expanded
  /\ expanded' = expanded \ {r}
  /\ UNCHANGED <<tableVars, messages, messageCalls, stored>>

\* Messages that are not stored yet are answered with an error.
MessagesAnswered(r, ok) ==
  /\ r \in messageCalls
  /\ messageCalls' = messageCalls \ {r}
  /\ messages' = [messages EXCEPT ![r] = IF ok /\ r \in stored THEN "data" ELSE "error"]
  /\ UNCHANGED <<tableVars, expanded, stored>>

\* Server: the log writer gets to the messages.
Store(r) ==
  /\ stored' = stored \cup {r}
  /\ UNCHANGED <<tableVars, messages, expanded, messageCalls>>

LogsNext ==
  \/ \E f \in LogFilters : Type(f)
  \/ HandleSearch
  \/ \E p \in LogPages : HandlePageChange(p)
  \/ \E c \in logCalls : LogsAnswered(c) \/ LogsFailed(c)
  \/ \E r \in Rows : Expand(r) \/ Collapse(r) \/ Store(r)
                     \/ \E ok \in BOOLEAN : MessagesAnswered(r, ok)

-----------------------------------------------------------------------------
(* Properties. *)

LogsTypeOK ==
  /\ typed \in LogFilters /\ pager \in LogPages
  /\ listedOf \in [page : LogPages \cup {0}, filter : LogFilters]
  /\ logCalls \subseteq [no : 1..MaxFetches, page : LogPages, filter : LogFilters]
  /\ asked \in 1..MaxFetches
  /\ logsLoading \in BOOLEAN /\ lastFailed \in BOOLEAN
  /\ messages \in [Rows -> {"absent", "loading", "data", "error"}]
  /\ expanded \subseteq Rows /\ messageCalls \subseteq Rows /\ stored \subseteq Rows

\* The pager of the log table is at the page whose rows are shown once all fetches
\* have ended and the last went well, in whatever order they were answered
\* (fetchLogs 184-195, handlePageChange 207-209).
LogPagerIsAtTheRows == logCalls = {} /\ ~lastFailed => pager = listedOf.page
=============================================================================
