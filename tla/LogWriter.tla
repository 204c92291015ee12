------------------------------ MODULE LogWriter ------------------------------
(***************************************************************************)
(* The message log: one compressed file per request, written by one task    *)
(* per entry.  A counter of the writes in progress admits entries; at the    *)
(* limit an entry is dropped.  Writes may fail at every await and are        *)
(* cancelled by a shutdown that waited too long.                            *)
(*                                                                          *)
(* The process around it (who starts entries, when a shutdown cancels them) *)
(* is in the modules that extend this one.                                  *)
(*                                                                          *)
(* Source: log_writer.py, and lifespan in gateway.py.                       *)
(***************************************************************************)
EXTENDS Integers, FiniteSets

CONSTANTS
  Requests,      \* request ids, one log entry each
  MaxWrites,     \* MAX_INFLIGHT
  LogsMayFail    \* whether compressing or writing may fail

ASSUME LogAssumption ==
  /\ MaxWrites \in Nat \ {0}
  /\ LogsMayFail \in BOOLEAN
  /\ IsFiniteSet(Requests)

VARIABLES
  entry,      \* the task of each entry
  inflight,   \* _inflight
  file        \* data/sessions/<date>/<request_id>.json.br

logVars == <<entry, inflight, file>>

EntryState == {"none", "queued", "compressing", "writing",
               "written", "dropped", "failed", "cancelled"}

Writes      == {e \in Requests : entry[e] \in {"compressing", "writing"}}
LogsPending == {e \in Requests : entry[e] = "queued"} \cup Writes

Become(e, state) == entry' = [entry EXCEPT ![e] = state]

LogInit ==
  /\ entry = [e \in Requests |-> "none"]
  /\ inflight = 0
  /\ file = [e \in Requests |-> "absent"]

-----------------------------------------------------------------------------
\* create_task(enqueue_log(...)), and the reference kept in log_tasks
StartLog(e) ==
  /\ entry[e] = "none"
  /\ Become(e, "queued")
  /\ UNCHANGED <<inflight, file>>

Admits == inflight < MaxWrites

\* The task runs up to its first await: no other task can come between the
\* test of the counter and its increment.
EnterLog(e) ==
  /\ entry[e] = "queued" /\ Admits
  /\ Become(e, "compressing")
  /\ inflight' = inflight + 1
  /\ UNCHANGED file

DropLog(e) ==
  /\ entry[e] = "queued" /\ ~Admits
  /\ Become(e, "dropped")
  /\ UNCHANGED <<inflight, file>>

\* write_log: compressed in the pool, then opened (and truncated) for writing.
OpenFile(e) ==
  /\ entry[e] = "compressing"
  /\ Become(e, "writing")
  /\ file' = [file EXCEPT ![e] = "partial"]
  /\ UNCHANGED inflight

CompleteFile(e) ==
  /\ entry[e] = "writing"
  /\ Become(e, "written")
  /\ file' = [file EXCEPT ![e] = "whole"]
  /\ inflight' = inflight - 1

\* Mutant: the counter is not given back when the write fails.
LogFailsKeepingSlot(e) ==
  /\ LogsMayFail
  /\ e \in Writes
  /\ Become(e, "failed")
  /\ UNCHANGED <<inflight, file>>

\* _write_one swallows the exception; the file stays as it is.
LogFails(e) ==
  /\ LogsMayFail
  /\ e \in Writes
  /\ Become(e, "failed")
  /\ inflight' = inflight - 1
  /\ UNCHANGED file

\* lifespan cancels what is pending.  A write in its thread may still end.
CancelLogs ==
  /\ entry' = [e \in Requests |-> IF e \in LogsPending THEN "cancelled" ELSE entry[e]]
  /\ inflight' = inflight - Cardinality(Writes)
  /\ \E S \in SUBSET {e \in Requests : entry[e] = "writing"} :
       file' = [e \in Requests |-> IF e \in S THEN "whole" ELSE file[e]]

LogStep(e) == EnterLog(e) \/ DropLog(e) \/ OpenFile(e) \/ CompleteFile(e) \/ LogFails(e)

LogNext == (\E e \in Requests : StartLog(e) \/ LogStep(e)) \/ CancelLogs

LogSpec == LogInit /\ [][LogNext]_logVars

-----------------------------------------------------------------------------
(* Properties. *)

LogTypeOK ==
  /\ entry \in [Requests -> EntryState]
  /\ inflight \in Int
  /\ file \in [Requests -> {"absent", "partial", "whole"}]

\* The counter is the number of writes in progress, however they ended: a
\* failure, a drop or a cancellation neither leaks a place (which would in the
\* end drop every entry) nor gives one back twice.
InflightExact == inflight = Cardinality(Writes) /\ inflight <= MaxWrites

\* A file that can be read is there exactly for the entries written; a broken
\* one only for a write that was cut off.  (One cancelled in its thread may
\* have ended.)
FilesMatchEntries ==
  \A e \in Requests :
    /\ entry[e] = "written" => file[e] = "whole"
    /\ file[e] = "whole" => entry[e] \in {"written", "cancelled"}
    /\ file[e] = "partial" => entry[e] \in {"writing", "failed", "cancelled"}
=============================================================================
