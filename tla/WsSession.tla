------------------------------ MODULE WsSession ------------------------------
(***************************************************************************)
(* Speech sessions over WebSocket (/v1/audio/asr/stream, .../tts/stream):   *)
(* admission, the connection to the upstream, two pumps that forward frames *)
(* in both directions, the ways a session ends, and the usage record, the    *)
(* message log (module LogWriter) and the deduction written at its end.      *)
(*                                                                          *)
(* A frame from the client is "audio" (bytes, or a text that is neither of   *)
(* the others), "meta" (the billing declaration that the gateway consumes    *)
(* if it is the first text frame) or "run" (the run-task frame whose model   *)
(* name is rewritten).  Frames of the upstream are only counted.             *)
(*                                                                          *)
(* Sources: services/ws_forwarder.py; ws_audio_asr_stream and                *)
(* _finalize_ws_usage in gateway.py.                                        *)
(***************************************************************************)
EXTENDS LogWriter, SequencesExt

CONSTANTS
  Sessions,    \* the requests that are speech sessions; the others only log
  Frames,      \* the kinds of frames explored, subset of {"audio", "meta", "run"}
  MaxFrames,   \* bound: frames sent by the client
  MaxAnswers,  \* bound: frames sent by the upstream
  DbMayFail    \* whether pricing, the usage write and the deduction may fail

ASSUME SessionAssumption ==
  /\ Frames \subseteq {"audio", "meta", "run"}
  /\ Sessions \subseteq Requests
  /\ MaxFrames \in Nat /\ MaxAnswers \in Nat
  /\ DbMayFail \in BOOLEAN

VARIABLES
  phase,      \* the handler: idle, refused, connecting, open, finishing, ended
  client,     \* "there" or "left"
  upstream,   \* the upstream connection: none, open, closed (normally), broken
  up,         \* _client_to_upstream: off, receive, send, close, done, raised, cancelled
  down,       \* _upstream_to_client: off, run, done, raised, disconnect, cancelled
  sent,       \* frames the client has sent
  taken,      \* how many of them the gateway has received
  hook,       \* meta_seen and meta: "first" until the first text frame, then
              \* "declared" or "undeclared"
  got,        \* frames the upstream has received
  pushed,     \* frames the upstream has sent
  shown,      \* how many of them the client was sent
  outcome,    \* how forward_ws_session ended: none, returned, disconnect, error
  bill,       \* _finalize_ws_usage: none, price, usage, log, deduct, done
  logged,     \* sessions with a UsageLog row
  proc        \* up, draining, down, or killed if the drain timed out

connVars == <<phase, client, upstream, up, down, outcome>>
dataVars == <<sent, taken, hook, got, pushed, shown>>
billVars == <<bill, logged>>
vars == <<connVars, dataVars, billVars, proc, logVars>>

Init ==
  /\ phase = [s \in Sessions |-> "idle"]
  /\ client = [s \in Sessions |-> "there"]
  /\ upstream = [s \in Sessions |-> "none"]
  /\ up = [s \in Sessions |-> "off"]
  /\ down = [s \in Sessions |-> "off"]
  /\ sent = [s \in Sessions |-> <<>>]
  /\ taken = [s \in Sessions |-> 0]
  /\ hook = [s \in Sessions |-> "first"]
  /\ got = [s \in Sessions |-> <<>>]
  /\ pushed = [s \in Sessions |-> 0]
  /\ shown = [s \in Sessions |-> 0]
  /\ outcome = [s \in Sessions |-> "none"]
  /\ bill = [s \in Sessions |-> "none"]
  /\ logged = {}
  /\ proc = "up"
  /\ LogInit

Active(s) == phase[s] \in {"connecting", "open", "finishing"}

-----------------------------------------------------------------------------
(* ws_audio_asr_stream up to the forwarder. *)

\* Bad key, exhausted token quota, no model, no wss channel: close 1008.
Refuse(s) ==
  /\ proc = "up" /\ phase[s] = "idle"
  /\ phase' = [phase EXCEPT ![s] = "refused"]
  /\ client' = [client EXCEPT ![s] = "left"]
  /\ UNCHANGED <<upstream, up, down, outcome, dataVars, billVars, proc, logVars>>

Accept(s) ==
  /\ proc = "up" /\ phase[s] = "idle"
  /\ phase' = [phase EXCEPT ![s] = "connecting"]
  /\ UNCHANGED <<client, upstream, up, down, outcome, dataVars, billVars, proc, logVars>>

\* websockets.connect, then the two pumps.
Connect(s) ==
  /\ phase[s] = "connecting"
  /\ phase' = [phase EXCEPT ![s] = "open"]
  /\ upstream' = [upstream EXCEPT ![s] = "open"]
  /\ up' = [up EXCEPT ![s] = "receive"]
  /\ down' = [down EXCEPT ![s] = "run"]
  /\ UNCHANGED <<client, outcome, dataVars, billVars, proc, logVars>>

\* It raises: close 1011, and with no duration and no declaration no bill.
ConnectFails(s) ==
  /\ phase[s] = "connecting"
  /\ phase' = [phase EXCEPT ![s] = "ended"]
  /\ outcome' = [outcome EXCEPT ![s] = "error"]
  /\ client' = [client EXCEPT ![s] = "left"]
  /\ UNCHANGED <<upstream, up, down, dataVars, billVars, proc, logVars>>

-----------------------------------------------------------------------------
(* The two peers. *)

ClientSends(s, f) ==
  /\ phase[s] \in {"connecting", "open"} /\ client[s] = "there"
  /\ Len(sent[s]) < MaxFrames
  /\ sent' = [sent EXCEPT ![s] = Append(@, f)]
  /\ UNCHANGED <<connVars, taken, hook, got, pushed, shown, billVars, proc, logVars>>

ClientLeaves(s) ==
  /\ Active(s) /\ client[s] = "there"
  /\ client' = [client EXCEPT ![s] = "left"]
  /\ UNCHANGED <<phase, upstream, up, down, outcome, dataVars, billVars, proc, logVars>>

UpstreamSends(s) ==
  /\ upstream[s] = "open" /\ pushed[s] < MaxAnswers
  /\ pushed' = [pushed EXCEPT ![s] = @ + 1]
  /\ UNCHANGED <<connVars, sent, taken, hook, got, shown, billVars, proc, logVars>>

UpstreamEnds(s, how) ==
  /\ upstream[s] = "open"
  /\ upstream' = [upstream EXCEPT ![s] = how]
  /\ UNCHANGED <<phase, client, up, down, outcome, dataVars, billVars, proc, logVars>>

-----------------------------------------------------------------------------
(* _client_to_upstream *)

IsText(f) == f # "audio"

\* Mutant: any declaration is consumed, wherever it comes.
ConsumedAnywhere(s, f) == f = "meta"

\* The first text frame is the declaration.
Consumed(s, f) == f = "meta" /\ hook[s] = "first"

Declares(s, f) ==
  IF IsText(f) /\ hook[s] = "first"
  THEN IF f = "meta" THEN "declared" ELSE "undeclared"
  ELSE hook[s]

Receive(s) ==
  LET f == sent[s][taken[s] + 1]
  IN  /\ up[s] = "receive" /\ taken[s] < Len(sent[s])
      /\ taken' = [taken EXCEPT ![s] = @ + 1]
      /\ hook' = [hook EXCEPT ![s] = Declares(s, f)]
      /\ up' = [up EXCEPT ![s] = IF Consumed(s, f) THEN "receive" ELSE "send"]
      /\ UNCHANGED <<phase, client, upstream, down, outcome, sent, got, pushed, shown,
                     billVars, proc, logVars>>

\* _rewrite_run_task_model
Rewritten(f) == IF f = "run" THEN "runCanonical" ELSE f

\* upstream.send raises ConnectionClosed once the connection is gone.
Send(s) ==
  /\ up[s] = "send"
  /\ IF upstream[s] = "open"
     THEN /\ got' = [got EXCEPT ![s] = Append(@, Rewritten(sent[s][taken[s]]))]
          /\ up' = [up EXCEPT ![s] = "receive"]
     ELSE /\ up' = [up EXCEPT ![s] = "raised"]
          /\ UNCHANGED got
  /\ UNCHANGED <<phase, client, upstream, down, outcome, sent, taken, hook, pushed, shown,
                 billVars, proc, logVars>>

\* The disconnect message comes after the last frame.
SeeDisconnect(s) ==
  /\ up[s] = "receive" /\ taken[s] = Len(sent[s]) /\ client[s] = "left"
  /\ up' = [up EXCEPT ![s] = "close"]
  /\ UNCHANGED <<phase, client, upstream, down, outcome, dataVars, billVars, proc, logVars>>

\* Mutant: the pump ends without closing the upstream.
ReturnWithoutClosing(s) ==
  /\ up[s] = "close"
  /\ up' = [up EXCEPT ![s] = "done"]
  /\ UNCHANGED <<phase, client, upstream, down, outcome, dataVars, billVars, proc, logVars>>

\* The closing handshake: frames still arrive until it ends.
CloseUpstream(s) ==
  /\ up[s] = "close"
  /\ up' = [up EXCEPT ![s] = "done"]
  /\ upstream' = [upstream EXCEPT ![s] = IF @ = "open" THEN "closed" ELSE @]
  /\ UNCHANGED <<phase, client, down, outcome, dataVars, billVars, proc, logVars>>

-----------------------------------------------------------------------------
(* _upstream_to_client *)

\* Sending to a client that left goes unnoticed or raises WebSocketDisconnect.
Show(s) ==
  /\ down[s] = "run" /\ shown[s] < pushed[s]
  /\ \/ /\ shown' = [shown EXCEPT ![s] = @ + 1]
        /\ UNCHANGED down
     \/ /\ client[s] = "left"
        /\ down' = [down EXCEPT ![s] = "disconnect"]
        /\ UNCHANGED shown
  /\ UNCHANGED <<phase, client, upstream, up, outcome, sent, taken, hook, got, pushed,
                 billVars, proc, logVars>>

\* The iteration ends normally only if the connection was closed normally.
UpstreamOver(s) ==
  /\ down[s] = "run" /\ shown[s] = pushed[s]
  /\ upstream[s] \in {"closed", "broken"}
  /\ down' = [down EXCEPT ![s] = IF upstream[s] = "closed" THEN "done" ELSE "raised"]
  /\ UNCHANGED <<phase, client, upstream, up, outcome, dataVars, billVars, proc, logVars>>

-----------------------------------------------------------------------------
(* The end of forward_ws_session and of the handler. *)

\* asyncio.wait(..., FIRST_EXCEPTION): one exception, or two normal ends.
WaitOver(s) ==
  \/ up[s] = "raised" \/ down[s] \in {"raised", "disconnect"}
  \/ up[s] = "done" /\ down[s] = "done"

Cancelled(pump) == IF pump \in {"done", "raised", "disconnect"} THEN pump ELSE "cancelled"

\* The finally clause closes what is open.
Released(connection) == IF connection = "open" THEN "closed" ELSE connection

\* Mutant: only a declared duration is billed.
BillableDeclared(s, how) == hook[s] = "declared"

\* billable_audio > 0: declared by the client, else the session's duration,
\* which is known only if forward_ws_session returned.
Billable(s, how) == hook[s] = "declared" \/ how = "returned"

\* The other pump is cancelled; a closed connection is a normal end, a
\* WebSocketDisconnect is raised through; the upstream is closed.
Finish(s) ==
  LET how == IF down[s] = "disconnect" THEN "disconnect" ELSE "returned"
  IN  /\ phase[s] = "open" /\ WaitOver(s)
      /\ up' = [up EXCEPT ![s] = Cancelled(@)]
      /\ down' = [down EXCEPT ![s] = Cancelled(@)]
      /\ upstream' = [upstream EXCEPT ![s] = Released(@)]
      /\ outcome' = [outcome EXCEPT ![s] = how]
      /\ IF Billable(s, how)
         THEN /\ phase' = [phase EXCEPT ![s] = "finishing"]
              /\ bill' = [bill EXCEPT ![s] = "price"]
              /\ UNCHANGED client
         ELSE /\ phase' = [phase EXCEPT ![s] = "ended"]
              /\ client' = [client EXCEPT ![s] = "left"]
              /\ UNCHANGED bill
      /\ UNCHANGED <<dataVars, logged, proc, logVars>>

-----------------------------------------------------------------------------
(* _finalize_ws_usage, inside the handler. *)

Bill(s, stage) == bill' = [bill EXCEPT ![s] = stage]

EndSession(s) ==
  /\ phase' = [phase EXCEPT ![s] = "ended"]
  /\ client' = [client EXCEPT ![s] = "left"]
  /\ Bill(s, "done")

\* calculate_cost; its failure gives the session away.
Price(s) ==
  /\ bill[s] = "price"
  /\ \/ Bill(s, "usage") /\ UNCHANGED <<phase, client>>
     \/ DbMayFail /\ EndSession(s)
  /\ UNCHANGED <<upstream, up, down, outcome, dataVars, logged, proc, logVars>>

\* update_usage returns in any case (module Billing has its retries).
SaveUsage(s) ==
  /\ bill[s] = "usage"
  /\ \/ logged' = logged \cup {s}
     \/ DbMayFail /\ UNCHANGED logged
  /\ Bill(s, "log")
  /\ UNCHANGED <<connVars, dataVars, proc, logVars>>

SaveLog(s) ==
  /\ bill[s] = "log"
  /\ StartLog(s)
  /\ Bill(s, "deduct")
  /\ UNCHANGED <<connVars, dataVars, logged, proc>>

\* _maybe_deduct (module Billing has the debit); then the connection closes.
Settle(s) ==
  /\ bill[s] = "deduct"
  /\ EndSession(s)
  /\ UNCHANGED <<upstream, up, down, outcome, dataVars, logged, proc, logVars>>

Finalize(s) == Price(s) \/ SaveUsage(s) \/ SaveLog(s) \/ Settle(s)

-----------------------------------------------------------------------------
(* The process. *)

\* The server closes every WebSocket (1012) and accepts no more.
StopAccepting ==
  /\ proc = "up"
  /\ proc' = "draining"
  /\ client' = [s \in Sessions |-> IF Active(s) THEN "left" ELSE client[s]]
  /\ UNCHANGED <<phase, upstream, up, down, outcome, dataVars, billVars, logVars>>

HandlersRun == \E s \in Sessions : Active(s)

\* Mutant: the shutdown does not wait for the log tasks.
DrainsAtOnce ==
  /\ proc = "draining" /\ ~HandlersRun
  /\ proc' = "down"
  /\ CancelLogs
  /\ UNCHANGED <<connVars, dataVars, billVars>>

\* lifespan waits for the log tasks and cancels them after 30 s.
Drained ==
  /\ proc = "draining" /\ ~HandlersRun
  /\ LogsPending = {}
  /\ proc' = "down"
  /\ UNCHANGED <<connVars, dataVars, billVars, logVars>>

DrainTimesOut ==
  /\ proc = "draining" /\ ~HandlersRun
  /\ LogsPending # {} /\ LogsMayFail
  /\ proc' = "killed"
  /\ CancelLogs
  /\ UNCHANGED <<connVars, dataVars, billVars>>

\* A forwarded or rejected request (enqueue_rejection_log) logs beside them.
LogRequest(e) ==
  /\ proc = "up"
  /\ StartLog(e)
  /\ UNCHANGED <<connVars, dataVars, billVars, proc>>

WriteLog(e) ==
  /\ proc \in {"up", "draining"}
  /\ LogStep(e)
  /\ UNCHANGED <<connVars, dataVars, billVars, proc>>

-----------------------------------------------------------------------------
Handler(s) ==
  \/ Connect(s) \/ ConnectFails(s)
  \/ Finish(s) \/ Finalize(s)

UpPump(s)   == phase[s] = "open" /\ (Receive(s) \/ Send(s) \/ SeeDisconnect(s) \/ CloseUpstream(s))
DownPump(s) == phase[s] = "open" /\ (Show(s) \/ UpstreamOver(s))

Peers(s) ==
  \/ \E f \in Frames : ClientSends(s, f)
  \/ ClientLeaves(s)
  \/ UpstreamSends(s)
  \/ \E how \in {"closed", "broken"} : UpstreamEnds(s, how)

Next ==
  \/ \E s \in Sessions :
       \/ Refuse(s) \/ Accept(s)
       \/ Handler(s) \/ UpPump(s) \/ DownPump(s) \/ Peers(s)
  \/ \E e \in Requests \ Sessions : LogRequest(e)
  \/ \E e \in Requests : WriteLog(e)
  \/ StopAccepting \/ Drained \/ DrainTimesOut

Spec == Init /\ [][Next]_vars

\* The event loop runs every handler, pump and task; connecting times out.
FairSpec ==
  /\ Spec
  /\ \A s \in Sessions :
       /\ WF_vars(Handler(s)) /\ WF_vars(UpPump(s)) /\ WF_vars(DownPump(s))
  /\ \A e \in Requests : WF_vars(WriteLog(e))
  /\ WF_vars(Drained)

-----------------------------------------------------------------------------
(* Properties. *)

\* The stream the upstream is due: what the client sent, run-task rewritten,
\* without a declaration in the first text frame.
FirstText(q) == SelectInSeq(q, IsText)
Due(q) ==
  LET i == FirstText(q)
      rest == IF i # 0 /\ q[i] = "meta" THEN RemoveAt(q, i) ELSE q
  IN  [j \in DOMAIN rest |-> Rewritten(rest[j])]

\* The forwarder is transparent: the upstream sees the client's frames in
\* order, none lost, doubled or swallowed, except the billing declaration;
\* also when a later frame looks like one.  A pump waiting for the next frame
\* has passed on all it took.
UpstreamSeesTheStream ==
  \A s \in Sessions :
    /\ IsPrefix(got[s], Due(sent[s]))
    /\ up[s] = "receive" => got[s] = Due(SubSeq(sent[s], 1, taken[s]))

\* A session that was connected is given away only if pricing failed, or if the
\* client left with answers of the upstream still on their way to it and had
\* declared nothing.  Whoever waits for the last answer, or is cut off by the
\* upstream, is billed.
SessionIsBilled ==
  \A s \in Sessions :
    phase[s] = "ended" /\ upstream[s] # "none" /\ bill[s] = "none" =>
      client[s] = "left" /\ shown[s] < pushed[s] /\ hook[s] # "declared"

\* A client that leaves, or an upstream that breaks, ends the session and both
\* pumps.  (A normal close by the upstream does not: the wait goes on until the
\* client sends or leaves.)
LeavingEndsSession ==
  \A s \in Sessions :
    phase[s] = "open" /\ (client[s] = "left" \/ upstream[s] = "broken") ~> phase[s] = "ended"

\* A shutdown that is not cut off leaves no session unbilled and no log entry
\* unwritten: what was open is finalized before the process goes, and the entry
\* this starts is waited for.
StopLosesNothing ==
  proc = "down" =>
    /\ \A s \in Sessions : ~Active(s) /\ bill[s] \in {"none", "done"}
    /\ \A e \in Requests :
         entry[e] \in {"none", "written", "failed", "dropped"}
=============================================================================
