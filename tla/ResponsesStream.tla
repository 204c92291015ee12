----------------------------- MODULE ResponsesStream -----------------------------
(***************************************************************************)
(* A streamed POST /v1/responses: the chat chunks of the upstream are        *)
(* converted one by one into Responses events, the events are yielded one by *)
(* one, and when the stream ends, for whatever reason, the chunks that came  *)
(* in are parsed for the usage that is billed.                              *)
(*                                                                          *)
(* A chunk has a piece of text, a refusal, pieces of tool calls, a reason to *)
(* finish and a usage, each possibly missing.  A usage is one of Usages, or  *)
(* "partial": a dict without both counts.  Ids, names and the other fields   *)
(* of the events follow the index of their item and are left out.           *)
(*                                                                          *)
(* Sources: services/responses_converter.py (_ResponsesStreamState);         *)
(* _forward_responses_stream and parse_stream_usage in gateway.py.          *)
(***************************************************************************)
EXTENDS Integers, SequencesExt

CONSTANTS
  Chunks,      \* the chunks explored
  Texts,       \* pieces of text and refusals
  Arguments,   \* pieces of tool call arguments
  Calls,       \* indices of tool calls
  Usages,      \* complete usage reports
  Providers,   \* Channel.provider of the channel the request was routed to
  MaxChunks    \* bound: chunks of one stream

\* What a chunk does not have.
Absent == "absent"

ChunkType ==
  [content : Texts \cup {Absent}, refusal : Texts \cup {Absent},
   calls : Seq([index : Calls, arg : Arguments \cup {Absent}]),
   finish : {Absent, "stop", "length"},
   usage : Usages \cup {Absent, "partial"}]

ASSUME StreamAssumption ==
  /\ Calls \subseteq Nat /\ MaxChunks \in Nat
  /\ Chunks \subseteq ChunkType
  /\ Usages \cap {Absent, "partial", "zero"} = {}

VARIABLES
  provider,
  phase,   \* waiting for the upstream's answer, relaying, closing, over
  state,   \* the _ResponsesStreamState
  raw,     \* raw_chunks: what came from the upstream
  out,     \* events made and not yet yielded
  view,    \* what the client has made of the events it got
  bill     \* the usage billed: none, due, zero or a usage

vars == <<provider, phase, state, raw, out, view, bill>>

Items == {0} \cup {i + 1 : i \in Calls}

-----------------------------------------------------------------------------
(* _ResponsesStreamState *)

\* seq, full_text, tool_calls (the keys in the order they were inserted, and
\* the arguments), usage, finish_reason.
NewState ==
  [seq |-> 0, text |-> <<>>, order |-> <<>>, args |-> [i \in Calls |-> <<>>],
   usage |-> Absent, finish |-> "stop"]

Event(type, index, data) == [type |-> type, index |-> index, data |-> data]

\* _make
Numbered(events, first) ==
  [k \in DOMAIN events |-> [seq |-> first + k - 1, event |-> events[k]]]

Header ==
  <<Event("created", 0, <<>>), Event("inProgress", 0, <<>>),
    Event("itemAdded", 0, <<>>), Event("part", 0, <<>>)>>

Deltas(type, index, piece) ==
  IF piece = Absent THEN <<>> ELSE <<Event(type, index, piece)>>

Single(piece) == IF piece = Absent THEN <<>> ELSE <<piece>>

\* One entry of delta.tool_calls, after those before it.
FeedCall(acc, tc) ==
  LET known == Contains(acc.order, tc.index)
  IN  [order |-> IF known THEN acc.order ELSE Append(acc.order, tc.index),
       args |-> [acc.args EXCEPT ![tc.index] = @ \o Single(tc.arg)],
       events |-> acc.events
                    \o (IF known THEN <<>> ELSE <<Event("itemAdded", tc.index + 1, <<>>)>>)
                    \o Deltas("delta", tc.index + 1, tc.arg)]

FedCalls(st, c) ==
  LET fed[n \in 0..Len(c.calls)] ==
        IF n = 0 THEN [order |-> st.order, args |-> st.args, events |-> <<>>]
        ELSE FeedCall(fed[n - 1], c.calls[n])
  IN  fed[Len(c.calls)]

\* Mutant: nothing is noted once there is a reason to finish.
NotedUsageBeforeFinish(st, c) ==
  IF c.usage = Absent \/ st.finish # "stop" THEN st.usage ELSE c.usage

\* The last usage dict, complete or not, also after the reason to finish.
NotedUsage(st, c) == IF c.usage = Absent THEN st.usage ELSE c.usage

FedEvents(st, c) ==
  Deltas("delta", 0, c.content) \o Deltas("refusal", 0, c.refusal) \o FedCalls(st, c).events

Fed(st, c) ==
  [seq |-> st.seq + Len(FedEvents(st, c)),
   text |-> st.text \o Single(c.content),
   order |-> FedCalls(st, c).order,
   args |-> FedCalls(st, c).args,
   usage |-> NotedUsage(st, c),
   finish |-> IF c.finish = Absent THEN st.finish ELSE c.finish]

\* Mutant: the item is closed with the arguments' end still to come.
CallClosedEarly(st, i) ==
  <<Event("itemDone", i + 1, st.args[i]), Event("done", i + 1, st.args[i])>>

CallClosed(st, i) ==
  <<Event("done", i + 1, st.args[i]), Event("itemDone", i + 1, st.args[i])>>

\* The output list of the completed response, per output index.
Output(st) == [i \in Items |-> IF i = 0 THEN st.text ELSE st.args[i - 1]]

Completed(st) ==
  Event("completed", 0,
        [output |-> Output(st),
         status |-> IF st.finish = "length" THEN "incomplete" ELSE "completed",
         usage |-> st.usage])

FinalEvents(st) ==
  FlattenSeq([k \in DOMAIN st.order |-> CallClosed(st, st.order[k])])
    \o <<Event("done", 0, st.text), Event("part", 0, st.text),
         Event("itemDone", 0, st.text), Completed(st)>>

-----------------------------------------------------------------------------
(* The client: a reader of the events. *)

NoView ==
  [status |-> "none", number |-> 0, item |-> [i \in Items |-> "absent"],
   body |-> [i \in Items |-> <<>>], told |-> [i \in Items |-> <<>>],
   output |-> [i \in Items |-> <<>>], usage |-> Absent, verdict |-> Absent]

Read(v, numbered) ==
  LET e == numbered.event
      counted == [v EXCEPT !.number = IF numbered.seq = @ THEN @ + 1 ELSE @]
  IN  CASE e.type = "created"   -> [counted EXCEPT !.status = "open"]
        [] e.type = "itemAdded" -> [counted EXCEPT !.item[e.index] = "open"]
        [] e.type = "delta"     -> [counted EXCEPT !.body[e.index] = Append(@, e.data)]
        [] e.type = "done"      -> [counted EXCEPT !.item[e.index] = "full",
                                                   !.told[e.index] = e.data]
        [] e.type = "itemDone"  -> [counted EXCEPT !.item[e.index] = "closed",
                                                   !.told[e.index] = e.data]
        [] e.type = "completed" -> [counted EXCEPT !.status = "over",
                                                   !.output = e.data.output,
                                                   !.verdict = e.data.status,
                                                   !.usage = e.data.usage]
        [] OTHER                -> counted

-----------------------------------------------------------------------------
(* parse_stream_usage *)

Foreign == {"anthropic", "gemini"}

Complete(c) == c.usage \in Usages

\* _parse_openai_usage: the last chunk with both counts.
LastUsage(chunks) ==
  LET k == SelectLastInSeq(chunks, Complete)
  IN  IF k = 0 THEN "zero" ELSE chunks[k].usage

\* The other two parsers look for lines that chat chunks do not have.
ParsedUsage(chunks) == IF provider \in Foreign THEN "zero" ELSE LastUsage(chunks)

-----------------------------------------------------------------------------
(* _forward_responses_stream *)

Init ==
  /\ provider \in Providers
  /\ phase = "waiting"
  /\ state = NewState
  /\ raw = <<>> /\ out = <<>>
  /\ view = NoView
  /\ bill = "none"

\* The finally clause starts the task that bills.
Over == phase' = "over" /\ bill' = "due"

Active == phase \in {"waiting", "relaying", "closing"}

UpstreamAnswers ==
  /\ phase = "waiting" /\ phase' = "relaying"
  /\ state' = [state EXCEPT !.seq = Len(Header)]
  /\ out' = Numbered(Header, 0)
  /\ UNCHANGED <<provider, raw, view, bill>>

\* Any other status than 200, a connection that breaks, a chunk that does not
\* have the shape of a chunk: an error frame, which is no Responses event.
Fails ==
  /\ phase \in {"waiting", "relaying"} /\ out = <<>>
  /\ Over
  /\ view' = [view EXCEPT !.status = "broken"]
  /\ UNCHANGED <<provider, state, raw, out>>

\* The next chunk is read when the events of the one before are yielded.
Feed(c) ==
  /\ phase = "relaying" /\ out = <<>> /\ Len(raw) < MaxChunks
  /\ raw' = Append(raw, c)
  /\ state' = Fed(state, c)
  /\ out' = Numbered(FedEvents(state, c), state.seq)
  /\ UNCHANGED <<provider, phase, view, bill>>

Yield ==
  /\ Active /\ out # <<>>
  /\ view' = Read(view, Head(out))
  /\ out' = Tail(out)
  /\ UNCHANGED <<provider, phase, state, raw, bill>>

UpstreamEnds ==
  /\ phase = "relaying" /\ out = <<>>
  /\ phase' = "closing"
  /\ out' = Numbered(FinalEvents(state), state.seq)
  /\ state' = [state EXCEPT !.seq = @ + Len(FinalEvents(state))]
  /\ UNCHANGED <<provider, raw, view, bill>>

StreamEnds ==
  /\ phase = "closing" /\ out = <<>>
  /\ Over
  /\ UNCHANGED <<provider, state, raw, out, view>>

\* Mutant: a cancelled stream is not billed.
ClientLeavesUnbilled ==
  /\ Active /\ phase' = "over"
  /\ view' = [view EXCEPT !.status = IF @ = "over" THEN @ ELSE "broken"]
  /\ out' = <<>>
  /\ UNCHANGED <<provider, state, raw, bill>>

\* The generator is cancelled where it waits; the finally clause still runs.
ClientLeaves ==
  /\ Active /\ Over
  /\ view' = [view EXCEPT !.status = IF @ = "over" THEN @ ELSE "broken"]
  /\ out' = <<>>
  /\ UNCHANGED <<provider, state, raw>>

\* _finalize_stream_usage (module Billing has what becomes of it).
BillUsage ==
  /\ bill = "due"
  /\ bill' = ParsedUsage(raw)
  /\ UNCHANGED <<provider, phase, state, raw, out, view>>

Relay ==
  \/ UpstreamAnswers \/ Fails \/ Yield \/ UpstreamEnds \/ StreamEnds
  \/ \E c \in Chunks : Feed(c)

Next == Relay \/ ClientLeaves \/ BillUsage

Spec == Init /\ [][Next]_vars

\* The upstream answers, sends or times out; the loop runs generator and task.
FairSpec == Spec /\ WF_vars(Relay) /\ WF_vars(BillUsage)

-----------------------------------------------------------------------------
(* Properties. *)

\* The client's reading is a stream as ItemStream promises it, for every
\* sequence of chunks: what is published of an item is what was streamed of
\* it, every item opened is closed once before the response is completed, and
\* no number is missing.
Promise ==
  INSTANCE ItemStream WITH
    Pieces <- Texts \cup Arguments, status <- view.status, number <- view.number,
    item <- view.item, body <- view.body, told <- view.told, output <- view.output
ImplementsItemStream == Promise!Spec

\* The text and the arguments an upstream that does not stream would have sent
\* (chat_resp_to_responses_resp copies them).
SentText == FlattenSeq([k \in DOMAIN raw |-> Single(raw[k].content)])
ArgumentOf(tc, i) == IF tc.index = i THEN Single(tc.arg) ELSE <<>>
SentArguments(i) ==
  FlattenSeq([k \in DOMAIN raw |->
    FlattenSeq([j \in DOMAIN raw[k].calls |-> ArgumentOf(raw[k].calls[j], i)])])

\* A completed response has the whole answer: all the text and, per tool call,
\* all its arguments, wherever the chunks cut them.
NothingIsLost ==
  view.status = "over" =>
    /\ view.output[0] = SentText
    /\ \A i \in Calls : view.output[i + 1] = SentArguments(i)

\* Two parsers read the same chunks, one for the client and one for the bill.
\* When the client is told a usage with both counts it is the usage billed,
\* and when a usage is billed for a completed stream the client was told one.
\* (On a channel of another provider the bill is always zero.)
ReportedIsBilled ==
  view.status = "over" /\ bill \notin {"none", "due"} /\ provider \notin Foreign =>
    /\ view.usage \in Usages => bill = view.usage
    /\ bill # "zero" => view.usage # Absent

\* A completed response is the whole answer, at the price the client is told.
CompletedIsWhole == NothingIsLost /\ ReportedIsBilled

\* However a stream ends (by itself, by an error, by the client leaving), what
\* the upstream reported until then is billed.
EveryStreamIsBilled ==
  \A u \in Usages :
    raw # <<>> /\ Last(raw).usage = u /\ provider \notin Foreign
      ~> bill \in Usages
=============================================================================
