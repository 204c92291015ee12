---------------------------------- MODULE LogParsing ----------------------------------
(***************************************************************************)
(* How the log page reads a stored response.  The message file holds the      *)
(* stream as it passed, line by line, or one JSON object when the answer was  *)
(* not streamed; parseResponseParts has a branch for each.                   *)
(*                                                                          *)
(* Here an upstream answers and the answer is written both ways at once: as   *)
(* the lines of a stream and as the object an answer in one piece would be.   *)
(* A text is the sequence of its pieces.  What a line that does not start     *)
(* with data: or does not parse holds is left out: it is skipped.            *)
(*                                                                          *)
(* Source: pages/Logs/logParsing.ts.                                         *)
(***************************************************************************)
EXTENDS Integers, SequencesExt

CONSTANTS
  Pieces,     \* pieces of text; none is empty
  Indexes,    \* tool calls of an answer
  Finishes,   \* finish reasons
  MaxLines    \* bound: lines of a stream

VARIABLES
  lines,      \* the response body as a stream
  whole       \* the same response in one piece

parseVars == <<lines, whole>>

NoFinish == "none"

\* A call of an answer that has not been started.
NoCall == [name |-> "", args |-> <<>>]

NothingSaid == [reasoning |-> <<>>, content |-> <<>>, calls |-> <<>>, blocks |-> <<>>,
                errors |-> <<>>, finish |-> NoFinish]

-----------------------------------------------------------------------------
(* The reader. *)

\* Mutant: a delta starts the call over when it brings a fragment.
AppendToolCallLast(calls, d) ==
  LET old == IF d.index \in DOMAIN calls THEN calls[d.index] ELSE NoCall
      new == [name |-> IF old.name # "" THEN old.name ELSE d.name, args |-> d.args]
  IN  [i \in DOMAIN calls \cup {d.index} |-> IF i = d.index THEN new ELSE calls[i]]

\* appendOpenAIToolCalls: the first name stays, the arguments grow.
AppendToolCall(calls, d) ==
  LET old == IF d.index \in DOMAIN calls THEN calls[d.index] ELSE NoCall
      new == [name |-> IF old.name # "" THEN old.name ELSE d.name, args |-> old.args \o d.args]
  IN  [i \in DOMAIN calls \cup {d.index} |-> IF i = d.index THEN new ELSE calls[i]]

\* buildResponseWarnings
Warnings(finish, hasReasoning, hasContent, hasCalls) ==
  (IF finish = "length" THEN {"truncated"} ELSE {}) \cup
  (IF finish = "tool_calls" /\ hasCalls /\ ~hasContent THEN {"only calls"}
   ELSE IF hasReasoning /\ ~hasContent /\ finish # "length" THEN {"only reasoning"} ELSE {})

\* extractDeltaText, for the lines of a stream.
DeltaText(e) == IF e.is \in {"content", "text block"} THEN e.text ELSE <<>>

ReadLine(s, e) ==
  CASE e.is = "error" -> [s EXCEPT !.errors = Append(@, e.text)]
    [] e.is = "reasoning" -> [s EXCEPT !.reasoning = @ \o e.text]
    [] e.is = "call" -> [s EXCEPT !.calls = AppendToolCall(@, e)]
    [] e.is = "finish" -> [s EXCEPT !.finishes = Append(@, e.reason)]
    [] e.is = "block start" -> [s EXCEPT !.blocks =
         [i \in DOMAIN @ \cup {e.index} |->
            IF i = e.index THEN [name |-> e.name, args |-> <<>>] ELSE @[i]]]
    [] e.is = "block json" /\ e.index \in DOMAIN s.blocks ->
         [s EXCEPT !.blocks[e.index].args = @ \o e.args]
    [] OTHER -> [s EXCEPT !.content = @ \o DeltaText(e)]

\* A reason length anywhere is the reason of the response.
FinishReason(reasons) ==
  CASE reasons = <<>> -> NoFinish
    [] "length" \in ToSet(reasons) -> "length"
    [] OTHER -> Last(reasons)

Start == [reasoning |-> <<>>, content |-> <<>>, calls |-> <<>>, blocks |-> <<>>,
          errors |-> <<>>, finishes |-> <<>>]

\* The loop over the lines.
ReadLines(body) ==
  LET read[n \in 0..Len(body)] == IF n = 0 THEN Start ELSE ReadLine(read[n - 1], body[n])
  IN  read[Len(body)]

\* The branch of parseResponseParts for a stream.
ParseStream(body) ==
  LET s == ReadLines(body)
      finish == FinishReason(s.finishes)
  IN  [reasoning |-> s.reasoning, content |-> s.content, calls |-> s.calls,
       blocks |-> s.blocks, errors |-> s.errors, finish |-> finish,
       warnings |-> Warnings(finish, s.reasoning # <<>>, s.content # <<>>,
                             DOMAIN s.calls # {} \/ DOMAIN s.blocks # {})]

\* Its branch for the choices of a response in one piece.
ParseMessage(m) ==
  [reasoning |-> m.reasoning, content |-> m.content, calls |-> m.calls,
   blocks |-> <<>>, errors |-> <<>>, finish |-> m.finish,
   warnings |-> Warnings(m.finish, m.reasoning # <<>>, m.content # <<>>, DOMAIN m.calls # {})]

-----------------------------------------------------------------------------
(* The upstream. *)

ParseInit == lines = <<>> /\ whole = NothingSaid

Write(e) == Len(lines) < MaxLines /\ lines' = Append(lines, e)

Going == whole.finish = NoFinish /\ whole.errors = <<>>

SayReasoning(p) ==
  /\ Going
  /\ Write([is |-> "reasoning", text |-> <<p>>])
  /\ whole' = [whole EXCEPT !.reasoning = Append(@, p)]

SayContent(p) ==
  /\ Going
  /\ Write([is |-> "content", text |-> <<p>>])
  /\ whole' = [whole EXCEPT !.content = Append(@, p)]

\* The first delta of a call names it; later ones bring fragments, calls interleaved.
SayCall(i, p) ==
  /\ Going
  /\ LET new == i \notin DOMAIN whole.calls
     IN  /\ Write([is |-> "call", index |-> i, name |-> IF new THEN "search" ELSE "",
                   args |-> <<p>>])
         /\ whole' = [whole EXCEPT !.calls =
              [j \in DOMAIN @ \cup {i} |->
                 IF j # i THEN @[j]
                 ELSE [name |-> "search", args |-> IF new THEN <<p>> ELSE Append(@[i].args, p)]]]

SayFinish(f) ==
  /\ Going
  /\ Write([is |-> "finish", reason |-> f])
  /\ whole' = [whole EXCEPT !.finish = f]

SayError(p) ==
  /\ Going
  /\ Write([is |-> "error", text |-> <<p>>])
  /\ whole' = [whole EXCEPT !.errors = <<<<p>>>>]

\* The tool calls of an Anthropic stream: a block is started, then filled.
StartBlock(i) ==
  /\ Going /\ i \notin DOMAIN whole.blocks
  /\ Write([is |-> "block start", index |-> i, name |-> "search"])
  /\ whole' = [whole EXCEPT !.blocks =
       [j \in DOMAIN @ \cup {i} |-> IF j = i THEN [name |-> "search", args |-> <<>>] ELSE @[j]]]

FillBlock(i, p) ==
  /\ Going /\ i \in DOMAIN whole.blocks
  /\ Write([is |-> "block json", index |-> i, args |-> <<p>>])
  /\ whole' = [whole EXCEPT !.blocks[i].args = Append(@, p)]

ParseNext ==
  \/ \E p \in Pieces : SayReasoning(p) \/ SayContent(p) \/ SayError(p)
  \/ \E i \in Indexes, p \in Pieces : SayCall(i, p) \/ FillBlock(i, p)
  \/ \E i \in Indexes : StartBlock(i)
  \/ \E f \in Finishes : SayFinish(f)

-----------------------------------------------------------------------------
(* Properties. *)

ParseTypeOK == Len(lines) <= MaxLines /\ whole.finish \in Finishes \cup {NoFinish}

\* The log page shows the same reasoning, text, tool calls and warnings whether the
\* response was streamed or came in one piece, wherever the stream ended and
\* however its tool calls were interleaved (the two branches, 134-214 and 231-252).
StreamReadsLikeMessage ==
  LET s == ParseStream(lines)
  IN  /\ s.content = whole.content /\ s.calls = whole.calls
      /\ s.blocks = whole.blocks /\ s.errors = whole.errors
      /\ DOMAIN whole.blocks = {} /\ whole.errors = <<>> => s = ParseMessage(whole)
=============================================================================
