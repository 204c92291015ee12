---------------------------- MODULE MCResponsesStream ----------------------------
(***************************************************************************)
(* Chunks for TLC: text, a refusal, tool calls opened with and without       *)
(* arguments, two calls in one chunk, a chunk with everything at once, and   *)
(* usage reports with a finish reason, after it, and without both counts.   *)
(***************************************************************************)
EXTENDS ResponsesStream

Empty ==
  [content |-> Absent, refusal |-> Absent, calls |-> <<>>, finish |-> Absent, usage |-> Absent]
Call(i, a) == [index |-> i, arg |-> a]

MCChunks ==
  {[Empty EXCEPT !.content = "hello"],
   [Empty EXCEPT !.refusal = "no"],
   [Empty EXCEPT !.calls = <<Call(0, Absent)>>],
   [Empty EXCEPT !.calls = <<Call(1, "x")>>],
   [Empty EXCEPT !.calls = <<Call(0, "x"), Call(1, "y"), Call(0, "y")>>],
   [Empty EXCEPT !.finish = "length"],
   [Empty EXCEPT !.usage = "u1"],
   [Empty EXCEPT !.usage = "partial"],
   [Empty EXCEPT !.content = "no", !.calls = <<Call(0, "y")>>, !.finish = "length",
                 !.usage = "u2"]}
=============================================================================
