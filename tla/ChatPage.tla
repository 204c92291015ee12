---------------------------------- MODULE ChatPage ----------------------------------
(***************************************************************************)
(* The conversation page: the selection of an API key, a provider and a       *)
(* model, whose lists are fetched when the key changes, and a conversation    *)
(* that is streamed into the last bubble.  The button waits for the answer;   *)
(* the enter key does not, so that two answers may stream at a time.         *)
(*                                                                          *)
(* A text is a sequence of pieces, each with the number of the request it     *)
(* answers; rendering and the curl panel are left out.                       *)
(*                                                                          *)
(* Source: pages/Chat/index.tsx.                                             *)
(***************************************************************************)
EXTENDS Integers, SequencesExt

CONSTANTS
  ChatKeys, NoKey,
  ModelsOfKey,     \* the models that the gateway lists for a key, or for the session
  MaxSends, MaxPieces, MaxSelects   \* bounds: requests, pieces of an answer, selections

VARIABLES
  key,        \* selectedKey
  chosen,     \* selectedModel, or NoModel
  offered,    \* allModels
  modelLoads, \* model lists on their way: the key each was asked for
  selects,    \* selections so far
  history,    \* bubbles
  streams,    \* sends on their way: number, assistantContent, whether it has begun
  sends,      \* sends so far
  sending

chatVars == <<key, chosen, offered, modelLoads, selects, history, streams, sends, sending>>
pickVars == <<key, chosen, offered, modelLoads, selects>>

NoModel == "none"

Bubble(role, text) == [role |-> role, text |-> text]
Failure(n) == <<n, 0>>     \* the text of an error

ChatInit ==
  /\ key = NoKey /\ chosen = NoModel
  /\ offered = {} /\ modelLoads = {NoKey} /\ selects = 0
  /\ history = <<>> /\ streams = {} /\ sends = 0 /\ sending = FALSE

-----------------------------------------------------------------------------
(* The selection. *)

SelectKey(k) ==
  /\ selects < MaxSelects /\ k # key
  /\ selects' = selects + 1
  /\ key' = k
  /\ chosen' = NoModel
  /\ modelLoads' = modelLoads \cup {k}
  /\ UNCHANGED <<offered, history, streams, sends, sending>>

\* loadModels: the list that comes last stays, whichever key it is for.
ModelsLoaded(k) ==
  /\ k \in modelLoads
  /\ modelLoads' = modelLoads \ {k}
  /\ offered' = ModelsOfKey[k]
  /\ UNCHANGED <<key, chosen, selects, history, streams, sends, sending>>

\* An answer that is not ok empties the lists, an exception leaves them.
ModelsRefused(k) ==
  /\ k \in modelLoads
  /\ modelLoads' = modelLoads \ {k}
  /\ offered' \in {{}, offered}
  /\ UNCHANGED <<key, chosen, selects, history, streams, sends, sending>>

\* A change of the provider filter clears the model.
SelectModel(m) ==
  /\ selects < MaxSelects
  /\ selects' = selects + 1
  /\ m \in offered \cup {NoModel}
  /\ chosen' = m
  /\ UNCHANGED <<key, offered, modelLoads, history, streams, sends, sending>>

-----------------------------------------------------------------------------
(* The conversation. *)

HandleSend ==
  /\ key # NoKey /\ chosen # NoModel /\ sends < MaxSends
  /\ sends' = sends + 1
  /\ sending' = TRUE
  /\ history' = history \o <<Bubble("user", <<<<sends', 0>>>>), Bubble("assistant", <<>>)>>
  /\ streams' = streams \cup {[no |-> sends', text |-> <<>>]}
  /\ UNCHANGED pickVars

\* Mutant: what was received is appended to what the bubble shows.
UpdateLastAssistantByAppending(text) ==
  [history EXCEPT ![Len(history)] = Bubble("assistant", @.text \o text)]

UpdateLastAssistant(text) == [history EXCEPT ![Len(history)] = Bubble("assistant", text)]

\* Whether the last bubble is an answer that has no text.
LastIsEmpty == history # <<>> /\ Last(history) = Bubble("assistant", <<>>)

RemoveEmptyLastAssistant == IF LastIsEmpty THEN Front(history) ELSE history

\* An error is written into the last bubble if it is empty, otherwise only announced.
WriteError(n) ==
  IF LastIsEmpty THEN UpdateLastAssistant(<<Failure(n)>>) ELSE history

Ended(s) ==
  /\ streams' = streams \ {s}
  /\ sending' = FALSE

\* A line of the stream; without a piece of text it writes what there is again.
Piece(s) ==
  /\ \E text \in {s.text, Append(s.text, <<s.no, Len(s.text) + 1>>)} :
         /\ Len(text) <= MaxPieces
         /\ streams' = (streams \ {s}) \cup {[s EXCEPT !.text = text]}
         /\ history' = UpdateLastAssistant(text)
  /\ UNCHANGED <<pickVars, sends, sending>>

\* A line of the stream with an error: the stream goes on.
ErrorLine(s) ==
  /\ history' = WriteError(s.no)
  /\ UNCHANGED <<pickVars, streams, sends, sending>>

\* An answer that is not ok.
Refused(s) ==
  /\ s.text = <<>>
  /\ history' = WriteError(s.no)
  /\ Ended(s)
  /\ UNCHANGED <<pickVars, sends>>

\* An exception of fetch or of the reader.
Broken(s) ==
  /\ history' = RemoveEmptyLastAssistant
  /\ Ended(s)
  /\ UNCHANGED <<pickVars, sends>>

Done(s) ==
  /\ Ended(s)
  /\ UNCHANGED <<pickVars, history, sends>>

ChatNext ==
  \/ \E k \in ChatKeys : SelectKey(k)
  \/ \E k \in ChatKeys \cup {NoKey} : ModelsLoaded(k) \/ ModelsRefused(k)
  \/ \E m \in offered \cup {NoModel} : SelectModel(m)
  \/ HandleSend
  \/ \E s \in streams : Piece(s) \/ ErrorLine(s) \/ Refused(s) \/ Broken(s) \/ Done(s)

-----------------------------------------------------------------------------
(* Properties. *)

ChatTypeOK ==
  /\ key \in ChatKeys \cup {NoKey}
  /\ modelLoads \subseteq ChatKeys \cup {NoKey}
  /\ sends \in 0..MaxSends /\ selects \in 0..MaxSelects
  /\ sending \in BOOLEAN
  /\ \A i \in DOMAIN history : history[i].role \in {"user", "assistant"}

\* The beginning of the answer to one request, from its first piece.
IsBeginning(text) ==
  text = <<>> \/ \E n \in 1..MaxSends :
    text \in {<<Failure(n)>>} \cup {[j \in 1..k |-> <<n, j>>] : k \in 1..MaxPieces}

\* Two answers that stream at a time, errors among them, never mix in a bubble: what a
\* bubble shows is an error or the beginning of one answer (updateLastAssistant
\* 113-119, the two senders 157-277).
NoMixedAnswers ==
  \A i \in DOMAIN history : history[i].role = "assistant" => IsBeginning(history[i].text)
=============================================================================
