--------------------------------- MODULE ChannelsPage ---------------------------------
(***************************************************************************)
(* The Channels page of the console: the table, the drawer that edits a      *)
(* channel and its aliases, the dialog that ticks the models of a channel    *)
(* and the editor of the voices of a model.  Every request is a call that    *)
(* the server takes up and answers at its own pace; the answers come back in *)
(* any order, and the dialogs may be closed and opened again meanwhile.      *)
(*                                                                          *)
(* Name, provider, address, weight, switches and protocol of a channel are   *)
(* one value (its settings).  The drawer edits one alias of the mapping.    *)
(* A line of the voice editor is a record that says what the line is read    *)
(* as; quoting and escapes are left out.                                    *)
(*                                                                          *)
(* Sources: pages/Channels/index.tsx and api/channels.ts of the console.     *)
(***************************************************************************)
EXTENDS Integers, FiniteSets, SequencesExt

CONSTANTS
  Channels, Models,
  Upstream,     \* the models that the upstream of a channel lists
  FirstRows,    \* the table of channels before the first call
  Texts,        \* what may be typed into the voice editor: sequences of lines
  Forms,        \* what may be typed into the drawer: settings, key and alias rules
  MaxCalls,     \* bound: calls of the page, not counting the reads that follow a write
  MaxEdits      \* bound: edits in the drawer and the dialog

VARIABLES
  rows,         \* the server's channels
  listed,       \* data: the channels as the page last read them
  drawer,       \* the drawer: closed, or the channel it edits and its fields
  dialog,       \* the model dialog: closed, or its channel and draft
  candidates,   \* upstreamIds: NotLoaded or a set of models
  cache,        \* upstreamCache
  seq,          \* upstreamFetchSeq
  calls,        \* requests on their way, with the server's answer once there is one
  sent,         \* calls so far
  edits         \* edits so far

channelVars == <<rows, listed, drawer, dialog, candidates, cache, seq, calls, sent, edits>>

Gone == [conf |-> 0, key |-> "none", mapping |-> {}, models |-> <<>>]
Closed == [id |-> "closed"]
NotLoaded == {"not loaded"}
NewChannel == "new channel"
NoBody == [nothing |-> TRUE]

-----------------------------------------------------------------------------
(* The voice editor. *)

BadText == [bad |-> TRUE, voices |-> <<>>]

ReadLine(read, line) ==
  LET n == Len(read.voices)
  IN  CASE read.bad \/ line.is = "comment" -> read
        [] line.is = "section" ->
             IF line.text = "" \/ \E i \in 1..n : read.voices[i].voice = line.text
             THEN BadText
             ELSE [read EXCEPT !.voices = Append(@, [voice |-> line.text, info |-> "", trial |-> ""])]
        [] line.is = "info" /\ n > 0 -> [read EXCEPT !.voices[n].info = line.text]
        [] line.is = "trial" /\ n > 0 ->
             IF line.text = "" THEN read ELSE [read EXCEPT !.voices[n].trial = line.text]
        [] OTHER -> BadText

ParseVoices(text) == FoldLeft(ReadLine, [bad |-> FALSE, voices |-> <<>>], text)

-----------------------------------------------------------------------------
(* The columns of a channel. *)

\* An entry of the models column that is a bare name, or an object with nothing else.
Plain == [extra |-> FALSE, tts |-> FALSE, voices |-> <<>>]

ParseModelIds(models) == DOMAIN models

\* parseModelsDetail: the voices of the entries that have them.
VoicesOf(models) ==
  [m \in {n \in DOMAIN models : models[n].tts} |-> models[m].voices]

\* handleSaveModels: an entry without the TTS tick is saved as it was read.
ModelsPayload(d) ==
  [m \in d.selected |->
     LET old == IF m \in DOMAIN d.originals THEN d.originals[m] ELSE Plain
     IN  IF m \in DOMAIN d.voices THEN [old EXCEPT !.tts = TRUE, !.voices = d.voices[m]] ELSE old]

\* The rules of the drawer's mapping editor: both ends filled, no alias twice.
MappingValid(m) ==
  /\ \A i \in DOMAIN m : m[i].from # "" /\ m[i].to # ""
  /\ IsInjective([i \in DOMAIN m |-> m[i].from])

\* Mutant: the payload of the drawer carries the models of the row it was opened on.
DrawerPayloadWhole(d) ==
  [conf |-> d.conf, mapping |-> ToSet(d.mapping), key |-> d.key,
   models |-> IF d.id \in Channels THEN listed[d.id].models ELSE <<>>]

\* The PATCH of the drawer; key "" stands for a payload without api_key.
DrawerPayload(d) == [conf |-> d.conf, mapping |-> ToSet(d.mapping), key |-> d.key]

Patched(row, p) ==
  [f \in DOMAIN row |-> IF f \in DOMAIN p /\ ~(f = "key" /\ p[f] = "") THEN p[f] ELSE row[f]]

-----------------------------------------------------------------------------
(* Calls. *)

\* Tells calls of one kind apart.
Unused(kind) ==
  CHOOSE n \in 1..(Cardinality(calls) + 1) : \A c \in calls : c.kind = kind => c.no # n

Call(kind, id, body, n) ==
  [kind |-> kind, id |-> id, body |-> body, seq |-> n, no |-> Unused(kind),
   status |-> "pending", rows |-> FirstRows, ids |-> {}]

Waiting(kind) == \E c \in calls : c.kind = kind

Send(c) ==
  /\ sent < MaxCalls
  /\ sent' = sent + 1
  /\ calls' = calls \cup {c}

Edit == edits < MaxEdits /\ edits' = edits + 1

\* loadingUpstream
LoadingUpstream == \E c \in calls : c.kind = "upstream" /\ c.seq = seq

\* A dialog or the drawer covers the page.
Uncovered == drawer = Closed /\ dialog = Closed

ChannelsInit ==
  /\ rows = FirstRows
  /\ listed = FirstRows
  /\ drawer = Closed /\ dialog = Closed
  /\ candidates = NotLoaded
  /\ cache = [c \in Channels |-> NotLoaded]
  /\ seq = 0
  /\ calls = {} /\ sent = 0 /\ edits = 0

OpenCreate ==
  /\ Uncovered
  /\ drawer' = [id |-> NewChannel, conf |-> 1, key |-> "", mapping |-> <<>>]
  /\ UNCHANGED <<rows, listed, dialog, candidates, cache, seq, calls, sent, edits>>

OpenEdit(c) ==
  /\ drawer' = [id |-> c, conf |-> listed[c].conf, key |-> "",
                mapping |-> SetToSeq(listed[c].mapping)]
  /\ UNCHANGED <<rows, listed, dialog, candidates, cache, seq, calls, sent, edits>>

\* The fields of the form; the address of a socket is one of the settings.
FillSettings(conf, key) ==
  /\ drawer # Closed
  /\ Edit
  /\ drawer' = [drawer EXCEPT !.conf = conf, !.key = key]
  /\ UNCHANGED <<rows, listed, dialog, candidates, cache, seq, calls, sent>>

\* addMapping, updateMapping and removeMapping.
FillMapping(mapping) ==
  /\ drawer # Closed
  /\ Edit
  /\ drawer' = [drawer EXCEPT !.mapping = mapping]
  /\ UNCHANGED <<rows, listed, dialog, candidates, cache, seq, calls, sent>>

CloseDrawer ==
  /\ drawer # Closed
  /\ drawer' = Closed
  /\ UNCHANGED <<rows, listed, dialog, candidates, cache, seq, calls, sent, edits>>

HandleSubmit ==
  /\ drawer # Closed /\ ~Waiting("create") /\ ~Waiting("edit")
  /\ drawer.id = NewChannel => drawer.key # ""
  /\ MappingValid(drawer.mapping)
  /\ Send(Call(IF drawer.id = NewChannel THEN "create" ELSE "edit", drawer.id,
               DrawerPayload(drawer), 0))
  /\ UNCHANGED <<rows, listed, drawer, dialog, candidates, cache, seq, edits>>

HandleDelete(c) ==
  /\ Send(Call("delete", c, NoBody, 0))
  /\ UNCHANGED <<rows, listed, drawer, dialog, candidates, cache, seq, edits>>

-----------------------------------------------------------------------------
(* The model dialog. *)

OpenManageModels(c) ==
  /\ dialog' = [id |-> c, selected |-> ParseModelIds(listed[c].models),
                originals |-> listed[c].models, voices |-> VoicesOf(listed[c].models)]
  /\ candidates' = cache[c]
  /\ IF cache[c] # NotLoaded
     THEN UNCHANGED <<seq, calls, sent>>
     ELSE seq' = seq + 1 /\ Send(Call("upstream", c, NoBody, seq + 1))
  /\ UNCHANGED <<rows, listed, drawer, cache, edits>>

\* The refresh button loads although the cache has an answer.
RefreshUpstream ==
  /\ dialog # Closed /\ ~LoadingUpstream
  /\ seq' = seq + 1
  /\ Send(Call("upstream", dialog.id, NoBody, seq + 1))
  /\ UNCHANGED <<rows, listed, drawer, dialog, candidates, cache, edits>>

\* What the dialog shows: the ticked models, whether listed or not, and the candidates.
Shown == dialog.selected \cup (IF candidates = NotLoaded THEN {} ELSE candidates)

\* toggleModel and, for a name that is not shown, addManualModel.
ToggleModel(m) ==
  /\ dialog # Closed
  /\ Edit
  /\ dialog' = [dialog EXCEPT !.selected = IF m \in @ THEN @ \ {m} ELSE @ \cup {m}]
  /\ UNCHANGED <<rows, listed, drawer, candidates, cache, seq, calls, sent>>

\* selectAllVisible, and the button that clears the ticks.
TickAll(S) ==
  /\ dialog # Closed
  /\ Edit
  /\ dialog' = [dialog EXCEPT !.selected = S]
  /\ UNCHANGED <<rows, listed, drawer, candidates, cache, seq, calls, sent>>

\* toggleTtsModel, with the confirmation given.
ToggleTts(m) ==
  /\ dialog # Closed
  /\ Edit
  /\ m \in dialog.selected
  /\ dialog' = [dialog EXCEPT !.voices =
       IF m \in DOMAIN @
       THEN [n \in DOMAIN @ \ {m} |-> @[n]]
       ELSE [n \in DOMAIN @ \cup {m} |-> IF n = m THEN <<>> ELSE @[n]]]
  /\ UNCHANGED <<rows, listed, drawer, candidates, cache, seq, calls, sent>>

\* saveVoiceEditor: a text that cannot be read leaves the draft alone.
SaveVoiceEditor(m, text) ==
  /\ dialog # Closed
  /\ Edit
  /\ m \in dialog.selected \cap DOMAIN dialog.voices
  /\ ~ParseVoices(text).bad
  /\ dialog' = [dialog EXCEPT !.voices[m] = ParseVoices(text).voices]
  /\ UNCHANGED <<rows, listed, drawer, candidates, cache, seq, calls, sent>>

CloseDialog ==
  /\ dialog # Closed
  /\ dialog' = Closed
  /\ UNCHANGED <<rows, listed, drawer, candidates, cache, seq, calls, sent, edits>>

HandleSaveModels ==
  /\ dialog # Closed /\ ~Waiting("models")
  /\ Send(Call("models", dialog.id, [models |-> ModelsPayload(dialog)], 0))
  /\ UNCHANGED <<rows, listed, drawer, dialog, candidates, cache, seq, edits>>

-----------------------------------------------------------------------------
(* The server, and the answers. *)

Answered(c, status) ==
  calls' = {d \in calls : <<d.kind, d.no>> # <<c.kind, c.no>>} \cup {[c EXCEPT !.status = status]}

\* The server takes up a call; the caller may never hear that it succeeded.
Serve(c) ==
  /\ c.status = "pending"
  /\ CASE c.kind = "list" -> rows' = rows /\ Answered([c EXCEPT !.rows = rows], "ok")
       [] c.kind = "upstream" -> rows' = rows /\ Answered([c EXCEPT !.ids = Upstream[c.id]], "ok")
       [] c.kind = "create" ->
            /\ \E id \in {i \in Channels : rows[i] = Gone} :
                 rows' = [rows EXCEPT ![id] = Patched([Gone EXCEPT !.models = <<>>], c.body)]
            /\ Answered(c, "ok")
       [] c.kind = "delete" ->
            rows' = [rows EXCEPT ![c.id] = Gone] /\ Answered(c, "ok")
       [] OTHER ->
            IF rows[c.id] = Gone
            THEN rows' = rows /\ Answered(c, "error")
            ELSE rows' = [rows EXCEPT ![c.id] = Patched(@, c.body)] /\ Answered(c, "ok")
  /\ UNCHANGED <<listed, drawer, dialog, candidates, cache, seq, sent, edits>>

\* The call fails, or its answer is lost.
Fail(c) ==
  /\ c.status # "error"
  /\ Answered(c, "error")
  /\ UNCHANGED <<rows, listed, drawer, dialog, candidates, cache, seq, sent, edits>>

\* fetchData, on the way out of the handler that calls it.
ThenFetch(c) ==
  /\ calls' = (calls \ {c}) \cup {Call("list", NewChannel, NoBody, 0)}

Failed(c) ==
  /\ c.status = "error"
  /\ calls' = calls \ {c}
  /\ candidates' = IF c.kind = "upstream" /\ c.seq = seq THEN {} ELSE candidates
  /\ UNCHANGED <<rows, listed, drawer, dialog, cache, seq, sent, edits>>

Listed(c) ==
  /\ c.kind = "list" /\ c.status = "ok"
  /\ listed' = c.rows
  /\ calls' = calls \ {c}
  /\ UNCHANGED <<rows, drawer, dialog, candidates, cache, seq, sent, edits>>

\* The drawer that is open by now closes, whichever channel it edits.
Submitted(c) ==
  /\ c.kind \in {"create", "edit"} /\ c.status = "ok"
  /\ drawer' = Closed
  /\ ThenFetch(c)
  /\ UNCHANGED <<rows, listed, dialog, candidates, cache, seq, sent, edits>>

Deleted(c) ==
  /\ c.kind = "delete" /\ c.status = "ok"
  /\ ThenFetch(c)
  /\ UNCHANGED <<rows, listed, drawer, dialog, candidates, cache, seq, sent, edits>>

ModelsSaved(c) ==
  /\ c.kind = "models" /\ c.status = "ok"
  /\ dialog' = Closed
  /\ ThenFetch(c)
  /\ UNCHANGED <<rows, listed, drawer, candidates, cache, seq, sent, edits>>

\* loadUpstreamModels, after the await.
UpstreamLoaded(c) ==
  /\ c.kind = "upstream" /\ c.status = "ok"
  /\ calls' = calls \ {c}
  /\ IF c.seq # seq
     THEN UNCHANGED <<cache, candidates>>
     ELSE cache' = [cache EXCEPT ![c.id] = c.ids] /\ candidates' = c.ids
  /\ UNCHANGED <<rows, listed, drawer, dialog, seq, sent, edits>>

-----------------------------------------------------------------------------
(* What each part of the page lets the user do. *)

RowActions(c) ==
  /\ Uncovered /\ listed[c] # Gone
  /\ OpenEdit(c) \/ HandleDelete(c) \/ OpenManageModels(c)

DialogActions ==
  \/ RefreshUpstream
  \/ TickAll({}) \/ (dialog # Closed /\ TickAll(Shown))
  \/ \E m \in Models : ToggleModel(m) \/ ToggleTts(m)

VoiceEditor == \E m \in Models, text \in Texts : SaveVoiceEditor(m, text)

ChannelsNext ==
  \/ OpenCreate
  \/ \E c \in Channels : RowActions(c)
  \/ \E f \in Forms : FillSettings(f.conf, f.key) \/ FillMapping(f.mapping)
  \/ CloseDrawer \/ HandleSubmit
  \/ DialogActions \/ VoiceEditor \/ CloseDialog \/ HandleSaveModels
  \/ \E c \in calls :
       \/ Serve(c) \/ Fail(c) \/ Failed(c) \/ Listed(c) \/ Submitted(c) \/ Deleted(c)
       \/ ModelsSaved(c) \/ UpstreamLoaded(c)

-----------------------------------------------------------------------------
(* Properties. *)

ChannelsTypeOK ==
  /\ DOMAIN rows = Channels /\ DOMAIN listed = Channels
  /\ dialog = Closed \/ dialog.id \in Channels
  /\ candidates \in {NotLoaded} \cup SUBSET Models
  /\ cache \in [Channels -> {NotLoaded} \cup SUBSET Models]
  /\ sent \in 0..MaxCalls /\ seq \in 0..sent /\ edits \in 0..MaxEdits
  /\ \A c \in calls :
       /\ DOMAIN c.rows = Channels /\ c.ids \subseteq Models
       /\ c.kind = "upstream" => c.id \in Channels

\* The drawer and the model dialog save disjoint columns of a channel, from rows
\* that may be out of date: the models of a channel only change to those that a save of
\* the dialog asked for, and with them nothing else does, so that saving the settings
\* does not bring back old models, and saving the models does not bring back old
\* settings, aliases or keys (handleSubmit 369-387, handleSaveModels 577-579).
SavesKeepTheRest ==
  [][\A c \in Channels : rows[c] # Gone /\ rows'[c] # Gone =>
       \/ rows'[c].models = rows[c].models
       \/ \E d \in calls :
            /\ d.kind = "models" /\ d.id = c /\ d.status = "pending"
            /\ rows'[c] = [rows[c] EXCEPT !.models = d.body.models]]_channelVars
=============================================================================
