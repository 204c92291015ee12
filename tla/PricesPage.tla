---------------------------------- MODULE PricesPage ----------------------------------
(***************************************************************************)
(* The price table of the console.  A model has one row per unit; the page    *)
(* groups the rows by model, and the dialog edits a group in one of the modes  *)
(* that a model may be charged by.  A submission is a chain of calls, one row  *)
(* each: deletions of the rows of the other modes first, then the rows of the   *)
(* mode.  Any call may fail, or succeed and lose its answer; a failure ends     *)
(* the chain, reloads nothing and leaves the dialog open over its old rows.     *)
(* The button does not wait, so that chains may run side by side.             *)
(*                                                                          *)
(* Vendor, context length, stability and the search are left out.            *)
(*                                                                          *)
(* Source: pages/Prices/index.tsx, api/prices.ts; the table behind it is      *)
(* generated CRUD, which refuses a row that is not there.                     *)
(***************************************************************************)
EXTENDS Integers, SequencesExt, FiniteSetsExt

CONSTANTS
  PriceModels,
  FirstPrices,   \* the rows of the table at first
  PriceForms,    \* what is typed: a price, or NoPrice, for every unit
  MaxSubmits, MaxRowId    \* bounds: submissions, rows ever created

VARIABLES
  priceTable,   \* the rows at the server
  lastId,       \* the last id it gave away
  data,         \* the rows on the page
  priceLoads,   \* loads on their way: their answers, or NotRead
  open,         \* whether the dialog is visible
  editing,      \* the group it is about, or NewModel
  priceMode,
  chains,       \* submissions whose calls are not all done
  submitted,    \* submissions so far
  notice        \* the last message: the submission and its result

priceVars == <<priceTable, lastId, data, priceLoads, open, editing, priceMode, chains,
               submitted, notice>>

NoPrice == -1
NotRead == {[id |-> 0]}
NewModel == [model |-> "", rows |-> {}]
Call(op, id, model, unit, price) ==
  [op |-> op, id |-> id, model |-> model, unit |-> unit, price |-> price]

ModeUnits ==
  [token |-> {"input_token", "output_token", "cache_read_token", "cache_write_token",
              "extra_context_token"},
   request |-> {"request"}, audio_second |-> {"audio_second"}, character |-> {"character"}]

PriceInit ==
  /\ priceTable = FirstPrices
  /\ lastId = Max({r.id : r \in FirstPrices} \cup {0})
  /\ data = {} /\ priceLoads = {NotRead}
  /\ open = FALSE /\ editing = NewModel /\ priceMode = "token"
  /\ chains = {} /\ submitted = 0
  /\ notice = [no |-> 0, result |-> "none"]

-----------------------------------------------------------------------------
(* Loading and opening. *)

LoadRead(l) ==
  /\ l = NotRead
  /\ priceLoads' = (priceLoads \ {l}) \cup {priceTable}
  /\ UNCHANGED <<priceTable, lastId, data, open, editing, priceMode, chains, submitted, notice>>

LoadAnswered(l) ==
  /\ l # NotRead
  /\ priceLoads' = priceLoads \ {l}
  /\ data' = l
  /\ UNCHANGED <<priceTable, lastId, open, editing, priceMode, chains, submitted, notice>>

LoadFailed(l) ==
  /\ priceLoads' = priceLoads \ {l}
  /\ UNCHANGED <<priceTable, lastId, data, open, editing, priceMode, chains, submitted, notice>>

GroupByModel(rows) ==
  {[model |-> m, rows |-> {r \in rows : r.model = m}] : m \in {r.model : r \in rows}}

\* The mode that the gateway charges a group by.
ModeOf(rows) ==
  LET units == {r.unit : r \in rows}
  IN  IF "request" \in units THEN "request"
      ELSE IF "audio_second" \in units THEN "audio_second"
      ELSE IF "character" \in units THEN "character"
      ELSE "token"

HandleOpen(group) ==
  /\ ~open
  /\ open' = TRUE
  /\ editing' = group
  /\ priceMode' = ModeOf(group.rows)
  /\ UNCHANGED <<priceTable, lastId, data, priceLoads, chains, submitted, notice>>

CloseDialog ==
  /\ open
  /\ open' = FALSE
  /\ UNCHANGED <<priceTable, lastId, data, priceLoads, editing, priceMode, chains, submitted,
                 notice>>

SetMode(mode) ==
  /\ open /\ mode # priceMode
  /\ priceMode' = mode
  /\ UNCHANGED <<priceTable, lastId, data, priceLoads, open, editing, chains, submitted, notice>>

-----------------------------------------------------------------------------
(* Submitting. *)

\* The required fields: input and output of a new model, the price of the other modes.
FormAccepts(values) ==
  LET required == IF priceMode # "token" THEN ModeUnits[priceMode]
                  ELSE IF editing = NewModel THEN {"input_token", "output_token"}
                  ELSE {}
  IN  \A u \in required : values[u] # NoPrice

Deletion(row) == Call("delete", row.id, row.model, row.unit, row.price)

StaleRows(rows, mode) == {r \in rows : r.unit \notin ModeUnits[mode]}

\* What an edit does about a unit of the mode: a row that is there is updated, one that is
\* missing is created if it was given a price.  Of two rows of a unit the later one counts.
Upsert(group, unit, price) ==
  LET rows == {r \in group.rows : r.unit = unit}
  IN  IF rows # {}
      THEN LET row == CHOOSE r \in rows : \A q \in rows : q.id <= r.id
           IN  {Call("update", row.id, row.model, unit,
                     IF price = NoPrice THEN row.price ELSE price)}
      ELSE IF price > 0 THEN {Call("create", 0, group.model, unit, price)}
      ELSE {}

\* Each set of calls is sent when the calls of the one before it are answered.
EditCalls(group, mode, values) ==
  LET stale == SetToSeq(StaleRows(group.rows, mode))
      upsert(u) == Upsert(group, u, values[u])
      units == SetToSeq({u \in ModeUnits[mode] : upsert(u) # {}})
  IN  [i \in 1..Len(stale) |-> {Deletion(stale[i])}] \o [i \in 1..Len(units) |-> upsert(units[i])]

\* A new model's rows are created side by side.
CreateCalls(model, mode, values) ==
  {Call("create", 0, model, u, values[u]) : u \in {v \in ModeUnits[mode] : values[v] > 0}}

Start(kind, stale, stages) ==
  /\ submitted < MaxSubmits
  /\ submitted' = submitted + 1
  /\ chains' = chains \cup
       {[no |-> submitted', kind |-> kind, stale |-> stale, stages |-> stages, failed |-> FALSE]}
  /\ UNCHANGED <<priceTable, lastId, data, priceLoads, editing, priceMode>>

Reported(no, result) == notice' = [no |-> no, result |-> result]

SubmitEdit(values) ==
  /\ open /\ editing # NewModel /\ FormAccepts(values)
  /\ LET calls == EditCalls(editing, priceMode, values)
     IN  /\ calls # <<>>     \* a group has rows, so that there is always a call
         /\ Start("edit", StaleRows(editing.rows, priceMode), calls)
  /\ UNCHANGED <<open, notice>>

SubmitNew(model, values) ==
  /\ open /\ editing = NewModel /\ FormAccepts(values)
  /\ LET calls == CreateCalls(model, priceMode, values)
     IN  /\ calls # {}       \* otherwise a warning
         /\ Start("create", {}, <<calls>>)
  /\ UNCHANGED <<open, notice>>

\* A group is deleted, all rows side by side.
HandleDeleteModel(group) ==
  /\ Start("deletion", group.rows, <<{Deletion(r) : r \in group.rows}>>)
  /\ UNCHANGED <<open, notice>>

-----------------------------------------------------------------------------
(* The calls of a chain. *)

Feasible(call) ==
  IF call.op = "create" THEN lastId < MaxRowId
  ELSE \E r \in priceTable : r.id = call.id

Effect(call) ==
  LET row == [id |-> IF call.op = "create" THEN lastId + 1 ELSE call.id,
              model |-> call.model, unit |-> call.unit, price |-> call.price]
      others == {r \in priceTable : r.id # row.id}
  IN  /\ priceTable' = IF call.op = "delete" THEN others ELSE others \cup {row}
      /\ lastId' = IF call.op = "create" THEN lastId + 1 ELSE lastId

\* Mutant: a stage whose calls are all answered is still waited for.
RestWaitingOn(chain, call) ==
  [chain EXCEPT !.stages = <<Head(@) \ {call}>> \o Tail(@)]

\* The chain without a call that is answered; a chain without calls is gone.
Rest(chain, call) ==
  LET now == Head(chain.stages) \ {call}
  IN  [chain EXCEPT !.stages = IF now = {} THEN Tail(@) ELSE <<now>> \o Tail(@)]

Answered(chain, call) ==
  /\ Feasible(call) /\ Effect(call)
  /\ LET rest == Rest(chain, call)
         ends == rest.stages = <<>>
         reports == ends /\ ~chain.failed
     IN  /\ chains' = (chains \ {chain}) \cup (IF ends THEN {} ELSE {rest})
         /\ IF reports
            THEN /\ Reported(chain.no, "done")
                 /\ priceLoads' = priceLoads \cup {NotRead}
                 /\ open' = (open /\ chain.kind = "deletion")
            ELSE UNCHANGED <<notice, priceLoads, open>>
  /\ UNCHANGED <<data, editing, priceMode, submitted>>

\* Mutant: a chain goes on after a call that failed.
RefusedGoesOn(chain, call) ==
  /\ UNCHANGED <<priceTable, lastId>>
  /\ LET rest == Rest(chain, call)
         ends == rest.stages = <<>>
     IN  /\ chains' = (chains \ {chain}) \cup (IF ends THEN {} ELSE {rest})
         /\ Reported(chain.no, IF ends THEN "done" ELSE "failed")
  /\ UNCHANGED <<data, priceLoads, open, editing, priceMode, submitted>>

\* The calls that are already sent go on; they are not waited for any more.
Refused(chain, call) ==
  /\ \/ UNCHANGED <<priceTable, lastId>>
     \/ Feasible(call) /\ Effect(call)
  /\ LET sent == Head(chain.stages) \ {call}
     IN  chains' = (chains \ {chain}) \cup
           (IF sent = {} THEN {} ELSE {[chain EXCEPT !.stages = <<sent>>, !.failed = TRUE]})
  /\ IF chain.failed THEN UNCHANGED notice ELSE Reported(chain.no, "failed")
  /\ UNCHANGED <<data, priceLoads, open, editing, priceMode, submitted>>

PriceNext ==
  \/ \E l \in priceLoads : LoadRead(l) \/ LoadAnswered(l) \/ LoadFailed(l)
  \/ \E g \in GroupByModel(data) \cup {NewModel} : HandleOpen(g)
  \/ CloseDialog
  \/ \E mode \in DOMAIN ModeUnits : SetMode(mode)
  \/ \E v \in PriceForms : SubmitEdit(v) \/ \E m \in PriceModels : SubmitNew(m, v)
  \/ \E g \in GroupByModel(data) : HandleDeleteModel(g)
  \/ \E chain \in chains : \E call \in Head(chain.stages) :
       Answered(chain, call) \/ Refused(chain, call)

-----------------------------------------------------------------------------
(* Properties. *)

Units == UNION {ModeUnits[mode] : mode \in DOMAIN ModeUnits}
PriceRows == [id : Nat \ {0}, model : PriceModels, unit : Units, price : Int]
PriceCalls ==
  [op : {"create", "update", "delete"}, id : Nat, model : PriceModels, unit : Units, price : Int]

\* Calls that are sent side by side; there is no empty stage, which nothing would end.
Stages == (SUBSET PriceCalls) \ {{}}

ChainTypeOK(chain) ==
  /\ chain.no \in 1..submitted /\ chain.kind \in {"edit", "create", "deletion"}
  /\ chain.stale \subseteq PriceRows
  /\ chain.stages \in Seq(Stages) /\ chain.stages # <<>>
  /\ chain.failed \in BOOLEAN

PriceTypeOK ==
  /\ priceTable \subseteq PriceRows /\ \A r \in priceTable : r.id <= lastId
  /\ data \subseteq PriceRows /\ open \in BOOLEAN
  /\ \A l \in priceLoads : l = NotRead \/ l \subseteq PriceRows
  /\ editing # NewModel => editing.model \in PriceModels /\ editing.rows \subseteq PriceRows
  /\ priceMode \in DOMAIN ModeUnits
  /\ submitted \in 0..MaxSubmits
  /\ \A chain \in chains : ChainTypeOK(chain)
  /\ notice \in [no : 0..MaxSubmits, result : {"none", "done", "failed"}]

\* "Updated" or "deleted" is only said when every row that had to go is gone, whatever
\* failed on the way, whatever was retried and whatever other submission ran beside it:
\* otherwise the gateway charges by the mode that was left (comment 70-71, handleSubmit
\* 190-209, handleDeleteModel 236-244).
DoneMeansGone ==
  [][notice' # notice /\ notice'.result = "done" =>
       \A chain \in chains : chain.no = notice'.no =>
         \A gone \in chain.stale : \A r \in priceTable' : r.id # gone.id]_priceVars
=============================================================================
