----------------------------- MODULE Warehouse -----------------------------
(***************************************************************************)
(* Analytics sinks of several instances, maybe of different versions, that *)
(* share one BigQuery table: Sink.ensureSchema and EnsureSchema before the *)
(* first write, Write, and an operator who alters the table.  The service  *)
(* is external; it may fail any request, or its answer may be lost.        *)
(* Concurrent calls of one sink share one EnsureSchema (SingleFlight, see  *)
(* LazyOpen), the write stream is BigQueryStream, and an event that is not *)
(* acked, stalled or not, is processed again (Delivery).                   *)
(***************************************************************************)
CONSTANTS Writers,        \* sinks, each with the Writer it writes through
          Schema,         \* [Writers -> columns]: analytics.Current of its version
          EnsureTable,    \* writers with ensure_table
          EnsureView,     \* writers with ensure_view
          Events,         \* events with records to write
          TablesAtStart   \* what the dataset may hold at the start

\* BigQuery: a table that does not exist; one that does has columns.
NoTable == {}

IsColumn(c) == c = [name |-> c.name, type |-> c.type, required |-> c.required]

ASSUME WarehouseAssumption ==
    /\ EnsureTable \subseteq Writers
    /\ EnsureView \subseteq Writers
    /\ \A w \in Writers : Schema[w] # NoTable /\ \A c \in Schema[w] : IsColumn(c)
    /\ \A t \in TablesAtStart : \A c \in t : IsColumn(c)

VARIABLES table,       \* BigQuery: columns of the base table, or NoTable
          view,        \* BigQuery: the current view exists
          stage,       \* per writer: progress of EnsureSchema
          rows,        \* BigQuery: events whose rows are committed
          acked,       \* per writer: events acked
          conflicted   \* history: writers that took a table just created unseen

warehouseVars == <<table, view, stage, rows, acked, conflicted>>

\* New: without schema management nothing is ensured.
FirstStage(w) ==
    IF w \in EnsureTable THEN "table" ELSE IF w \in EnsureView THEN "view" ELSE "ensured"

WarehouseInit ==
    /\ table \in TablesAtStart
    /\ view = FALSE
    /\ stage = [w \in Writers |-> FirstStage(w)]
    /\ rows = {}
    /\ acked = [w \in Writers |-> {}]
    /\ conflicted = {}

-----------------------------------------------------------------------------
(* Schemas.                                                                *)

\* VerifySchema: every column of want exists with its type, and is REQUIRED
\* only if rows never leave it NULL.  Further columns are not looked at.
VerifySchema(want, have) ==
    \A f \in want : \E got \in have :
        got.name = f.name /\ got.type = f.type /\ (got.required => f.required)

\* What the service accepts: it also rejects rows without a REQUIRED column.
Accepts(have, want) ==
    /\ VerifySchema(want, have)
    /\ \A got \in have : got.required => \E f \in want : f.name = got.name

-----------------------------------------------------------------------------
(* EnsureSchema.                                                           *)

AfterTable(w) == IF w \in EnsureView THEN "view" ELSE "ensured"

\* Mutant of TableMetadata: a table that exists is taken as it is.
TableMetadataUnverified(w) ==
    /\ stage[w] = "table"
    /\ stage' = [stage EXCEPT ![w] = IF table = NoTable THEN "missing" ELSE AfterTable(w)]
    /\ conflicted' = conflicted \ {w}
    /\ UNCHANGED <<table, view, rows, acked>>

\* Mutant of TableMetadata: further columns are a mismatch.
TableMetadataExact(w) ==
    /\ stage[w] = "table"
    /\ table \in {NoTable, Schema[w]}
    /\ stage' = [stage EXCEPT ![w] = IF table = NoTable THEN "missing" ELSE AfterTable(w)]
    /\ conflicted' = conflicted \ {w}
    /\ UNCHANGED <<table, view, rows, acked>>

\* ensureTable asks for the base table.  One that does not fit is a permanent
\* error, and a failed request an error: the next event asks again.
TableMetadata(w) ==
    /\ stage[w] = "table"
    /\ table # NoTable => VerifySchema(Schema[w], table)
    /\ stage' = [stage EXCEPT ![w] = IF table = NoTable THEN "missing" ELSE AfterTable(w)]
    /\ conflicted' = conflicted \ {w}
    /\ UNCHANGED <<table, view, rows, acked>>

\* ensureTable creates it; a conflict means that somebody else just did.
CreateTable(w) ==
    /\ stage[w] = "missing"
    /\ stage' = [stage EXCEPT ![w] = AfterTable(w)]
    /\ \/ /\ table = NoTable
          /\ table' = Schema[w]
          /\ UNCHANGED conflicted
       \/ /\ table # NoTable
          /\ conflicted' = conflicted \union {w}
          /\ UNCHANGED table
    /\ UNCHANGED <<view, rows, acked>>

\* Create takes effect, and its answer is lost.
CreateUnconfirmed(w) ==
    /\ stage[w] = "missing"
    /\ table = NoTable
    /\ table' = Schema[w]
    /\ stage' = [stage EXCEPT ![w] = FirstStage(w)]
    /\ UNCHANGED <<view, rows, acked, conflicted>>

\* The same for the view, which is not verified: it exists, is created, or was
\* created by somebody else between the two requests.
ViewEnsured(w) ==
    /\ stage[w] = "view"
    /\ view \/ table # NoTable
    /\ view' = TRUE
    /\ stage' = [stage EXCEPT ![w] = "ensured"]
    /\ UNCHANGED <<table, rows, acked, conflicted>>

\* EnsureSchema returns an error, and the next event starts it over.
EnsureFails(w) ==
    /\ stage[w] \in {"missing", "view"}
    /\ stage' = [stage EXCEPT ![w] = FirstStage(w)]
    /\ UNCHANGED <<table, view, rows, acked, conflicted>>

-----------------------------------------------------------------------------
\* Write: the rows are committed; the answer arrives and the event is acked, or
\* one of the two is lost.  A rejected append changes nothing.
AppendRows(w, e) ==
    /\ stage[w] = "ensured"
    /\ e \notin acked[w]
    /\ table # NoTable /\ Accepts(table, Schema[w])
    /\ rows' = rows \union {e}
    /\ acked' \in {acked, [acked EXCEPT ![w] = @ \union {e}]}
    /\ UNCHANGED <<table, view, stage, conflicted>>

\* The instance restarts; EnsureSchema runs again.
RestartWriter(w) ==
    /\ stage' = [stage EXCEPT ![w] = FirstStage(w)]
    /\ conflicted' = conflicted \ {w}
    /\ UNCHANGED <<table, view, rows, acked>>

\* What an operator told of a mismatch can do: add the columns that are missing
\* and relax the ones that are REQUIRED.
AlterTable(w) ==
    /\ table # NoTable
    /\ ~Accepts(table, Schema[w])
    /\ table' = {[c EXCEPT !.required = FALSE] :
                    c \in table \union {f \in Schema[w] : \A got \in table : got.name # f.name}}
    /\ UNCHANGED <<view, stage, rows, acked, conflicted>>

Progress(w) ==
    \/ TableMetadata(w) \/ CreateTable(w) \/ ViewEnsured(w)
    \/ \E e \in Events : AppendRows(w, e)

WarehouseNext ==
    \E w \in Writers : Progress(w) \/ CreateUnconfirmed(w) \/ EnsureFails(w) \/ RestartWriter(w) \/ AlterTable(w)

WarehouseSpec == WarehouseInit /\ [][WarehouseNext]_warehouseVars

\* Failed requests and restarts end some day, an operator repairs a table that
\* does not fit, and an event that is not acked is processed again.
WarehouseFairness ==
    /\ <>[][\A w \in Writers : ~EnsureFails(w) /\ ~RestartWriter(w)]_warehouseVars
    /\ \A w \in Writers :
          /\ WF_warehouseVars(AlterTable(w))
          /\ WF_warehouseVars(TableMetadata(w) \/ CreateTable(w) \/ ViewEnsured(w))
          /\ \A e \in Events : WF_warehouseVars(AppendRows(w, e) /\ acked' # acked)

-----------------------------------------------------------------------------
(* Properties.                                                             *)

\* A sink that manages its table writes only to one that passed VerifySchema,
\* or would: every column of its rows is there with its type, and REQUIRED only
\* if its rows fill it, whichever instance and version created the table, with
\* columns added and relaxed, and whatever failed or was repeated on the way.
\* The service may still refuse the rows for a further column that is REQUIRED,
\* which VerifySchema does not look at.  A sink whose Create met a conflict
\* takes that table unseen and is not spoken of (ensureTable).
VerifiedBeforeWrite ==
    \A w \in EnsureTable \ conflicted :
        stage[w] \in {"view", "ensured"} =>
            table # NoTable /\ VerifySchema(Schema[w], table)

\* No failure of the schema management is final: every event of every sink is
\* in the table in the end, also after an unreachable warehouse, a creation
\* that was lost half-way, one that another version won, and a mismatch that
\* the operator repairs (Sink.ensureSchema, EnsureSchema, Write).
EveryEventArrives ==
    \A w \in EnsureTable : <>(acked[w] = Events /\ Events \subseteq rows)
=============================================================================
