------------------------------ MODULE MCEdges ------------------------------
(***************************************************************************)
(* Small instances of the protocols at the edges of the service: the       *)
(* receiver, forward sinks between buses, embedded servers and their       *)
(* directories, the in-process driver, redelivery delays, the warehouse    *)
(* table.  They share no state: a behaviour follows one of them, named by  *)
(* part, while the others rest.                                            *)
(***************************************************************************)
EXTENDS Ingress, Forward, EmbeddedStore, Gochannel, NakDelays, Warehouse, TLC

CONSTANTS A, B, C,      \* ingress buses
          f1, f2, f3,   \* forward sinks
          e1, e2, e3,   \* buses with an embedded server
          w1, w2, w3    \* analytics sinks

VARIABLE part   \* webhook, loop, rivals, store, memory, delays or warehouse

allVars == <<part, vars, forwardVars, storeVars, memoryVars, nakVars, warehouseVars>>

-----------------------------------------------------------------------------
\* The receiver: two requests, which may carry one GUID.  Before a request
\* arrives its GUID means nothing, so every behaviour begins with the same.
NoGuid == CHOOSE u \in Uuids : TRUE

Receiving ==
    /\ part = "webhook"
    /\ Next
    /\ UNCHANGED <<part, forwardVars, storeVars, memoryVars, nakVars, warehouseVars>>

-----------------------------------------------------------------------------
(* Forward sinks.  Two deployments on one broker: instances A and B that   *)
(* forward to each other, and instance A forwarding to a bus whose stream  *)
(* name instance C uses for another topic.                                 *)

ThreeIngresses == {A, B, C}
ThreeForwards == {f1, f2, f3}
Sources3 == f1 :> A @@ f2 :> B @@ f3 :> A
Topics == A :> "a" @@ f2 :> "a" @@ B :> "b" @@ f1 :> "b" @@ C :> "c" @@ f3 :> "d"
StreamNames == A :> "s1" @@ f2 :> "s1" @@ B :> "s2" @@ f1 :> "s2" @@ C :> "s3" @@ f3 :> "s3"
SameName == [f \in ThreeForwards |-> "forward"]
FewHops == [f \in ThreeForwards |-> IF f = f1 THEN 3 ELSE 2]
OneLegacy == {A}
NoTopic == "none"

Deployed == IF part = "loop" THEN {A, B, f1, f2} ELSE {A, C, f3}

Forwards3 ==
    /\ part \in {"loop", "rivals"}
    /\ ForwardNext
    /\ \A b \in Buses \ Deployed : target'[b] = "closed"
    /\ UNCHANGED <<part, vars, storeVars, memoryVars, nakVars, warehouseVars>>

-----------------------------------------------------------------------------
(* Embedded servers: two buses on one directory and one on its own.        *)

ThreeEmbedded == {e1, e2, e3}
Directories == e1 :> "shared" @@ e2 :> "shared" @@ e3 :> "own"

Stores ==
    /\ part = "store"
    /\ StoreNext
    /\ UNCHANGED <<part, vars, forwardVars, memoryVars, nakVars, warehouseVars>>

-----------------------------------------------------------------------------
InMemory ==
    /\ part = "memory"
    /\ MemoryNext
    /\ UNCHANGED <<part, vars, forwardVars, storeVars, nakVars, warehouseVars>>

Nacking ==
    /\ part = "delays"
    /\ Nacked
    /\ UNCHANGED <<part, vars, forwardVars, storeVars, memoryVars, warehouseVars>>

-----------------------------------------------------------------------------
(* The warehouse: instances of two versions, the newer of which has a      *)
(* column more and one less that is REQUIRED, and a sink that only keeps   *)
(* the view.  The table is missing, the old one, or made by hand.          *)

Column(name, required) == [name |-> name, type |-> "STRING", required |-> required]
OldSchema == {Column("record_id", TRUE), Column("state", TRUE)}
NewSchema == {Column("record_id", TRUE), Column("state", FALSE), Column("extra", FALSE)}
HandMade == OldSchema \union {Column("comment", TRUE)}

ThreeWriters == {w1, w2, w3}
TwoVersions == w1 :> OldSchema @@ w2 :> NewSchema @@ w3 :> NewSchema
TableKeepers == {w1, w2}
ViewKeepers == {w1, w3}
SomeTables == {NoTable, OldSchema, HandMade}

Analytics ==
    /\ part = "warehouse"
    /\ WarehouseNext
    /\ UNCHANGED <<part, vars, forwardVars, storeVars, memoryVars, nakVars>>

\* The warehouse rests with everything written.
WarehouseRests ==
    /\ table = NewSchema
    /\ view = TRUE
    /\ stage = [w \in Writers |-> "ensured"]
    /\ rows = Events
    /\ acked = [w \in Writers |-> Events]
    /\ conflicted = {}

-----------------------------------------------------------------------------
\* Forward sinks rest with the buses of the loop open and no event received.
ForwardRests ==
    /\ target = [b \in Buses |-> IF b \in {C, f3} THEN "closed" ELSE "open"]
    /\ subject = [n \in Streams |-> CASE n = "s1" -> "a" [] n = "s2" -> "b" [] OTHER -> NoTopic]
    /\ kept = [n \in Streams |-> {}]
    /\ window = kept
    /\ done = [f \in Forwards |-> {}]
    /\ forgotten = {}
    /\ raced = {}

EdgesInit ==
    /\ part \in {"webhook", "loop", "rivals", "store", "memory", "delays", "warehouse"}
    /\ Init /\ \A r \in Requests : req[r].guid = NoGuid
    /\ IF part \in {"loop", "rivals"} THEN ForwardInit ELSE ForwardRests
    /\ StoreInit
    /\ MemoryInit /\ (part # "memory" => start = "earliest")
    /\ NakInit /\ (part # "delays" => nakDelayMin = 1 /\ nakDelayMax = 1)
    /\ IF part = "warehouse" THEN WarehouseInit ELSE WarehouseRests

\* Every part rests in a state where none of its fair actions is enabled.
EdgesSpec ==
    /\ EdgesInit
    /\ [][Receiving \/ Forwards3 \/ Stores \/ InMemory \/ Nacking \/ Analytics]_allVars
    /\ Fairness
    /\ ForwardFairness
    /\ StoreFairness
    /\ MemoryFairness
    /\ WarehouseFairness
=============================================================================
