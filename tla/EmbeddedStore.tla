--------------------------- MODULE EmbeddedStore ---------------------------
(***************************************************************************)
(* The store directories of embedded NATS servers in one process: the      *)
(* openStores table, StartEmbedded and StopEmbedded, and the paths of      *)
(* natsjs.New and Bus.Close that reach them.  The ingress bus and the      *)
(* target of every forward sink are opened and closed by goroutines of     *)
(* their own; a forward target whose opening fails is tried again with the *)
(* next message.  nats-server takes no lock on its directory.              *)
(*                                                                         *)
(* An attempt to open a bus has at most one server, so the table names the *)
(* bus where the code compares server pointers.                            *)
(***************************************************************************)
CONSTANTS Embedded,  \* buses configured with an embedded server
          Dir       \* [Embedded -> directories]: store_dir as an absolute path

ASSUME StoreAssumption ==
    /\ "free" \notin Embedded
    /\ "nil" \notin Embedded

Dirs == {Dir[b] : b \in Embedded}

VARIABLES servers,   \* openStores.servers: free, nil while a server starts, or the bus
          opening,   \* progress of a bus
          live,      \* buses whose server has its files open
          closed     \* buses Bus.Close was called on

storeVars == <<servers, opening, live, closed>>

StoreTypeOK ==
    /\ servers \in [Dirs -> Embedded \union {"free", "nil"}]
    /\ opening \in [Embedded -> {"absent", "reserved", "starting", "ready", "connecting", "open",
                              "aborting", "failed", "stopping", "stopped"}]
    /\ live \subseteq Embedded
    /\ closed \subseteq Embedded

StoreInit ==
    /\ servers = [d \in Dirs |-> "free"]
    /\ opening = [b \in Embedded |-> "absent"]
    /\ live = {}
    /\ closed = {}

Goes(b, from, to) ==
    /\ opening[b] = from
    /\ opening' = [opening EXCEPT ![b] = to]

-----------------------------------------------------------------------------
(* StartEmbedded.                                                          *)

\* Mutant of ReserveStore: only a server that runs counts as taking the place.
ReserveUnlessRunning(b) ==
    /\ b \notin closed
    /\ Goes(b, "absent", "reserved")
    /\ servers[Dir[b]] \in {"free", "nil"}
    /\ servers' = [servers EXCEPT ![Dir[b]] = "nil"]
    /\ UNCHANGED <<live, closed>>

\* reserveStore; a directory that is taken makes New fail, and nothing changes.
ReserveStore(b) ==
    /\ b \notin closed
    /\ Goes(b, "absent", "reserved")
    /\ servers[Dir[b]] = "free"
    /\ servers' = [servers EXCEPT ![Dir[b]] = "nil"]
    /\ UNCHANGED <<live, closed>>

\* startServer: NewServer and Start.
StartServer(b) ==
    /\ Goes(b, "reserved", "starting")
    /\ live' = live \union {b}
    /\ UNCHANGED <<servers, closed>>

\* startServer: NewServer fails.
NewServerFails(b) ==
    /\ Goes(b, "reserved", "failed")
    /\ UNCHANGED <<servers, live, closed>>

\* startServer: ReadyForConnections.
ServerReady(b) ==
    /\ Goes(b, "starting", "ready")
    /\ UNCHANGED <<servers, live, closed>>

\* startServer: not ready within readyTimeout, Shutdown begins.
ServerNotReady(b) ==
    /\ Goes(b, "starting", "aborting")
    /\ UNCHANGED <<servers, live, closed>>

\* startServer: WaitForShutdown returns.
AbortedDown(b) ==
    /\ Goes(b, "aborting", "failed")
    /\ live' = live \ {b}
    /\ UNCHANGED <<servers, closed>>

\* Mutant of ReleaseStore: a start that failed leaves its reservation.
ReleaseNothing(b) ==
    /\ Goes(b, "failed", "absent")
    /\ UNCHANGED <<servers, live, closed>>

\* releaseStore
ReleaseStore(b) ==
    /\ Goes(b, "failed", "absent")
    /\ servers' = [servers EXCEPT ![Dir[b]] = "free"]
    /\ UNCHANGED <<live, closed>>

\* StartEmbedded: the started server takes the place of the reservation.
EnterServer(b) ==
    /\ Goes(b, "ready", "connecting")
    /\ servers' = [servers EXCEPT ![Dir[b]] = b]
    /\ UNCHANGED <<live, closed>>

-----------------------------------------------------------------------------
(* New and Close.                                                          *)

\* Connect, jetstream.New and EnsureStream succeed.
BusReady(b) ==
    /\ Goes(b, "connecting", "open")
    /\ UNCHANGED <<servers, live, closed>>

\* One of them fails: stopServer, directly or through Close.
BusFails(b) ==
    /\ Goes(b, "connecting", "stopping")
    /\ UNCHANGED <<servers, live, closed>>

CloseBus(b) ==
    /\ Goes(b, "open", "stopping")
    /\ closed' = closed \union {b}
    /\ UNCHANGED <<servers, live>>

\* StopEmbedded: Shutdown, and WaitForShutdown returns.
StoppedDown(b) ==
    /\ Goes(b, "stopping", "stopped")
    /\ live' = live \ {b}
    /\ UNCHANGED <<servers, closed>>

\* StopEmbedded: the entry that holds this server is deleted.
StoppedReleases(b) ==
    /\ Goes(b, "stopped", "absent")
    /\ servers' = [d \in Dirs |-> IF servers[d] = b THEN "free" ELSE servers[d]]
    /\ UNCHANGED <<live, closed>>

-----------------------------------------------------------------------------
\* The steps of an attempt, and of a Close, once it has begun.
StoreStep(b) ==
    \/ StartServer(b) \/ NewServerFails(b)
    \/ ServerReady(b) \/ ServerNotReady(b) \/ AbortedDown(b)
    \/ ReleaseStore(b) \/ EnterServer(b)
    \/ BusReady(b) \/ BusFails(b)
    \/ StoppedDown(b) \/ StoppedReleases(b)

StoreNext == \E b \in Embedded : ReserveStore(b) \/ StoreStep(b) \/ CloseBus(b)

StoreSpec == StoreInit /\ [][StoreNext]_storeVars

\* Every wait of an attempt is bounded (readyTimeout, the connect timeout, the
\* context of the round trips) and goroutines run, so an attempt goes on.
\* Nothing is assumed of how it ends, nor that anybody opens or closes a bus.
StoreFairness == \A b \in Embedded : WF_storeVars(StoreStep(b))

-----------------------------------------------------------------------------
(* Properties.                                                             *)

\* Never two servers with their files open in one directory, also while one
\* starts, fails to start or still shuts down: they would corrupt each other's
\* streams (reserveStore, StopEmbedded).
OneServerPerStore ==
    \A b, c \in live : Dir[b] = Dir[c] => b = c

\* Only a bus that is open keeps a directory: whatever fails while a bus is
\* opened, and when it is closed, the directory becomes free again.
StoreComesFree ==
    \A d \in Dirs : []<>(servers[d] = "free" \/ \E b \in Embedded : Dir[b] = d /\ opening[b] = "open")
=============================================================================
