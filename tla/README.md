# A TLA+ model of antwatcher

antwatcher receives GitHub webhooks, stores each event on a bus and lets
independent sinks consume it. This directory models the parts whose
correctness depends on interleavings, failures and restarts; TLC checks the
models on small instances and TLAPS proves the most important results for
every instance.

## The system

| Component (source) | State it keeps | Operations | What makes it hard |
|---|---|---|---|
| Receiver (`internal/receiver`) | in-flight HTTP requests, listener | `serveWebhook`, `Server.Run` | a deadline that ends between sending a message and its PubAck; a stop with requests in flight |
| Event codec (`internal/event`) | none | `FromWebhook`, `ToMessage`, `FromMessage` | — |
| Bus contract and policy (`internal/bus`) | none | `Bus`, `ResolveIngress`, `ResolveConsumer` | what a start position means after a restart |
| natsjs driver (`internal/bus/natsjs`) | connection, consumers, in-flight messages | `Publish`, `Subscribe`, pull loop, `Close`, `Lag` | lost acks and naks, ack wait against a slow handler, reconnects |
| Embedded server (`natsjs/embedded.go`) | process-wide table of store directories | `StartEmbedded`, `StopEmbedded` | two servers on one store, a failed start that keeps its reservation |
| gochannel driver (`internal/bus/gochannel`) | sequence number, subscriptions | `Publish`, `Subscribe`, `Close` | a start position emulated on a Pub/Sub that replays everything |
| Sink router (`internal/sink`) | per sink: handler, stalled set | `BuildRouter`, `handle`, `Close` | several goroutines per sink, permanent errors |
| SingleFlight (`internal/sink/singleflight.go`) | value, attempt in flight | `Do`, `Peek`, `Ready` | waiting, panicking and abandoned attempts |
| forward sink (`internal/sink/forward`) | target bus | `Process`, `Message`, `Close` | forwarders that form a loop, copies that de-duplication could swallow, streams that share a name |
| analytics sink (`internal/sink/analytics`) | schema ensured, write stream | `Process`, `EnsureSchema`, `Write`, `Close` | instances of several versions that create and share one table |
| archive, trace, log sinks | destination handle, files | `Process`, `Close` | lazily opened resources, crash-safe files |
| OTLP client (`internal/otlp`) | per call: retries, timers | `ExportSpans`, `ExportLogs` | retries inside a deadline, answers that are lost half-way |
| Recovery (`internal/recovery`, `internal/ghclient`) | per target: hook, last scan, pending set | `ScanAll`, `scan`, `redeliver` | late listings, partial scans, limits, forgetting |
| Metrics (`internal/metrics`) | counters, registered consumers | `LagPoller.Run` | — |
| Admin server (`internal/admin`) | listener | `Listen`, `Run`, `Close` | must outlive everything else |
| Configuration (`internal/config`) | none | `Load`, `Validate`, `Redacted` | — |
| Service (`cmd/antwatcher/serve.go`) | tasks, failures channel | `newService`, `run` | failures and signals at any point of start-up and shutdown |

GitHub calls the receiver; the receiver publishes through the bus; every sink
has a consumer of its own and acks a message only after `Process` returned
nil or `ErrSkipped`; recovery compares GitHub's list of deliveries with what
was answered 2xx and asks GitHub to redeliver; the service starts all of them
and takes them down in order. Delivery is at least once throughout: what is
never allowed is to lose an event somebody was told is safe.

## Modules

| Module | Models | State and actions |
|---|---|---|
| `Stream` | the JetStream stream as the code configures it | `log` of transport ids, `first` retained position, de-duplication ids; `Store`, `ForgetId`, `Expire` |
| `Ingress` | `serveWebhook`, `Bus.Publish`, connection, HTTP server | a request's phase and answer, messages and PubAcks on the wire; one action per exit of the handler and per event of the connection and process |
| `AtLeastOnce` | the promise of the bus, abstractly | what a consumer has settled and where it began |
| `Delivery` | consumer, pull loop, `deliver`, `await`, router handler, stalled set, close and crash | per sink: the broker's cursor, unacked deliveries and ack floor, the goroutines (slots) working on a message and the stalled set |
| `LazyOpen` | `SingleFlight` and the `open`/`Close` protocol around it | where each caller and closer is between two lock operations, the attempt in flight, the cached value, the open resources |
| `BigQueryStream` | `managedOpener` and its watcher goroutine inside `LazyOpen` | per attempt: the two contexts, `setupDone`, `abandoned`, the goroutine |
| `ArchiveStore` | the archive `Store` on a failing disk | files as sequences of records, what has been fsynced, the compression in progress |
| `OtlpExport` | one `ExportSpans` or `ExportLogs` call: `export`, `once`, `sleepCtx`, `post`, `classify`, `finalize` | the attempt's answer and timer, the retry timer, what the caller's context leaves; one action per branch of the loop, the collector, the connection and the clock as actions of their own |
| `Recovery` | one target's scan, merge, redeliver, finish | GitHub's attempts with ages, pending set, window, candidates, budget |
| `Lifecycle` | `newService` with the opening of the bus, `run`, tasks, router's `Run` and `Close`, the lag poller's use of the bus | the steps of build and shutdown, what every failing step gives back, tasks, `failures`, open store, server, connection, sockets, sinks and consumers, Process calls in flight |
| `Projections` | `Normalize`, ids, ranks and times, and `Process` of the trace, log and analytics classes | what GitHub has sent of runs, attempts, jobs and steps, and what the destination holds; one action per transition at GitHub, and the processing of any payload at any later time |
| `Forward` | `Sink.Process` and `Message` of forward sinks, `ToMessage`/`FromMessage`, `EnsureStream`, `Publish`, several instances on one broker | per stream: subject, messages, de-duplication ids; per bus: progress of `New`; both round trips of `EnsureStream` are actions of their own |
| `EmbeddedStore` | `openStores`, `StartEmbedded`, `StopEmbedded`, and `natsjs.New` and `Bus.Close` around them | per directory its entry in the table, per bus its progress, the servers whose files are open |
| `Gochannel` | `Publish`, `Subscribe`, the forwarding goroutine and both `Close`s of the in-process driver | the sequence number, the consumer's cutoff, where each message is in its subscription |
| `NakDelays` | `NakDelay` and the rules `Validate` has for its bounds | the delays of one message that is nacked again and again; durations wrap at their width |
| `Warehouse` | `EnsureSchema`, `VerifySchema`, `Write` and the sink around them, several instances on one table | columns of the table, per writer its stage and acked events; both requests of `ensureTable` are actions of their own |

| Proof module | Inductive invariants and theorems about |
|---|---|
| `DeliveryProofs` | `Delivery`, and that it implements `AtLeastOnce` |
| `IngressProofs` | `Ingress` |
| `LifecycleProofs` | `Lifecycle` |
| `ArchiveStoreProofs` | `ArchiveStore` |
| `RecoveryProofs` | `Recovery` |
| `LazyOpenProofs` | `LazyOpen`, and that `BigQueryStream` implements it |
| `TelemetryProofs` | `Projections` and `OtlpExport` |
| `EdgeProofs` | `Forward`, `EmbeddedStore`, `Gochannel`, `NakDelays` and `Warehouse` |

`Delivery` and `Ingress` both extend `Stream`; `BigQueryStream` extends and
refines `LazyOpen`; `Delivery` refines `AtLeastOnce`. Each `MC` module gives
names to the sets its `.cfg` files use. `MCEdges` and `MCTelemetry` put several
modules that share no state into one run: a variable says which of them a
behaviour follows, and the others rest in a state where none of their fair
actions is enabled, so nothing is assumed of the one that moves. A definition named "Mutant of X" is X
with a plausible mistake; nothing uses it, and putting it in the place of X must make
the property it is listed with in `PROJECT.json` fail.

Data is abstracted to what the properties distinguish. A payload is its
transport id; a request is the exit of `serveWebhook` it leads to; a sink's
error is retryable, permanent or none; a record is a value, a file a sequence
of records, fragments and what of them survives a power loss; time in
`Recovery` is an age in ticks, capped where no comparison can tell ages apart;
an id in `Projections` is the tuple the code hashes.

## Runs

| Run | Instance | Shows |
|---|---|---|
| `delivery` | 1 sink, 2 ids, log of 2, 1 goroutine, 1 stalled entry, at most 2 unacked, fair | `StalledIsUnsettled`, `FlowsAroundStalled` |
| `delivery_limit` | the same with at most 1 unacked | `OthersKeepFlowing` fails |
| `delivery_two` | 2 sinks (one from now, one overrunning), 2 goroutines, 1 message | `OneAttemptAtATime`, `AckedWasHandled`, `NothingSkipped`, `KeepsPromise` |
| `recovery` | 2 GUIDs, 2 attempts on record, 1 request per scan, lookback 5, grace and interval 2, overlap, listing delay and length of a scan 1 | `NothingOverlooked`, `LeftAloneWithinGrace`, `AskedBeforeGivenUp` |
| `recovery_starved` | the same with a GUID GitHub refuses | `AskedBeforeGivenUp` fails |
| `bigquery_stream` | 2 writers, 2 closers, 2 attempts, fair | `SharesOne`, `NoneLeaked`, `ImplementsLazyOpen`, `NeverWedged` |
| `bigquery_stream_lost` | 2 writers, 1 closer | `StreamOutlivesWrite` fails |
| `archive` | 2 records, 3 appends, gzip, both rotations | `AckedIsReadable` |
| `archive_untimed` | the same without time rotation | `AckedIsReadable` fails |
| `lifecycle` | embedded, external and in-memory bus, both policy modes, 2 sinks (one overrunning), recovery on, any component may fail, fair | `AcceptsOnlyDelivered`, `NothingUsedAfterClose`, `EverythingReleased`, `NoFailureHidden`, `ShutdownCompletes` |
| `telemetry` | *project*: each class, 1 run, 2 attempts, 1 job, 1 step, 5 payloads, 3 of them processed, 2 seconds; *export*: both protocols, deadlines 0 to 9 or none, timeout 3, 3 retries, delays asked for of 0, 1, 3, 5 | `ViewShowsFurthest`, `TraceIsTree`, `LogsPointIntoTrace`; `NeverSleepsIntoDeadline`, `TotalBounded`, `StopsAtOnce`, `PermanentIsRefusal`, `SuccessIsStored`, `NotResentOnceConfirmed` |
| `edges` | *webhook*: 2 requests, 2 ids; *loop*: 2 instances that forward to each other, one of an older version, up to 3 hops, one id leaves its window; *rivals*: a forward target and an ingress with one stream name and different topics; *store*: 3 embedded buses, 2 on one directory; *memory*: 3 messages; *delays*: every valid pair of 6-bit durations, 8 deliveries; *warehouse*: 3 writers of 2 versions, 3 tables to begin with, 2 events; fair | `AcceptedIsStored`, `AlwaysAnswered`; `AckedIsForwarded`, `LoopsEnd`, `SubjectKept`, `ReachesTarget`; `OneServerPerStore`, `StoreComesFree`; `StartIsExact`; `DelayWithinBounds`; `VerifiedBeforeWrite`, `EveryEventArrives` |

The bounds are the smallest at which the interesting cases happen. Two ids let
one message fail while another is healthy, and a log of two lets the same
id be stored twice; with one message that keeps failing, a limit of two on unacked
messages is the smallest at which the other one must still flow, and a limit of
one the smallest that is reached (JetStream's default is 1000); two goroutines let an overrunning call overlap with the
redelivery of its message; two requests let a redelivered GUID race the
original. Two attempts let a GUID fail and succeed, or two GUIDs compete for the
one request of a scan; `calm` marks the behaviours in which the API works and
scans are on time, the only ones in which nobody may be starved. Five payloads
let a job run its whole course before its run ends, or a run be repeated, and
three processed ones let every state of a job arrive in any order. Two opens let an attempt
follow a failed one. Three appends let a record follow a fragment and a
rotation. Three retries let the back-off double up to its cap; the deadlines
fall before, at and after every timer, and a collector asks for delays below,
at and above the timeout. Two forwarders with the same sink name and different hop
limits form the shortest loop, in which the event comes back to where it was received
under the id of the original. Two buses on one directory can meet at every point of
each other's start and stop, and the third shows that a directory is not freed
for somebody else. Six bits let every shift wrap that can wrap at 64, eight
deliveries go past the width. Two versions and a table made by hand let a sink find
no table, its own, an older, and a wider one. Components are independent of each other beyond these
numbers: every sink has its own consumer, every target its own state.

### What the code does not do

Four runs state what the repository says and find it violated.

* `delivery_limit`: `docs/adr/0004-errors-and-retries.md:48-49` has other messages
  flow around the stalled ones. `Subscribe` sets no `MaxAckPending`
  (`natsjs/driver.go:307-315`), so the server's default applies, and a stalled
  message counts against it between its re-attempts: as many of them as the limit
  block the sink. `FlowsAroundStalled` says what holds: fewer do not.
* `recovery_starved`: `recovery.go:333-334` wants a set of failing deliveries
  not to starve the rest. A request GitHub refuses leaves `requestedAt` zero,
  so the GUID keeps the first place of every scan.
* `bigquery_stream_lost`: `writer.go:274-276` binds an open stream to `base`
  alone. The watcher may already have chosen `ctx.Done()`, or may choose it
  with both channels ready, and cancels a stream that was returned and cached.
* `archive_untimed`: a fragment `abandon` could not cut is rotated away only if
  `shouldRotate` looks at the unknown age, which it does not when
  `rotate_every` is off; the next, acked, record is glued to it.

Other differences between text and code met while modelling, which no run
states: a 503 `publish_timeout` does not mean that nothing was stored
(`docs/agent-operations.md:232`); retention may remove a stalled message whose
entry stays (`stalled.go:26-27`); an attempt that overran its ack wait and
fails after a redelivery succeeded leaves an entry for an acked message, so
`StalledIsUnsettled` speaks of sinks that keep their deadline; an incremental scan does not see an old 2xx, so a GUID that was accepted may
be asked for (`recovery.go:3-4`); in the same way a GUID is not left alone within
`grace` (`recovery.go:78-79`, `docs/configuration.md:357`) if it leaves the pending set
in between: asked for, taken out by an older 2xx that is listed late, it comes
back as never requested when the next window shows a later failure and no longer the
2xx (one GUID, three attempts, lookback 5, overlap and listing delay 2, grace 3; found when the
invariant for `LeftAloneWithinGrace` was not inductive, so the property speaks of
a GUID that stays pending); a delivery rejected with a 4xx is a candidate
of recovery (`docs/configuration.md:325-326`); a signal that arrives before the
router runs makes `run` return the error of subscribing a closed consumer
although nothing failed (`serve.go:274-276`); `classify` makes an HTTP 500, an
unknown gRPC code and a rate limit without RetryInfo permanent, where the rule
for drivers leaves 5xx, unknown errors and rate limits retryable
(`internal/sink/errors.go:23-26`), and does so for the codes gRPC makes itself
without an answer of the collector (`GrpcFails`), which `PermanentIsRefusal` names; two buses opened at once with one stream name
and different topics may both find no stream in `EnsureStream`, and the second
then updates the subjects of the first (`natsjs/stream.go:33-38`; `SubjectKept`
excludes the streams where this happened); `VerifySchema` lets a further column
pass that is REQUIRED, whose rows the service rejects, where its comment says that the table
"can hold rows" and further columns stay NULL (`bigquery/schema.go:125-128`): so
`VerifiedBeforeWrite` promises no more than what `VerifySchema` looks at, and that rows
fit is a theorem with a hypothesis (`WarehouseRowsFit`; with the hand-made table of
`edges` it fails); a writer whose `Create` meets a conflict takes the table of the
winner unverified, so an older one is found out by its rejected rows only
(`VerifiedBeforeWrite` excludes it until it asks for the table again); of two events
that tell of a waiting and a queued job the view shows the one received last,
not the later one (`model/status.go:24-26`); a completed job without
`completed_at` has a span that ends when it was received, so a redelivery
changes it (`trace/project.go:75-76`; `TraceIsTree` assumes that GitHub sends
the time).

### Fairness

Only goroutines the Go scheduler runs, timers the code sets and answers a
library gives within them are fair. `Ingress` assumes that a publish whose
deadline has passed returns, not that the broker answers. `Delivery` assumes
that the pull loop pulls, that a Process call ends (`process_timeout` bounds
its context), that ack waits and nak delays end, and that the process is
started again after it stopped; whether a sink succeeds is up to its destination,
and `FlowsAroundStalled` only speaks of messages whose destination is healthy
for good, while fewer others than the server's limit fail. Durations are not modelled: that the
redeliveries of several failing messages, due in turn, leave the loop time for a new
one rests on `nak_delay_min` and is not shown (the run has one failing message). `BigQueryStream` assumes that contexts end and that a cancelled
set-up returns, not that the service can be reached. `Lifecycle` assumes that
goroutines run and Process calls end; no signal and no failure is ever forced.

The parts of `edges` assume that failed round trips, nacks and restarts end some day
(`<>[][...]`), and that a goroutine whose next step is possible takes it:
a closed forward target is opened by the next message, an unacked event is
redelivered, every wait while a bus opens has a timeout, an operator
repairs a table that does not fit. `ReachesTarget` speaks of sinks whose
source and target streams no other configuration claims.

`OtlpExport` needs no fairness: that a call returns follows from `TotalBounded` and
the absence of deadlock. Its clock ticks only while the call waits, so code
between two waits takes no time.

Deadlock checking is on except in `BigQueryStream`, `Lifecycle` and `edges`:
there every caller is done once the resource is closed, the process exits, and
a closed bus or a message nacked as often as the bound allows has nothing
left to do. In `telemetry` the projection may rest once GitHub has sent all
the bounds allow; an export may not stop before it has returned.

## Proofs

`DeliveryProofs` proves, for any sets of sinks, ids and goroutines and any
bounds:

* `DeliveryTypeCorrect`: `TypeOK`;
* `NeverAckedUnhandled`: `AckedWasHandled`, no message is acked on the broker
  before the sink accepted or skipped it;
* `NeverSkipped`: `NothingSkipped`, no retained message of a consumer falls
  between its cursor and its acks;
* `DeliveryKeepsPromise`: `Delivery` implements `AtLeastOnce` under the
  identity mapping on the settled messages, step by step;
* `NeverTwiceAtOnce`: `OneAttemptAtATime`, a sink that keeps its deadline never
  works on a message twice at once;
* `StalledStaysUnsettled`: `StalledIsUnsettled`;
* `StalledStaysBounded`: `StalledBounded`.

Most rest on `DeliveryIsConsistent`, the inductive invariant `DeliveryInv`. The
properties are not inductive by themselves: an ack that arrives late says
nothing about who handled the message unless one also knows that every goroutine
which reached the point of acking has handled it, that what is in flight lies
between the consumer's origin and its cursor, and that positions refer to the
log. The invariant adds exactly these facts, and the proof has a lemma per
action group. The constants are assumed to be what the code validates:
`DeliveryAssumption` and `StreamAssumption`, which TLC evaluates on every run.
The last three have further invariants: while Process keeps its deadline, whoever works
on a message is alone with it and the broker waits for its answer (`SoleWorker`), and a
stalled id has a copy that is neither acked nor about to be (`StalledIsOwed`).

`IngressProofs` proves `AcceptedStaysStored` (`AcceptedIsStored`). A PubAck could be
taken for the answer to somebody else; `IngressInv` (`IngressIsConsistent`) says that
only a request which reached `Publish` has anything on the connection, that a PubAck is
for an id on the log, and that whatever counts as a duplicate is stored.

`LifecycleProofs` proves, for any sinks, drivers and faults: `ReceiverNeedsSinks`
(`AcceptsOnlyDelivered`), `CloseComesLast` (`NothingUsedAfterClose`), `ExitReleasesAll`
(`EverythingReleased`) and `FailuresAreReported` (`NoFailureHidden`). The invariant
(`LifecycleIsConsistent`) ties what is held to the position in the code: what
`newService` has built before step *i*, what the shutdown has not reached is still
held, and what it has passed has ended, so that no task is left to fail after the
result of `run` is made.

`ArchiveStoreProofs` proves `AckedStaysReadable`: with `rotate_every` set
(`RotateEvery`, the hypothesis; the run `archive_untimed` shows that it is needed),
`AckedIsReadable` holds for any records and any number of appends. `ArchiveInv`: an acked
record is in the fsynced part of some file; where a plain and a compressed file exist,
the compressed one has all that is durable in the plain one; no line follows torn bytes, because
such a file is rotated first; between write and sync the record is the last line; and a
new name is left for every rotation.

`RecoveryProofs` proves `ScansOverlookNothing` (`NothingOverlooked`) if GitHub lists an
attempt within `overlap` (`ListedWithinOverlap`, what the option is for), and
`PendingIsLeftAlone` (`LeftAloneWithinGrace`) without that hypothesis, for any
GUIDs and options. The point of `RecoveryInv` (`RecoveryIsConsistent`) is `Remembered`: what the
next window will leave out is in the pending set with its newest attempt, also
after scans that failed half-way.

`LazyOpenProofs` proves, for any number of callers, closers and attempts:
`LazyOpenShares` (`SharesOne`), `LazyOpenLeaksNothing` (`NoneLeaked`) and
`LazyOpenClosesOnce` (`ClosedAtMostOnce`). The invariant `LazyOpenInv`
(`LazyOpenIsConsistent`) adds who holds what: attempts are numbered and one runs
at a time; every open resource is held by the caller of that attempt or cached;
what is closed was open and is closed by one party; and a caller that saw the
closed flag unset is waited for by the Close that set it. The last is what
makes "nothing leaks" inductive: between reading the flag and publishing the
value, only the waiting Close knows that a resource will appear.

`BigQueryStream` implements `LazyOpen` (`StreamIsLazilyOpened`, `ImplementsLazyOpen`): a
stream counts as opened when `managedOpener` returns it. Every step of the two
contexts and the goroutine is a stutter, `SetupKept` is `OpenSucceeds`, and
`SetupFails` and `SetupAbandoned` are `OpenFails`. `StreamInv` supplies what this
needs: during an attempt there is a stream exactly if `setupDone` is closed, one caller runs
an attempt, and none does once a value is cached. The three theorems above then hold
of the streams `managedOpener` has returned.

`TelemetryProofs` proves, for any runs, attempts, jobs, conclusions and times, and any
order and repetition of arrival: `ViewStaysFurthest` (`ViewShowsFurthest`),
`TraceStaysTree` (`TraceIsTree`) and `LogsLeadToSpans` (`LogsPointIntoTrace`).
`ProjectionsInv` (`ProjectionsAreConsistent`) is about what GitHub sends and what was made of
it: a payload tells the present state of its entity or one of a lower rank, an entity keeps its run
and attempt, a run completes after its jobs, a step has got as far as its job, and
the destination has exactly what the acked messages were projected to. So an
entity completes with one payload (`CompletedOnce`), which is why spans do not depend on order, and
rank alone decides between rows of an id. That a trace has as many job spans as the attempt
has jobs is a bijection between the two.

It also proves, for any timeout, number of retries, back-off, deadline
and collector: `ExportIsBounded` (`TotalBounded`), `ExportNeverSleepsIntoDeadline`,
`ExportReportsRefusal` (`PermanentIsRefusal`), `ExportReportsSuccess` (`SuccessIsStored`),
`ExportStopsAtOnce` and `ExportResendsNothingConfirmed`. The invariant `OtlpInv`
(`ExportKeepsInvariant`) accounts for time: what has passed plus what the current
wait may still take is at most two timeouts per retry made, and neither an
attempt nor a pause reaches past the caller's deadline. It assumes only what
`Config.Validate` lets through.

`EdgeProofs` holds the proofs of five small protocols that share no state.

* `StoreIsExclusive` (`OneServerPerStore`), for any buses
  and directories. That two live servers differ in their directories says nothing about the bus that
  is about to start one; `StoreInv` (`StoreIsConsistent`) adds that at most one bus is past the
  reservation of a directory, that such a directory is never free in the table, and
  that a server stands in the entry of its own directory, so that `StopEmbedded`, which
  searches the whole table, frees no other.
* `WarehouseVerifiesFirst` (`VerifiedBeforeWrite`), for any
  writers, versions and tables: a sink past `EnsureSchema` has a table with every column of its
  rows, REQUIRED only if its rows fill it. Besides the property, `WarehouseInv` says what
  the stages are and that columns are records; the argument is that a table is created
  only when nobody can have verified one, and that adding and relaxing columns keeps
  every schema that passes (`AlterKeepsFit`). The service may still refuse the rows for a further
  REQUIRED column. `WarehouseRowsFit` adds the hypothesis under which it does not
  (`RequiredIsShared`: what any version or the first table requires, every version has);
  creating brings in no other required column, and altering relaxes all.
* `SubjectStaysKept` (`SubjectKept`): two buses past their lookup that want different
  topics on one stream are marked as having raced.
* `AckedStaysForwarded` (`AckedIsForwarded`) and `LoopsComeToAnEnd` (`LoopsEnd`), from
  `ForwardInv` (`StreamsHoldGenuineMessages`): every message on a stream is an original or
  a copy that some sink makes of one, and an id inside its window is there once. That a GUID is
  no hash is assumed (`ForwardAssumption`). The second needs `OneStreamPerTopic`: a topic
  that moved to another stream would leave its de-duplication window behind.
* `NakDelayStaysBounded` (`DelayWithinBounds`), for any bounds `Validate` accepts and any
  width: whatever the product wraps to, the result is compared with both bounds.
* `StartIsNeverEarly` (`SeenIsOwed`), the safety half of `StartIsExact`: a message
  that is held or was acked lies after the cutoff.

Model-checked only: liveness (`FlowsAroundStalled`, `AlwaysAnswered`,
`NeverWedged`, `ShutdownCompletes`, `ReachesTarget`, `StoreComesFree`, `StartIsExact`,
`EveryEventArrives`), which the prover does not do, and `AskedBeforeGivenUp`, whose
argument counts how many GUIDs fit into the scans of a lookback.

## Not modelled

`PROJECT.json` lists every component. Left out for good: HTTP, HMAC and header
parsing, GitHub paging and token refresh, attributes of spans, rows and records,
formatting of pages and logs, flags and YAML (pure data or I/O), the protobuf
encoding of rows, spans and records, building TLS and client options, `ResolveConsumer`
(it refuses neither driver and changes no start position of theirs),
`LagPoller.Unregister`, which the service never calls, and a service without sinks,
which `Validate` lets through (`Lifecycle` assumes one). `telemetry` has one conclusion,
a failure; that log and span agree on a success too is left to `LogsLeadToSpans`. Configuration is
validated once before anything runs; the rules the protocols rest on are in their
modules (`Accepted` of `Forward`, `ValidDelays`, `ValidConfig` of `OtlpExport`, the ack wait
of `Delivery`). `bustest` is a test suite. The broker is trusted to
keep what it confirmed and to run its consumers as documented; directory
operations of the file system are taken to be durable in order.

## Plan

Every component whose state changes while the service runs has a module. Left to
model: a composition of `Ingress`, `Delivery` and `Recovery` from which
"accepted implies handled in the end" follows. Left to prove: `AskedBeforeGivenUp` of
`Recovery`, for which the order of requests has to be related to the number of
scans left; and `SharesOne` and `NoneLeaked` of `BigQueryStream` itself, which the
refinement gives for the streams that have been returned.
