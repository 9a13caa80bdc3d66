------------------------------ MODULE Delivery ------------------------------
(***************************************************************************)
(* From the stream to the sinks: the durable consumers of natsjs, the pull *)
(* loop and the ack forwarding of its subscriber, the router that runs one *)
(* goroutine per message, and the handler that decides between ack, nack   *)
(* and stalled.  Messages, acks and naks may be lost, a Process call may   *)
(* outlive the broker's ack wait, and the process may stop or crash at any *)
(* step; the broker's state survives.                                      *)
(*                                                                         *)
(* Delays are not modelled as numbers: an ack wait or a nak delay that     *)
(* ends is an action of its own.                                           *)
(***************************************************************************)
EXTENDS Stream, FiniteSets

CONSTANTS Sinks,          \* configured sinks, one durable consumer each
          Slots,          \* bound: concurrent handler goroutines per message
          StartFrom,      \* [Sinks -> {"earliest", "now"}]
          Overrun,        \* sinks whose Process may outlive its deadline
          MaxStalled,     \* maxStalledEntries
          MaxAckPending   \* the server's limit on unacked messages

ASSUME DeliveryAssumption ==
    /\ StartFrom \in [Sinks -> {"earliest", "now"}]
    /\ Overrun \subseteq Sinks
    /\ MaxStalled \in Nat
    /\ MaxAckPending \in Nat \ {0}

VARIABLES cursor,   \* broker, per consumer: last sequence number offered
          origin,   \* broker, per consumer: the cursor it was created with
          cst,      \* broker, per consumer and message: ack state
          slot,     \* process, per consumer, message and goroutine: progress
          stalled,  \* process, per sink: stalledSet.entries
          bound,    \* process: sinks the running router has bound
          closing,  \* process: the router is closing
          fault,    \* environment: ids a sink cannot process at the moment
          handled   \* history: messages Process returned nil or ErrSkipped for

brokerVars == <<cursor, origin, cst>>
processVars == <<slot, stalled, bound, closing>>
vars == <<streamVars, brokerVars, processVars, fault, handled>>

NoConsumer == MaxLog + 1
AckState == {"none", "pending", "delayed", "due", "acked"}
Progress == {"free", "held", "running", "late", "acking", "nacking"}

TypeOK ==
    /\ StreamTypeOK
    /\ cursor \in [Sinks -> 0..NoConsumer]
    /\ origin \in [Sinks -> 0..NoConsumer]
    /\ cst \in [Sinks -> [Seqs -> AckState]]
    /\ slot \in [Sinks -> [Seqs -> [Slots -> Progress]]]
    /\ stalled \in [Sinks -> SUBSET Uuids]
    /\ bound \subseteq Sinks
    /\ closing \in BOOLEAN
    /\ fault \in [Sinks -> SUBSET Uuids]
    /\ handled \in [Sinks -> SUBSET Seqs]

NoWork == [s \in Sinks |-> [i \in Seqs |-> [k \in Slots |-> "free"]]]

Init ==
    /\ StreamInit
    /\ cursor = [s \in Sinks |-> NoConsumer]
    /\ origin = [s \in Sinks |-> NoConsumer]
    /\ cst = [s \in Sinks |-> [i \in Seqs |-> "none"]]
    /\ slot = NoWork
    /\ stalled = [s \in Sinks |-> {}]
    /\ bound = {}
    /\ closing = FALSE
    /\ fault \in [Sinks -> SUBSET Uuids]
    /\ handled = [s \in Sinks |-> {}]

-----------------------------------------------------------------------------
(* Broker and environment.                                                 *)

\* Delivered to the consumer and not acked: what MaxAckPending limits and Lag
\* adds to the messages not yet offered.
Unacked(s) == {i \in Retained : cst[s][i] \in {"pending", "delayed", "due"}}

Due(s) == {i \in Retained : cst[s][i] = "due"}

\* A client of the broker stores a message, ids leave the window, messages age.
StreamStep ==
    /\ StreamNext
    /\ UNCHANGED <<brokerVars, processVars, fault, handled>>

\* Mutant of AckWaitEnds: ack_wait has no margin over process_timeout.
AckWaitTooShort(s, i) ==
    /\ i \in Retained
    /\ cst[s][i] = "pending"
    /\ cst' = [cst EXCEPT ![s][i] = "due"]
    /\ UNCHANGED <<streamVars, cursor, origin, processVars, fault, handled>>

\* The broker's ack wait ends.  ack_wait exceeds process_timeout by a margin,
\* so a goroutine can still be at work only where Process overruns.
AckWaitEnds(s, i) ==
    /\ i \in Retained
    /\ cst[s][i] = "pending"
    /\ s \in Overrun \/ \A k \in Slots : slot[s][i][k] = "free"
    /\ cst' = [cst EXCEPT ![s][i] = "due"]
    /\ UNCHANGED <<streamVars, cursor, origin, processVars, fault, handled>>

\* The delay of NakWithDelay ends.
NakDelayEnds(s, i) ==
    /\ i \in Retained
    /\ cst[s][i] = "delayed"
    /\ cst' = [cst EXCEPT ![s][i] = "due"]
    /\ UNCHANGED <<streamVars, cursor, origin, processVars, fault, handled>>

\* A sink's back end starts or stops failing for a message.
ToggleFault(s, u) ==
    /\ fault' = [fault EXCEPT ![s] = IF u \in @ THEN @ \ {u} ELSE @ \union {u}]
    /\ UNCHANGED <<streamVars, brokerVars, processVars, handled>>

-----------------------------------------------------------------------------
(* natsjs: consumer creation and the subscriber.                           *)

\* Mutant of SubscribeAt: start_from is ignored.
SubscribeFromStart(s) == IF cursor[s] # NoConsumer THEN cursor[s] ELSE 0

\* Bus.Subscribe on the broker: an existing consumer keeps its position, a new
\* one starts at the beginning or after the last stored message.
SubscribeAt(s) ==
    CASE cursor[s] # NoConsumer -> cursor[s]
      [] cursor[s] = NoConsumer /\ StartFrom[s] = "earliest" -> 0
      [] OTHER -> Len(log)

\* BuildRouter and Run: bind the configured sinks and start delivering.
Start(S) ==
    /\ bound = {}
    /\ S # {}
    /\ bound' = S
    /\ cursor' = [s \in Sinks |-> IF s \in S THEN SubscribeAt(s) ELSE cursor[s]]
    /\ origin' = [s \in Sinks |-> IF s \in S /\ cursor[s] = NoConsumer
                                  THEN SubscribeAt(s) ELSE origin[s]]
    /\ UNCHANGED <<streamVars, cst, slot, stalled, closing, fault, handled>>

\* Mutant of LoopIdle: the loop waits until a message is acked or may be redelivered.
LoopIdleSettled(s) ==
    /\ \A i \in Seqs, k \in Slots : slot[s][i][k] # "held"
    /\ \A i \in Retained : cst[s][i] \notin {"pending", "delayed"}

\* The pull loop holds one message at a time.
LoopIdle(s) == \A i \in Seqs, k \in Slots : slot[s][i][k] # "held"

\* What a pull of one message returns: a due redelivery first, else the next
\* message never offered, within the limit on unacked messages.
Offered(s, i) ==
    \/ i \in Due(s)
    \/ /\ Due(s) = {}
       /\ Cardinality(Unacked(s)) < MaxAckPending
       /\ i \in Retained
       /\ cursor[s] < i
       /\ \A j \in Retained : cursor[s] < j => i <= j

\* subscriber.loop: Fetch(1) returns message i; or the broker answers the pull
\* and the loop never sees it, because fetchWait ended or the connection broke.
Fetch(s, i) ==
    /\ s \in bound
    /\ ~closing
    /\ LoopIdle(s)
    /\ Offered(s, i)
    /\ \/ \E k \in Slots :
             /\ slot[s][i][k] = "free"
             /\ slot' = [slot EXCEPT ![s][i][k] = "held"]
       \/ UNCHANGED slot
    /\ cst' = [cst EXCEPT ![s][i] = "pending"]
    /\ cursor' = [cursor EXCEPT ![s] = IF @ < i THEN i ELSE @]
    /\ UNCHANGED <<streamVars, origin, stalled, bound, closing, fault, handled>>

\* subscriber.deliver: the router takes the message and runs a goroutine.
HandOver(s, i, k) ==
    /\ slot[s][i][k] = "held"
    /\ slot' = [slot EXCEPT ![s][i][k] = "running"]
    /\ UNCHANGED <<streamVars, brokerVars, stalled, bound, closing, fault, handled>>

\* subscriber.deliver: the subscription ends first and the message is nacked
\* at once; if the nak is lost the broker waits for its ack wait.
DeliverEnded(s, i, k) ==
    /\ slot[s][i][k] = "held"
    /\ closing
    /\ slot' = [slot EXCEPT ![s][i][k] = "free"]
    /\ \/ cst' = [cst EXCEPT ![s][i] = IF @ = "pending" THEN "due" ELSE @]
       \/ UNCHANGED cst
    /\ UNCHANGED <<streamVars, cursor, origin, stalled, bound, closing, fault, handled>>

\* subscriber.await: the handler acked; DoubleAck reaches the broker or not.
AwaitAcked(s, i, k) ==
    /\ slot[s][i][k] = "acking"
    /\ slot' = [slot EXCEPT ![s][i][k] = "free"]
    /\ cst' = [cst EXCEPT ![s][i] = "acked"]
    /\ UNCHANGED <<streamVars, cursor, origin, stalled, bound, closing, fault, handled>>

\* Mutant of AwaitNacked: the message is terminated instead of nacked.
NackTerminates(s, i, k) ==
    /\ slot[s][i][k] = "nacking"
    /\ slot' = [slot EXCEPT ![s][i][k] = "free"]
    /\ cst' = [cst EXCEPT ![s][i] = IF @ = "pending" THEN "none" ELSE @]
    /\ UNCHANGED <<streamVars, cursor, origin, stalled, bound, closing, fault, handled>>

\* subscriber.await: the handler nacked; NakWithDelay reaches the broker.  A
\* message the broker has already taken back is not affected.
AwaitNacked(s, i, k) ==
    /\ slot[s][i][k] = "nacking"
    /\ slot' = [slot EXCEPT ![s][i][k] = "free"]
    /\ cst' = [cst EXCEPT ![s][i] = IF @ = "pending" THEN "delayed" ELSE @]
    /\ UNCHANGED <<streamVars, cursor, origin, stalled, bound, closing, fault, handled>>

\* subscriber.await: the ack or the nak does not reach the broker.
AwaitLost(s, i, k) ==
    /\ slot[s][i][k] \in {"acking", "nacking"}
    /\ slot' = [slot EXCEPT ![s][i][k] = "free"]
    /\ UNCHANGED <<streamVars, brokerVars, stalled, bound, closing, fault, handled>>

\* subscriber.await: no ack or nack within ack_wait, the wait is abandoned; the
\* handler goes on and its result reaches nobody.
AwaitAbandons(s, i, k) ==
    /\ s \in Overrun
    /\ slot[s][i][k] = "running"
    /\ slot' = [slot EXCEPT ![s][i][k] = "late"]
    /\ UNCHANGED <<streamVars, brokerVars, stalled, bound, closing, fault, handled>>

-----------------------------------------------------------------------------
(* sink: the handler.                                                      *)

AtWork(s, i, k) == slot[s][i][k] \in {"running", "late"}

\* The handler's return value as the await goroutine sees it.
Returned(s, i, k, answer) ==
    slot' = [slot EXCEPT ![s][i][k] = IF @ = "running" THEN answer ELSE "free"]

\* Mutant of Clear: a success leaves the entry.
ClearNothing(s, u) == UNCHANGED stalled

\* stalledSet.clear
Clear(s, u) == stalled' = [stalled EXCEPT ![s] = @ \ {u}]

\* stalledSet.record: a new id is tracked only while there is room.
Record(s, u) ==
    stalled' = [stalled EXCEPT ![s] =
                   IF u \in @ \/ Cardinality(@) < MaxStalled THEN @ \union {u} ELSE @]

\* handler.handle, Process returned nil or ErrSkipped: succeeded, then ack.
HandleOk(s, i, k) ==
    /\ AtWork(s, i, k)
    /\ log[i] \notin fault[s]
    /\ handled' = [handled EXCEPT ![s] = @ \union {i}]
    /\ Clear(s, log[i])
    /\ Returned(s, i, k, "acking")
    /\ UNCHANGED <<streamVars, brokerVars, bound, closing, fault>>

\* handler.handle, the message does not decode or Process failed permanently.
HandlePermanent(s, i, k) ==
    /\ AtWork(s, i, k)
    /\ log[i] \in fault[s]
    /\ Record(s, log[i])
    /\ Returned(s, i, k, "nacking")
    /\ UNCHANGED <<streamVars, brokerVars, bound, closing, fault, handled>>

\* Mutant of HandleError: the error is swallowed and the message acked.
ErrorSwallowed(s, i, k) ==
    /\ AtWork(s, i, k)
    /\ log[i] \in fault[s]
    /\ Returned(s, i, k, "acking")
    /\ UNCHANGED <<streamVars, brokerVars, stalled, bound, closing, fault, handled>>

\* handler.handle, any other error: nack, nothing recorded.
HandleError(s, i, k) ==
    /\ AtWork(s, i, k)
    /\ log[i] \in fault[s]
    /\ Returned(s, i, k, "nacking")
    /\ UNCHANGED <<streamVars, brokerVars, stalled, bound, closing, fault, handled>>

-----------------------------------------------------------------------------
(* Shutdown and crash.                                                     *)

\* Router.Close begins: the subscriptions end.
BeginClose ==
    /\ bound # {}
    /\ ~closing
    /\ closing' = TRUE
    /\ UNCHANGED <<streamVars, brokerVars, slot, stalled, bound, fault, handled>>

\* The process is gone: everything it held in memory is too.
ProcessEnds ==
    /\ slot' = NoWork
    /\ stalled' = [s \in Sinks |-> {}]
    /\ bound' = {}
    /\ closing' = FALSE
    /\ UNCHANGED <<streamVars, brokerVars, fault, handled>>

\* Router.Close and subscriber.Close return: the loops have ended, goroutines
\* still at work after the close timeouts are left to the broker.
Stop ==
    /\ closing
    /\ \A s \in Sinks : LoopIdle(s)
    /\ ProcessEnds

Crash ==
    /\ bound # {}
    /\ ProcessEnds

-----------------------------------------------------------------------------
Goroutine(s, i, k) ==
    \/ HandOver(s, i, k)
    \/ DeliverEnded(s, i, k)
    \/ AwaitAcked(s, i, k)
    \/ AwaitNacked(s, i, k)
    \/ AwaitLost(s, i, k)
    \/ AwaitAbandons(s, i, k)
    \/ HandleOk(s, i, k)
    \/ HandlePermanent(s, i, k)
    \/ HandleError(s, i, k)

Message(s, i) ==
    \/ AckWaitEnds(s, i)
    \/ NakDelayEnds(s, i)
    \/ Fetch(s, i)
    \/ \E k \in Slots : Goroutine(s, i, k)

Next ==
    \/ StreamStep
    \/ \E S \in SUBSET Sinks : Start(S)
    \/ \E s \in Sinks, u \in Uuids : ToggleFault(s, u)
    \/ \E s \in Sinks, i \in Seqs : Message(s, i)
    \/ BeginClose
    \/ Stop
    \/ Crash

Spec == Init /\ [][Next]_vars

(***************************************************************************)
(* Fairness.  Goroutines that can run do run (weak), and the broker's      *)
(* timers end (weak).  The pull of a message that is offered again and     *)
(* again is strongly fair, and reaches the loop in the end: a nak delay is *)
(* at least nak_delay_min, so between two re-attempts of a failing message *)
(* the loop is idle and pulls what else is there.  (Several failing ones   *)
(* that are due in turn could keep the loop busy here, without durations.) *)
(* An ack that is sent again and again is confirmed in the end (strong):   *)
(* the connection comes back.  Nothing is assumed of publishers,           *)
(* retention, faults, shutdowns and crashes.                               *)
(***************************************************************************)
Fairness ==
    \A s \in Sinks, i \in Seqs :
        /\ SF_vars(Fetch(s, i) /\ slot' # slot)
        /\ WF_vars(AckWaitEnds(s, i))
        /\ WF_vars(NakDelayEnds(s, i))
        /\ \A k \in Slots :
              /\ WF_vars(HandOver(s, i, k))
              /\ WF_vars(HandleOk(s, i, k) \/ HandlePermanent(s, i, k) \/ HandleError(s, i, k))
              /\ SF_vars(AwaitAcked(s, i, k))
              /\ WF_vars(AwaitNacked(s, i, k) \/ AwaitLost(s, i, k))

FairSpec == Spec /\ Fairness

-----------------------------------------------------------------------------
(* Properties.                                                             *)

Settled(s) == {i \in Seqs : cst[s][i] = "acked"}

\* A message is acked on the broker only after the sink's Process accepted or
\* skipped it: neither a nack, a lost ack, an overrun nor a shutdown settles
\* a message the sink has not taken (handler.handle, subscriber.await).
AckedWasHandled == \A s \in Sinks : Settled(s) \subseteq handled[s]

\* No message falls between the cursor and the acks: a retained message after
\* the consumer's origin that is not settled is either still to be offered, or
\* outstanding and so offered again, through every shutdown, crash and resume.
NothingSkipped ==
    \A s \in Sinks : \A i \in Retained :
        origin[s] < i /\ i \notin Settled(s) => cursor[s] < i \/ i \in Unacked(s)

\* Broker and process state refer only to stored messages between the origin
\* of the consumer and its cursor.
WorkIsCovered ==
    \A s \in Sinks, i \in Seqs :
        (cst[s][i] # "none" \/ \E k \in Slots : slot[s][i][k] # "free")
            => origin[s] < i /\ i <= cursor[s] /\ i <= Len(log)

\* A consumer that exists has its cursor between its origin and the stream end.
CursorInRange ==
    \A s \in Sinks : \/ cursor[s] = NoConsumer /\ origin[s] = NoConsumer
                     \/ origin[s] <= cursor[s] /\ cursor[s] <= Len(log)

\* An ack on its way comes from a Process that accepted or skipped.
AckingWasHandled ==
    \A s \in Sinks, i \in Seqs, k \in Slots :
        slot[s][i][k] = "acking" => i \in handled[s]

\* The inductive invariant behind the proofs in DeliveryProofs.
DeliveryInv ==
    /\ TypeOK
    /\ WorkIsCovered
    /\ CursorInRange
    /\ AckingWasHandled
    /\ AckedWasHandled
    /\ NothingSkipped

\* While Process keeps its deadline, a stalled entry names a message the sink
\* still owes: some stored copy of it is not acked (stalledSet.record, clear).
StalledIsUnsettled ==
    \A s \in Sinks \ Overrun : \A u \in stalled[s] :
        \E i \in DOMAIN log : log[i] = u /\ i \notin Settled(s)

\* While Process keeps its deadline, a sink never works twice at once on the
\* same message: the reason ack_wait must exceed process_timeout by a margin.
OneAttemptAtATime ==
    \A s \in Sinks \ Overrun : \A i \in Seqs :
        Cardinality({k \in Slots : slot[s][i][k] # "free"}) <= 1

\* The stalled set, and with it /status and the gauge, stays bounded.
StalledBounded == \A s \in Sinks : Cardinality(stalled[s]) <= MaxStalled

\* The sink is bound, its consumer owes it message i, and it can process it.
Healthy(s, i) ==
    /\ s \in bound
    /\ ~closing
    /\ i \in DOMAIN log
    /\ origin[s] < i
    /\ log[i] \notin fault[s]

\* Every message of the consumer that its sink cannot process is one of F.
OnlyFailing(s, F) ==
    \A j \in Retained : origin[s] < j /\ log[j] \in fault[s] => j \in F

\* ADR 0004: "Other messages of the same sink continue to flow around the
\* stalled ones".  A message whose cause of failure is fixed, or that never
\* failed, is handled and acked unless it ages out, however many others are
\* stalled.  Subscribe leaves MaxAckPending to the server: its default ends this.
OthersKeepFlowing ==
    \A s \in Sinks, i \in Seqs :
        <>[](Healthy(s, i) /\ \A j \in Unacked(s) \ {i} : log[j] \in stalled[s])
            => <>(i < first \/ i \in Settled(s))

\* What holds of it: while fewer messages than MaxAckPending keep failing, or
\* fail again and again, they do not keep the sink from any other one
\* (subscriber.loop, await, Bus.Subscribe).
FlowsAroundStalled ==
    \A s \in Sinks, i \in Seqs :
        \A F \in {G \in SUBSET Seqs : Cardinality(G) < MaxAckPending} :
            <>[](Healthy(s, i) /\ OnlyFailing(s, F)) => <>(i < first \/ i \in Settled(s))

-----------------------------------------------------------------------------
\* What the bus and the router promise together.
Promise == INSTANCE AtLeastOnce WITH settled <- [s \in Sinks |-> Settled(s)]

\* Every step of the pull loops, the goroutines and the broker is a step of
\* the at-least-once contract.
KeepsPromise == Promise!Spec
=============================================================================
