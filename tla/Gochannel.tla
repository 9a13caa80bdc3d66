----------------------------- MODULE Gochannel -----------------------------
(***************************************************************************)
(* The in-process bus: Publish, Subscribe and Close of the gochannel       *)
(* driver and the forwarding goroutine of its subscribers, over            *)
(* Watermill's persistent GoChannel.  The latter is external: it replays   *)
(* everything published to a new subscription, hands every later message   *)
(* to each subscription, in no particular order, and hands out a fresh     *)
(* copy, tag included, after a nack.                                       *)
(*                                                                         *)
(* Messages are named by their sequence number.  Consumers share nothing   *)
(* but the bus, so a behaviour follows one of them.                        *)
(***************************************************************************)
EXTENDS Naturals

CONSTANT MaxSeq   \* bound: messages published

ASSUME GochannelAssumption == MaxSeq \in Nat

VARIABLES seq,       \* Bus.seq
          shut,      \* Bus.closed: no, yes, or done once the Pub/Sub is closed too
          start,     \* SubscribeOptions.StartFrom: earliest or now
          sub,       \* the consumer: none, created, attached, closing, ended
          cutoff,    \* subscriber.cutoff
          copy,      \* per message: what the subscription does with it
          created,   \* history: messages published when the consumer was created
          taken      \* history: messages the consumer's handler acked

memoryVars == <<seq, shut, start, sub, cutoff, copy, created, taken>>

Numbers == 1..MaxSeq

MemoryTypeOK ==
    /\ seq \in 0..MaxSeq
    /\ shut \in {"no", "yes", "done"}
    /\ start \in {"earliest", "now"}
    /\ sub \in {"none", "created", "attached", "closing", "ended"}
    /\ cutoff \in 0..MaxSeq
    /\ copy \in [Numbers -> {"none", "queued", "offered", "working", "acked"}]
    /\ created \in 0..MaxSeq
    /\ taken \subseteq Numbers

MemoryInit ==
    /\ seq = 0
    /\ shut = "no"
    /\ start \in {"earliest", "now"}
    /\ sub = "none"
    /\ cutoff = 0
    /\ copy = [i \in Numbers |-> "none"]
    /\ created = 0
    /\ taken = {}

-----------------------------------------------------------------------------
(* The bus.                                                                *)

\* Bus.Publish: tag, store, hand to the subscriptions there are, under the mutex.
PublishInMemory ==
    /\ shut = "no"
    /\ seq < MaxSeq
    /\ seq' = seq + 1
    /\ copy' = IF sub = "attached" THEN [copy EXCEPT ![seq'] = "queued"] ELSE copy
    /\ UNCHANGED <<start, shut, sub, cutoff, created, taken>>

\* Bus.Subscribe: the start position becomes a sequence number, under the mutex.
CreateConsumer ==
    /\ shut = "no"
    /\ sub = "none"
    /\ sub' = "created"
    /\ cutoff' = IF start = "earliest" THEN 0 ELSE seq
    /\ created' = seq
    /\ UNCHANGED <<start, seq, shut, copy, taken>>

\* subscriber.Subscribe, when the router runs: the Pub/Sub replays everything.
\* It asks the Pub/Sub, not the bus, whether it is closed.
Attach ==
    /\ shut # "done"
    /\ sub = "created"
    /\ sub' = "attached"
    /\ copy' = [i \in Numbers |-> IF i <= seq THEN "queued" ELSE "none"]
    /\ UNCHANGED <<start, seq, shut, cutoff, created, taken>>

\* Bus.Close, first half: closed is set under the mutex.
CloseMemory ==
    /\ shut = "no"
    /\ shut' = "yes"
    /\ UNCHANGED <<start, seq, sub, cutoff, copy, created, taken>>

\* Bus.Close, second half: the Pub/Sub closes every subscription.
ClosePubSub ==
    /\ shut = "yes"
    /\ shut' = "done"
    /\ sub' = IF sub = "attached" THEN "closing" ELSE sub
    /\ UNCHANGED <<start, seq, cutoff, copy, created, taken>>

-----------------------------------------------------------------------------
(* A subscriber.                                                           *)

\* Mutant of Deliverable: the message at the cutoff is delivered too.
DeliverableFrom(i) == i >= cutoff

\* subscriber.deliverable
Deliverable(i) == i > cutoff

Forwarding == sub \in {"attached", "closing"}

\* The goroutine takes a message from the Pub/Sub: it holds it until the router
\* takes it, or acks it itself because it was published before the cutoff.
TakeMessage(i) ==
    /\ Forwarding
    /\ copy[i] = "queued"
    /\ \A j \in Numbers : copy[j] # "offered"
    /\ copy' = [copy EXCEPT ![i] = IF Deliverable(i) THEN "offered" ELSE "acked"]
    /\ UNCHANGED <<start, seq, shut, sub, cutoff, created, taken>>

\* The router receives it and runs the handler.
HandToRouter(i) ==
    /\ Forwarding
    /\ copy[i] = "offered"
    /\ copy' = [copy EXCEPT ![i] = "working"]
    /\ UNCHANGED <<start, seq, shut, sub, cutoff, created, taken>>

AckInMemory(i) ==
    /\ copy[i] = "working"
    /\ copy' = [copy EXCEPT ![i] = "acked"]
    /\ taken' = taken \union {i}
    /\ UNCHANGED <<start, seq, shut, sub, cutoff, created>>

NackInMemory(i) ==
    /\ copy[i] = "working"
    /\ copy' = [copy EXCEPT ![i] = "queued"]
    /\ UNCHANGED <<start, seq, shut, sub, cutoff, created, taken>>

\* subscriber.Close, first half: the subscription's context ends.
CloseSubscriber ==
    /\ sub \in {"created", "attached"}
    /\ sub' = IF sub = "created" THEN "ended" ELSE "closing"
    /\ UNCHANGED <<start, seq, shut, cutoff, copy, created, taken>>

\* The goroutine sees the end, also while it holds a message nobody takes, and
\* closes its channel; subscriber.Close returns.
SubscriptionEnds ==
    /\ sub = "closing"
    /\ sub' = "ended"
    /\ copy' = [i \in Numbers |-> IF copy[i] = "offered" THEN "none" ELSE copy[i]]
    /\ UNCHANGED <<start, seq, shut, cutoff, created, taken>>

-----------------------------------------------------------------------------
MemoryNext ==
    \/ PublishInMemory
    \/ CreateConsumer \/ Attach \/ CloseSubscriber \/ SubscriptionEnds
    \/ CloseMemory \/ ClosePubSub
    \/ \E i \in Numbers : TakeMessage(i) \/ HandToRouter(i) \/ AckInMemory(i) \/ NackInMemory(i)

MemorySpec == MemoryInit /\ [][MemoryNext]_memoryVars

\* Goroutines and the router run, and a handler that is given the same message
\* again and again stops failing some day.
MemoryFairness ==
    /\ <>[][\A i \in Numbers : ~NackInMemory(i)]_memoryVars
    /\ WF_memoryVars(SubscriptionEnds)
    /\ \A i \in Numbers :
          WF_memoryVars(TakeMessage(i)) /\ WF_memoryVars(HandToRouter(i)) /\ WF_memoryVars(AckInMemory(i))

-----------------------------------------------------------------------------
(* Properties.                                                             *)

\* The messages a consumer is owed: all, or those published after Subscribe.
Owed == IF start = "earliest" THEN Numbers ELSE (created + 1)..MaxSeq

\* What the handler holds or has acked is not from before the start.
SeenIsOwed(i) == copy[i] \in {"offered", "working"} \/ i \in taken => i \in Owed

\* The emulated start position is exact although the Pub/Sub replays all of
\* its history and messages are published between the consumer's creation and
\* the router's start: while the subscription lasts, the handler acks every
\* message published since the start position in the end, and never sees one
\* from before it, not even after nacks (Subscribe, deliverable).
StartIsExact ==
    /\ [](\A i \in Numbers : SeenIsOwed(i))
    /\ \A i \in Numbers :
          (sub = "attached" /\ i <= seq /\ i \in Owed) ~> (i \in taken \/ sub # "attached")
=============================================================================
