------------------------------ MODULE Forward ------------------------------
(***************************************************************************)
(* Forward sinks, of one or several instances on one broker: the copy a    *)
(* sink makes of an event, its message codec, the target bus it opens on   *)
(* first use with the stream behind it, and the loops that forwarders may  *)
(* form.  A source message is processed until it is acked; the broker's    *)
(* PubAck, and the ack of the source message, may be lost at any time, and *)
(* an instance may restart.  Retries, delays and the stalled set are those *)
(* of Delivery, the sharing of one opening by several calls is LazyOpen.   *)
(*                                                                         *)
(* SHA-256 is taken to be injective: a ForwardUUID is the tuple that is    *)
(* hashed.                                                                 *)
(***************************************************************************)
EXTENDS Naturals, Sequences, FiniteSets

CONSTANTS Ingresses,   \* ingress buses, one per instance
          Forwards,    \* forward sinks, each with the bus it publishes to
          Source,      \* [Forwards -> Ingresses]: the bus a sink consumes from
          TopicOf,     \* topic of every bus
          StreamOf,    \* stream name of every bus
          SinkName,    \* [Forwards -> names]: unique in an instance only
          MaxHops,     \* [Forwards -> Nat]: max_hops
          Guids,       \* delivery GUIDs
          Legacy,      \* ingresses of an older version, which set no delivery_guid
          MaxForgotten,\* bound: ids that leave a window
          Unbound      \* no topic: a stream that does not exist

Buses == Ingresses \union Forwards
Streams == {StreamOf[b] : b \in Buses}

\* Config.Validate and ValidateIngress, as Factory applies them.
Accepted(f) ==
    /\ MaxHops[f] >= 1
    /\ TopicOf[f] # TopicOf[Source[f]]

ASSUME ForwardAssumption ==
    /\ Ingresses \intersect Forwards = {}
    /\ Source \in [Forwards -> Ingresses]
    /\ MaxHops \in [Forwards -> Nat]
    /\ MaxForgotten \in Nat
    /\ \A f \in Forwards : Accepted(f)
    /\ \A b \in Buses : TopicOf[b] # Unbound
    \* no delivery GUID looks like a hash
    /\ \A g, h \in Guids, f \in Forwards : g # <<h, SinkName[f], TopicOf[f]>>

VARIABLES subject,   \* broker: [Streams -> topic or Unbound]
          kept,      \* broker: [Streams -> messages stored]
          window,    \* broker: [Streams -> ids inside the dedup window]
          done,      \* broker: [Forwards -> source messages acked]
          target,    \* [Buses -> closed, looked or open]: progress of New
          forgotten, \* history: ids that have left a window
          raced      \* history: streams two buses with different topics looked up at once

brokerState == <<subject, kept, window, done>>
forwardVars == <<brokerState, target, forgotten, raced>>

ForwardInit ==
    /\ subject = [n \in Streams |-> Unbound]
    /\ kept = [n \in Streams |-> {}]
    /\ window = [n \in Streams |-> {}]
    /\ done = [f \in Forwards |-> {}]
    /\ target = [b \in Buses |-> "closed"]
    /\ forgotten = {}
    /\ raced = {}

-----------------------------------------------------------------------------
(* The codec and the copy.                                                 *)

\* A metadata key is a set: empty when it is not set.
Value(key, default) == IF key = {} THEN default ELSE CHOOSE v \in key : TRUE

\* event.ToMessage: the metadata of an envelope.
ToMessage(env) ==
    [guid |-> {env.guid},
     by |-> env.by,
     hops |-> IF env.hops > 0 THEN {env.hops} ELSE {}]

\* event.FromMessage: the envelope of a message; the GUID of a message written
\* before the key existed is its UUID.
FromMessage(msg) ==
    [guid |-> Value(msg.meta.guid, msg.uuid),
     by |-> msg.meta.by,
     hops |-> Value(msg.meta.hops, 0)]

\* Mutant of ForwardUUID: the copy keeps the delivery GUID.
ForwardUUIDKept(guid, name, topic) == guid

ForwardUUID(guid, name, topic) == <<guid, name, topic>>

\* Mutant of Copy: the sender's own count is not carried over.
CopyUncounted(f, msg) ==
    LET env == FromMessage(msg)
    IN  [uuid |-> ForwardUUID(env.guid, SinkName[f], TopicOf[f]),
         meta |-> ToMessage([env EXCEPT !.by = {SinkName[f]}, !.hops = 1]),
         path |-> Append(msg.path, f)]

\* Sink.Message.  path is history: the sinks the event has passed.
Copy(f, msg) ==
    LET env == FromMessage(msg)
    IN  [uuid |-> ForwardUUID(env.guid, SinkName[f], TopicOf[f]),
         meta |-> ToMessage([env EXCEPT !.by = {SinkName[f]}, !.hops = @ + 1]),
         path |-> Append(msg.path, f)]

\* Sink.Process refuses a message that has hopped max_hops times, permanently.
Refused(f, msg) == FromMessage(msg).hops >= MaxHops[f]

-----------------------------------------------------------------------------
(* The broker.                                                             *)

Bound(topic) == {n \in Streams : subject[n] = topic}

\* Bus.Publish on the broker: without a stream for the subject it fails, an id
\* inside the window is acknowledged and not stored again.
PublishOn(topic, msg) ==
    \E n \in Bound(topic) :
        \/ /\ msg.uuid \in window[n]
           /\ UNCHANGED <<kept, window>>
        \/ /\ msg.uuid \notin window[n]
           /\ kept' = [kept EXCEPT ![n] = @ \union {msg}]
           /\ window' = [window EXCEPT ![n] = @ \union {msg.uuid}]

\* The de-duplication window of an id ends.
WindowEnds(n, u) ==
    /\ u \in window[n]
    /\ Cardinality(forgotten \union {u}) <= MaxForgotten
    /\ window' = [window EXCEPT ![n] = @ \ {u}]
    /\ forgotten' = forgotten \union {u}
    /\ UNCHANGED <<subject, kept, done, target, raced>>

-----------------------------------------------------------------------------
(* Opening and closing a bus.                                              *)

\* Mutant of SubjectFits: whatever the stream carries, it is updated.
SubjectUnchecked(b) == TRUE

\* What EnsureStream asks of the stream it finds: that there is none, or that
\* it carries the topic of the bus.
SubjectFits(b) == subject[StreamOf[b]] \in {Unbound, TopicOf[b]}

\* Buses in the middle of EnsureStream on the same stream for another topic.
Rivals(b) ==
    {c \in Buses \ {b} : target[c] = "looked" /\ StreamOf[c] = StreamOf[b] /\ TopicOf[c] # TopicOf[b]}

\* The messages a sink's consumer offers it, the ones it does not refuse.
Pending(f) == {msg \in kept[StreamOf[Source[f]]] \ done[f] : ~Refused(f, msg)}

\* When a bus is opened: as its instance starts, or for the first message of its
\* sink (Publisher.open).
Wanted(b) == b \in Forwards => target[Source[b]] = "open" /\ Pending(b) # {}

\* Mutant of LookUp: a stream that exists already is not opened again.
LookUpMissing(b) ==
    /\ target[b] = "closed"
    /\ Wanted(b)
    /\ subject[StreamOf[b]] = Unbound
    /\ target' = [target EXCEPT ![b] = "looked"]
    /\ raced' = IF Rivals(b) # {} THEN raced \union {StreamOf[b]} ELSE raced
    /\ UNCHANGED <<brokerState, forgotten>>

\* EnsureStream, first round trip.  A stream with other subjects is an error;
\* the next message, or the next start, tries again.
LookUp(b) ==
    /\ target[b] = "closed"
    /\ Wanted(b)
    /\ SubjectFits(b)
    /\ target' = [target EXCEPT ![b] = "looked"]
    /\ raced' = IF Rivals(b) # {} THEN raced \union {StreamOf[b]} ELSE raced
    /\ UNCHANGED <<brokerState, forgotten>>

\* EnsureStream, second round trip: CreateOrUpdateStream gives the stream this
\* subject, whatever it carries by now; the server refuses a subject that
\* another stream carries.
CreateOrUpdateStream(b) ==
    /\ target[b] = "looked"
    /\ Bound(TopicOf[b]) \subseteq {StreamOf[b]}
    /\ subject' = [subject EXCEPT ![StreamOf[b]] = TopicOf[b]]
    /\ target' = [target EXCEPT ![b] = "open"]
    /\ UNCHANGED <<kept, window, done, forgotten, raced>>

\* The second round trip fails and New closes what it has opened.
OpenFails(b) ==
    /\ target[b] = "looked"
    /\ target' = [target EXCEPT ![b] = "closed"]
    /\ UNCHANGED <<brokerState, forgotten, raced>>

\* The instance of an ingress bus stops or crashes; a restart opens it again.
Stops(i) ==
    /\ target[i] = "open"
    /\ target' = [b \in Buses |-> IF b = i \/ (b \in Forwards /\ Source[b] = i) THEN "closed" ELSE target[b]]
    /\ UNCHANGED <<brokerState, forgotten, raced>>

-----------------------------------------------------------------------------
(* Events.                                                                 *)

\* The receiver publishes a delivery on an ingress bus.
Receive(i, g) ==
    /\ target[i] = "open"
    /\ PublishOn(TopicOf[i], [uuid |-> g, path |-> <<>>,
                            meta |-> [guid |-> IF i \in Legacy THEN {} ELSE {g}, by |-> {}, hops |-> {}]])
    /\ UNCHANGED <<subject, done, target, forgotten, raced>>

\* Sink.Process publishes the copy; the source message is acked, or not: the
\* PubAck or the ack is lost, and it will be processed again.  A failed publish
\* and a refused message change nothing here.
Process(f, msg) ==
    /\ target[f] = "open"
    /\ msg \in Pending(f)
    /\ PublishOn(TopicOf[f], Copy(f, msg))
    /\ done' \in {done, [done EXCEPT ![f] = @ \union {msg}]}
    /\ UNCHANGED <<subject, target, forgotten, raced>>

ProcessEvent(f, g) == \E msg \in Pending(f) : FromMessage(msg).guid = g /\ Process(f, msg)

\* Sinks whose source and target streams belong to one topic in every
\* configuration.
Undisputed(f) ==
    \A b \in {f, Source[f]}, c \in Buses : StreamOf[b] = StreamOf[c] <=> TopicOf[b] = TopicOf[c]

ForwardNext ==
    \/ \E b \in Buses : LookUp(b) \/ CreateOrUpdateStream(b) \/ OpenFails(b)
    \/ \E i \in Ingresses : Stops(i) \/ \E g \in Guids : Receive(i, g)
    \/ \E f \in Forwards, g \in Guids : ProcessEvent(f, g)
    \/ \E n \in Streams : \E u \in window[n] : WindowEnds(n, u)

ForwardSpec == ForwardInit /\ [][ForwardNext]_forwardVars

\* Restarts and failed round trips end some day; a bus that is closed is opened
\* again (the restart, the next message), and a message that is not acked is
\* redelivered.  Asked of the sinks whose streams nobody disputes.
ForwardFairness ==
    /\ <>[][\A b \in Buses : ~OpenFails(b) /\ (b \in Ingresses => ~Stops(b))]_forwardVars
    /\ \A f \in {h \in Forwards : Undisputed(h)} :
          /\ \A b \in {f, Source[f]} : WF_forwardVars(LookUp(b)) /\ WF_forwardVars(CreateOrUpdateStream(b))
          /\ \A g \in Guids : WF_forwardVars(ProcessEvent(f, g))

-----------------------------------------------------------------------------
(* Properties.                                                             *)

Copies(f) == {msg \in UNION {kept[n] : n \in Streams} : msg.path # <<>> /\ msg.path[Len(msg.path)] = f}

\* A source message is acked only once a copy of its event under this sink's
\* name is on the target topic: neither the de-duplication of the original,
\* which may travel through the same stream, nor a stream that lost its
\* subject swallows it (Sink.Process, ForwardUUID, EnsureStream).
AckedIsForwarded ==
    \A f \in Forwards : \A msg \in done[f] :
        \E g \in Forwards : \E copy \in Copies(g) :
            /\ SinkName[g] = SinkName[f]
            /\ TopicOf[g] = TopicOf[f]
            /\ FromMessage(copy).guid = FromMessage(msg).guid

\* Forwarders that form a loop do not multiply an event: no copy has passed
\* more sinks than the last of them allows, and as long as no id has left its
\* window every sink has made at most one copy of an event, however often
\* messages are redelivered (ForwardHops, ForwardUUID).
LoopsEnd ==
    \A f \in Forwards :
        /\ \A copy \in Copies(f) : Len(copy.path) <= MaxHops[f]
        /\ \A copy, other \in Copies(f) :
              copy.uuid = other.uuid /\ copy.uuid \notin forgotten => copy = other

\* An open bus keeps the subject it publishes to, unless another bus with the
\* same stream name was being opened at the very same time: EnsureStream does
\* not take a subject away from whoever publishes it.
SubjectKept ==
    \A b \in Buses :
        target[b] = "open" /\ StreamOf[b] \notin raced => subject[StreamOf[b]] = TopicOf[b]

\* An event on the source of such a sink that has hops left is copied to its
\* target, through restarts, failed openings and lost acks.
ReachesTarget ==
    \A f \in {h \in Forwards : Undisputed(h)}, g \in Guids :
        (\E msg \in Pending(f) : FromMessage(msg).guid = g)
            ~> (\E copy \in Copies(f) : FromMessage(copy).guid = g)
=============================================================================
