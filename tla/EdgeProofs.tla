----------------------------- MODULE EdgeProofs -----------------------------
(***************************************************************************)
(* Proofs about the protocols at the edges of the service, for every       *)
(* deployment: forward sinks on shared brokers and in loops, embedded      *)
(* servers and their directories, the warehouse table, redelivery delays   *)
(* and the start position of the in-process bus.  They share no state.     *)
(***************************************************************************)
EXTENDS Forward, EmbeddedStore, Gochannel, NakDelays, Warehouse, FiniteSetTheorems, TLAPS

-----------------------------------------------------------------------------
(* Forward: who may take the subject of a stream.                          *)

ForwardTypeOK ==
    /\ DOMAIN subject = Streams /\ DOMAIN kept = Streams /\ DOMAIN window = Streams
    /\ DOMAIN done = Forwards
    /\ target \in [Buses -> {"closed", "looked", "open"}]

\* Two buses past their lookup that want different topics on one stream have
\* met there.
RivalsRaced ==
    \A b, c \in Buses :
        /\ target[b] # "closed" /\ target[c] # "closed"
        /\ StreamOf[b] = StreamOf[c] /\ TopicOf[b] # TopicOf[c]
        => StreamOf[b] \in raced

SubjectInv == ForwardTypeOK /\ RivalsRaced /\ SubjectKept

LEMMA StreamsExist == \A b \in Buses : StreamOf[b] \in Streams
BY DEF Streams

\* A publish stores one message in one stream, or none.
LEMMA PublishStores ==
  ASSUME ForwardTypeOK, NEW topic, NEW msg, PublishOn(topic, msg)
  PROVE  \E n \in Streams :
           /\ subject[n] = topic
           /\ \/ msg.uuid \in window[n] /\ UNCHANGED <<kept, window>>
              \/ /\ msg.uuid \notin window[n]
                 /\ DOMAIN kept' = Streams /\ DOMAIN window' = Streams
                 /\ kept'[n] = kept[n] \union {msg}
                 /\ window'[n] = window[n] \union {msg.uuid}
                 /\ \A m \in Streams \ {n} : kept'[m] = kept[m] /\ window'[m] = window[m]
BY DEF PublishOn, Bound, ForwardTypeOK

\* The types hold after every step.
LEMMA ForwardTypeStep == ForwardTypeOK /\ [ForwardNext]_forwardVars => ForwardTypeOK'
<1> SUFFICES ASSUME ForwardTypeOK, [ForwardNext]_forwardVars PROVE ForwardTypeOK'
  OBVIOUS
<1> USE DEF ForwardTypeOK, brokerState
<1>1. ASSUME NEW b \in Buses, LookUp(b) \/ CreateOrUpdateStream(b) \/ OpenFails(b)
      PROVE  ForwardTypeOK'
  BY <1>1 DEF LookUp, CreateOrUpdateStream, OpenFails
<1>2. ASSUME NEW i \in Ingresses, Stops(i) PROVE ForwardTypeOK'
  BY <1>2 DEF Stops
<1>3. ASSUME NEW i \in Ingresses, NEW g \in Guids, Receive(i, g) PROVE ForwardTypeOK'
  BY <1>3, PublishStores DEF Receive
<1>4. ASSUME NEW f \in Forwards, NEW msg \in Pending(f), Process(f, msg) PROVE ForwardTypeOK'
  <2>1. DOMAIN kept' = Streams /\ DOMAIN window' = Streams
    BY <1>4, PublishStores DEF Process
  <2> QED BY <1>4, <2>1 DEF Process
<1>5. ASSUME NEW n \in Streams, NEW u \in window[n], WindowEnds(n, u) PROVE ForwardTypeOK'
  BY <1>5 DEF WindowEnds
<1>6. CASE UNCHANGED forwardVars
  BY <1>6 DEF forwardVars
<1> QED BY <1>1, <1>2, <1>3, <1>4, <1>5, <1>6 DEF ForwardNext, ProcessEvent

\* EnsureStream takes a subject away from nobody it has not met.
LEMMA SubjectStep == SubjectInv /\ [ForwardNext]_forwardVars => SubjectInv'
<1> SUFFICES ASSUME SubjectInv, [ForwardNext]_forwardVars PROVE SubjectInv'
  OBVIOUS
<1>0. ForwardTypeOK /\ ForwardTypeOK'
  BY ForwardTypeStep DEF SubjectInv
<1> USE DEF brokerState
<1>1. ASSUME NEW b \in Buses, LookUp(b) PROVE SubjectInv'
  <2>1. /\ raced \subseteq raced' /\ subject' = subject
        /\ \A c \in Buses \ {b} : target'[c] = target[c]
        /\ target'[b] = "looked"
    BY <1>0, <1>1 DEF LookUp, ForwardTypeOK
  <2>2. SubjectKept'
    BY <2>1 DEF SubjectInv, SubjectKept
  <2>3. ASSUME NEW c \in Buses, target[c] # "closed", StreamOf[c] = StreamOf[b], TopicOf[c] # TopicOf[b]
        PROVE  StreamOf[b] \in raced'
    <3>1. CASE target[c] = "looked"
      BY <1>1, <2>3, <3>1 DEF LookUp, Rivals
    <3>2. CASE target[c] = "open" /\ StreamOf[b] \notin raced
      BY <1>1, <2>3, <3>2, ForwardAssumption DEF LookUp, SubjectFits, SubjectInv, SubjectKept
    <3> QED BY <1>0, <2>1, <2>3, <3>1, <3>2 DEF ForwardTypeOK
  <2>4. RivalsRaced'
    BY <2>1, <2>3 DEF SubjectInv, RivalsRaced
  <2> QED BY <1>0, <2>2, <2>4 DEF SubjectInv
<1>2. ASSUME NEW b \in Buses, CreateOrUpdateStream(b) PROVE SubjectInv'
  <2>1. /\ raced' = raced /\ target[b] = "looked" /\ target'[b] = "open"
        /\ \A c \in Buses \ {b} : target'[c] = target[c]
        /\ \A c \in Buses : subject'[StreamOf[c]] =
              IF StreamOf[c] = StreamOf[b] THEN TopicOf[b] ELSE subject[StreamOf[c]]
    BY <1>0, <1>2, StreamsExist DEF CreateOrUpdateStream, ForwardTypeOK
  <2>2. RivalsRaced'
    BY <2>1 DEF SubjectInv, RivalsRaced
  <2>3. SubjectKept'
    BY <2>1 DEF SubjectInv, RivalsRaced, SubjectKept
  <2> QED BY <1>0, <2>2, <2>3 DEF SubjectInv
<1>3. ASSUME UNCHANGED <<subject, raced>>, \A c \in Buses : target'[c] \in {target[c], "closed"}
      PROVE  SubjectInv'
  BY <1>0, <1>3 DEF SubjectInv, RivalsRaced, SubjectKept
<1>4. ASSUME NEW b \in Buses, OpenFails(b) PROVE SubjectInv'
  BY <1>0, <1>3, <1>4 DEF OpenFails, ForwardTypeOK
<1>5. ASSUME NEW i \in Ingresses, Stops(i) PROVE SubjectInv'
  BY <1>0, <1>3, <1>5 DEF Stops
<1>6. ASSUME UNCHANGED <<subject, target, raced>> PROVE SubjectInv'
  BY <1>3, <1>6
<1> QED BY <1>1, <1>2, <1>4, <1>5, <1>6
        DEF ForwardNext, Receive, ProcessEvent, Process, WindowEnds, forwardVars

\* An open bus keeps its subject, unless another was opened on its stream at
\* the very same time.
THEOREM SubjectStaysKept == ForwardSpec => []SubjectKept
<1>1. ForwardInit => SubjectInv
  BY DEF ForwardInit, SubjectInv, ForwardTypeOK, RivalsRaced, SubjectKept
<1>2. SubjectInv => SubjectKept
  BY DEF SubjectInv
<1> QED BY <1>1, <1>2, SubjectStep, PTL DEF ForwardSpec

-----------------------------------------------------------------------------
(* Forward: what the streams hold.                                         *)

LastOf(msg) == msg.path[Len(msg.path)]

\* A message is a delivery under its GUID, or a copy that counts the sinks it
\* has passed and is named after its event and the last of them.
Genuine(msg) ==
    /\ msg.path \in Seq(Forwards)
    /\ FromMessage(msg).hops = Len(msg.path)
    /\ FromMessage(msg).guid \in Guids
    /\ msg.path = <<>> => msg.uuid \in Guids
    /\ msg.path # <<>> =>
          /\ msg.uuid = ForwardUUID(FromMessage(msg).guid, SinkName[LastOf(msg)], TopicOf[LastOf(msg)])
          /\ Len(msg.path) <= MaxHops[LastOf(msg)]

KeptIsGenuine == \A n \in Streams : \A msg \in kept[n] : Genuine(msg)

\* The broker knows the id of what it stores until the window ends, and only
\* those ids.
WindowIsKept == \A n \in Streams : \A u \in window[n] : \E msg \in kept[n] : msg.uuid = u
KeptIsKnown == \A n \in Streams : \A msg \in kept[n] : msg.uuid \in window[n] \union forgotten

\* As long as an id has not left its window, a stream holds one message with it.
OncePerStream ==
    \A n \in Streams : \A msg, other \in kept[n] :
        msg.uuid = other.uuid /\ msg.uuid \notin forgotten => msg = other

ForwardInv ==
    /\ ForwardTypeOK
    /\ KeptIsGenuine
    /\ WindowIsKept
    /\ KeptIsKnown
    /\ OncePerStream
    /\ AckedIsForwarded

LEMMA ValueOfKey == \A x, default : Value({x}, default) = x /\ Value({}, default) = default
BY DEF Value

\* event.ToMessage and event.FromMessage: what a copy's metadata read back as.
LEMMA CopyReadsBack ==
  ASSUME NEW f, NEW msg, FromMessage(msg).hops \in Nat
  PROVE  /\ FromMessage(Copy(f, msg)).guid = FromMessage(msg).guid
         /\ FromMessage(Copy(f, msg)).hops = FromMessage(msg).hops + 1
         /\ Copy(f, msg).path = Append(msg.path, f)
         /\ Copy(f, msg).uuid = ForwardUUID(FromMessage(msg).guid, SinkName[f], TopicOf[f])
<1> DEFINE env == FromMessage(msg)
           next == [env EXCEPT !.by = {SinkName[f]}, !.hops = @ + 1]
<1>1. next.guid = env.guid /\ next.hops = env.hops + 1 /\ next.hops > 0
  BY DEF FromMessage
<1>2. Copy(f, msg) = [uuid |-> ForwardUUID(env.guid, SinkName[f], TopicOf[f]),
                      meta |-> ToMessage(next), path |-> Append(msg.path, f)]
  BY DEF Copy
<1>3. ToMessage(next).guid = {next.guid} /\ ToMessage(next).hops = {next.hops}
  BY <1>1 DEF ToMessage
<1>4. /\ FromMessage(Copy(f, msg)).guid = Value(ToMessage(next).guid, Copy(f, msg).uuid)
      /\ FromMessage(Copy(f, msg)).hops = Value(ToMessage(next).hops, 0)
  BY <1>2 DEF FromMessage
<1> HIDE DEF next
<1>5. FromMessage(Copy(f, msg)).guid = next.guid /\ FromMessage(Copy(f, msg)).hops = next.hops
  BY <1>3, <1>4, ValueOfKey
<1>6. /\ Copy(f, msg).path = Append(msg.path, f)
      /\ Copy(f, msg).uuid = ForwardUUID(FromMessage(msg).guid, SinkName[f], TopicOf[f])
  BY <1>2
<1> QED BY <1>1, <1>5, <1>6

\* Sink.Process makes a genuine copy of a genuine message it does not refuse.
LEMMA CopyIsGenuine ==
  ASSUME NEW f \in Forwards, NEW msg, Genuine(msg), ~Refused(f, msg)
  PROVE  /\ Genuine(Copy(f, msg)) /\ Copy(f, msg).path # <<>> /\ LastOf(Copy(f, msg)) = f
         /\ FromMessage(Copy(f, msg)).guid = FromMessage(msg).guid
<1>1. Len(msg.path) \in Nat /\ FromMessage(msg).hops = Len(msg.path)
  BY DEF Genuine
<1>2. /\ FromMessage(Copy(f, msg)).guid = FromMessage(msg).guid
      /\ FromMessage(Copy(f, msg)).hops = Len(msg.path) + 1
      /\ Copy(f, msg).path = Append(msg.path, f)
      /\ Copy(f, msg).uuid = ForwardUUID(FromMessage(msg).guid, SinkName[f], TopicOf[f])
  BY <1>1, CopyReadsBack
<1>3. /\ Copy(f, msg).path \in Seq(Forwards) /\ Copy(f, msg).path # <<>>
      /\ Len(Copy(f, msg).path) = Len(msg.path) + 1
      /\ LastOf(Copy(f, msg)) = f
  BY <1>2 DEF Genuine, LastOf
<1>4. Len(msg.path) + 1 <= MaxHops[f]
  BY <1>1, ForwardAssumption DEF Refused
<1> QED BY <1>2, <1>3, <1>4 DEF Genuine

\* So is a delivery, also one of an ingress that sets no delivery_guid.
LEMMA DeliveryIsGenuine ==
  ASSUME NEW g \in Guids, NEW key \in {{}, {g}}
  PROVE  Genuine([uuid |-> g, path |-> <<>>, meta |-> [guid |-> key, by |-> {}, hops |-> {}]])
<1> DEFINE msg == [uuid |-> g, path |-> <<>>, meta |-> [guid |-> key, by |-> {}, hops |-> {}]]
<1>1. msg.uuid = g /\ msg.path = <<>> /\ msg.meta.guid = key /\ msg.meta.hops = {}
  OBVIOUS
<1> HIDE DEF msg
<1>2. FromMessage(msg).guid = g /\ FromMessage(msg).hops = 0
  BY <1>1, ValueOfKey DEF FromMessage
<1>3. Genuine(msg)
  BY <1>1, <1>2 DEF Genuine
<1> QED BY <1>3 DEF msg

\* Storing a genuine message keeps the streams in order.
LEMMA PublishKeeps ==
  ASSUME ForwardInv, NEW topic, NEW msg, Genuine(msg), PublishOn(topic, msg), UNCHANGED forgotten
  PROVE  /\ KeptIsGenuine' /\ WindowIsKept' /\ KeptIsKnown' /\ OncePerStream'
         /\ \A n \in Streams : kept[n] \subseteq kept'[n]
         /\ \E n \in Streams : \E m \in kept'[n] : m.uuid = msg.uuid
<1> USE DEF ForwardInv
<1>1. PICK n \in Streams :
           \/ msg.uuid \in window[n] /\ UNCHANGED <<kept, window>>
           \/ /\ msg.uuid \notin window[n]
              /\ kept'[n] = kept[n] \union {msg}
              /\ window'[n] = window[n] \union {msg.uuid}
              /\ \A m \in Streams \ {n} : kept'[m] = kept[m] /\ window'[m] = window[m]
  BY PublishStores
<1>2. CASE msg.uuid \in window[n] /\ UNCHANGED <<kept, window>>
  <2>1. KeptIsGenuine' /\ WindowIsKept' /\ KeptIsKnown' /\ OncePerStream'
    BY <1>2 DEF KeptIsGenuine, WindowIsKept, KeptIsKnown, OncePerStream
  <2>2. \E m \in kept'[n] : m.uuid = msg.uuid
    BY <1>2 DEF WindowIsKept
  <2> QED BY <1>2, <2>1, <2>2
<1>3. CASE /\ msg.uuid \notin window[n]
           /\ kept'[n] = kept[n] \union {msg}
           /\ window'[n] = window[n] \union {msg.uuid}
           /\ \A m \in Streams \ {n} : kept'[m] = kept[m] /\ window'[m] = window[m]
  <2>1. \A m \in Streams : kept[m] \subseteq kept'[m] /\ window[m] \subseteq window'[m]
    BY <1>3
  <2>2. \A m \in Streams : \A x \in kept'[m] : x \in kept[m] \/ (m = n /\ x = msg)
    BY <1>3
  <2>3. KeptIsGenuine'
    BY <2>2 DEF KeptIsGenuine
  <2>4. WindowIsKept'
    BY <1>3, <2>1 DEF WindowIsKept
  <2>5. KeptIsKnown'
    BY <1>3, <2>1, <2>2 DEF KeptIsKnown
  <2>6. \A x \in kept[n] : x.uuid = msg.uuid => x.uuid \in forgotten
    BY <1>3 DEF KeptIsKnown
  <2>7. OncePerStream'
    BY <2>2, <2>6 DEF OncePerStream
  <2> QED BY <1>3, <2>1, <2>3, <2>4, <2>5, <2>7
<1> QED BY <1>1, <1>2, <1>3

\* What is forwarded stays forwarded.
LEMMA CopiesStay ==
  ASSUME \A n \in Streams : kept[n] \subseteq kept'[n]
  PROVE  \A f \in Forwards : Copies(f) \subseteq Copies(f)'
BY DEF Copies

\* Every step keeps the streams in order and what is acked forwarded.
LEMMA ForwardStep == ForwardInv /\ [ForwardNext]_forwardVars => ForwardInv'
<1> SUFFICES ASSUME ForwardInv, [ForwardNext]_forwardVars PROVE ForwardInv'
  OBVIOUS
<1>0. ForwardTypeOK /\ ForwardTypeOK'
  BY ForwardTypeStep DEF ForwardInv
<1> USE DEF brokerState
<1>1. ASSUME \A n \in Streams : kept[n] \subseteq kept'[n],
             NEW f \in Forwards, NEW msg \in done[f]
      PROVE  \E g \in Forwards : \E dup \in Copies(g)' :
                /\ SinkName[g] = SinkName[f]
                /\ TopicOf[g] = TopicOf[f]
                /\ FromMessage(dup).guid = FromMessage(msg).guid
  BY <1>1, CopiesStay DEF ForwardInv, AckedIsForwarded
<1>2. ASSUME UNCHANGED <<kept, window, done, forgotten>> PROVE ForwardInv'
  BY <1>0, <1>1, <1>2 DEF ForwardInv, KeptIsGenuine, WindowIsKept, KeptIsKnown, OncePerStream, AckedIsForwarded
<1>3. ASSUME NEW i \in Ingresses, NEW g \in Guids, Receive(i, g) PROVE ForwardInv'
  <2>1. PICK msg : Genuine(msg) /\ PublishOn(TopicOf[i], msg)
    BY <1>3, DeliveryIsGenuine DEF Receive
  <2>2. UNCHANGED <<done, forgotten>>
    BY <1>3 DEF Receive
  <2>3. /\ KeptIsGenuine' /\ WindowIsKept' /\ KeptIsKnown' /\ OncePerStream'
        /\ \A n \in Streams : kept[n] \subseteq kept'[n]
    BY <2>1, <2>2, PublishKeeps
  <2>4. AckedIsForwarded'
    BY <1>1, <2>2, <2>3 DEF AckedIsForwarded
  <2> QED BY <1>0, <2>3, <2>4 DEF ForwardInv
<1>4. ASSUME NEW f \in Forwards, NEW msg \in Pending(f), Process(f, msg) PROVE ForwardInv'
  <2>1. Genuine(msg) /\ ~Refused(f, msg)
    BY <1>4, StreamsExist, ForwardAssumption DEF Pending, ForwardInv, KeptIsGenuine, Buses
  <2>2. /\ Genuine(Copy(f, msg)) /\ Copy(f, msg).path # <<>> /\ LastOf(Copy(f, msg)) = f
        /\ FromMessage(Copy(f, msg)).guid = FromMessage(msg).guid
    BY <2>1, CopyIsGenuine
  <2>3. PublishOn(TopicOf[f], Copy(f, msg)) /\ UNCHANGED forgotten
    BY <1>4 DEF Process
  <2>4. /\ KeptIsGenuine' /\ WindowIsKept' /\ KeptIsKnown' /\ OncePerStream'
        /\ \A n \in Streams : kept[n] \subseteq kept'[n]
        /\ \E n \in Streams : \E m \in kept'[n] : m.uuid = Copy(f, msg).uuid
    BY <2>2, <2>3, PublishKeeps
  <2>5. \A h \in Forwards : \A m \in done'[h] : m \in done[h] \/ (h = f /\ m = msg)
    BY <1>0, <1>4 DEF Process, ForwardTypeOK
  <2>6. \E g \in Forwards : \E dup \in Copies(g)' :
            /\ SinkName[g] = SinkName[f]
            /\ TopicOf[g] = TopicOf[f]
            /\ FromMessage(dup).guid = FromMessage(msg).guid
    <3>1. PICK n \in Streams : \E m \in kept'[n] : m.uuid = Copy(f, msg).uuid
      BY <2>4
    <3>2. PICK m \in kept'[n] : m.uuid = Copy(f, msg).uuid
      BY <3>1
    <3>3. m.uuid = <<FromMessage(msg).guid, SinkName[f], TopicOf[f]>>
      BY <2>2, <3>2 DEF Genuine, ForwardUUID
    <3>4. Genuine(m) /\ FromMessage(msg).guid \in Guids
      BY <2>1, <2>4 DEF KeptIsGenuine, Genuine
    <3>5. m.path # <<>>
      BY <3>3, <3>4, ForwardAssumption DEF Genuine
    <3>6. <<FromMessage(m).guid, SinkName[LastOf(m)], TopicOf[LastOf(m)]>>
            = <<FromMessage(msg).guid, SinkName[f], TopicOf[f]>>
      BY <3>3, <3>4, <3>5 DEF Genuine, ForwardUUID
    <3>7. LastOf(m) \in Forwards
      BY <3>4, <3>5 DEF Genuine, LastOf
    <3>8. m \in Copies(LastOf(m))'
      BY <3>5 DEF Copies, LastOf
    <3> QED BY <3>6, <3>7, <3>8
  <2>7. AckedIsForwarded'
    BY <1>1, <2>4, <2>5, <2>6 DEF AckedIsForwarded
  <2> QED BY <1>0, <2>4, <2>7 DEF ForwardInv
<1>5. ASSUME NEW n \in Streams, NEW u \in window[n], WindowEnds(n, u) PROVE ForwardInv'
  <2>1. /\ UNCHANGED <<kept, done>> /\ forgotten' = forgotten \union {u}
        /\ \A m \in Streams : window'[m] = IF m = n THEN window[m] \ {u} ELSE window[m]
    BY <1>0, <1>5 DEF WindowEnds, ForwardTypeOK
  <2>2. KeptIsGenuine' /\ OncePerStream'
    BY <2>1 DEF ForwardInv, KeptIsGenuine, OncePerStream
  <2>3. WindowIsKept' /\ KeptIsKnown'
    BY <2>1 DEF ForwardInv, WindowIsKept, KeptIsKnown
  <2>4. AckedIsForwarded'
    BY <1>1, <2>1 DEF AckedIsForwarded
  <2> QED BY <1>0, <2>2, <2>3, <2>4 DEF ForwardInv
<1> QED BY <1>2, <1>3, <1>4, <1>5
        DEF ForwardNext, ProcessEvent, LookUp, CreateOrUpdateStream, OpenFails, Stops, forwardVars

\* Every stream holds genuine messages, each id once within its window.
THEOREM StreamsHoldGenuineMessages == ForwardSpec => []ForwardInv
<1>1. ForwardInit => ForwardInv
  BY DEF ForwardInit, ForwardInv, ForwardTypeOK, KeptIsGenuine, WindowIsKept, KeptIsKnown, OncePerStream,
     AckedIsForwarded
<1> QED BY <1>1, ForwardStep, PTL DEF ForwardSpec

\* A source message is acked only once a copy of its event under the sink's
\* name is on the target topic.
THEOREM AckedStaysForwarded == ForwardSpec => []AckedIsForwarded
<1>1. ForwardInv => AckedIsForwarded
  BY DEF ForwardInv
<1> QED BY <1>1, StreamsHoldGenuineMessages, PTL

-----------------------------------------------------------------------------
(* Forward: loops.                                                         *)

\* No two stream names are configured for one topic.  (With two, a topic could
\* move from one stream to the other and take no window with it.)
OneStreamPerTopic == \A b, c \in Buses : TopicOf[b] = TopicOf[c] => StreamOf[b] = StreamOf[c]

\* A stream carries the topic of one of the buses that name it.
SubjectIsNamed ==
    \A n \in Streams : subject[n] # Unbound => \E b \in Buses : StreamOf[b] = n /\ TopicOf[b] = subject[n]

\* The copies of a sink are in the stream of its target.
CopiesInStream == \A n \in Streams : \A msg \in kept[n] : msg.path # <<>> => StreamOf[LastOf(msg)] = n

PlacesInv == ForwardInv /\ SubjectIsNamed /\ CopiesInStream

\* A publish reaches the stream of its topic.
LEMMA PublishReachesStream ==
  ASSUME PlacesInv, OneStreamPerTopic, NEW b \in Buses, NEW msg, PublishOn(TopicOf[b], msg)
  PROVE  \A n \in Streams : \A m \in kept'[n] : m \in kept[n] \/ (m = msg /\ n = StreamOf[b])
<1>1. PICK n \in Streams :
           /\ subject[n] = TopicOf[b]
           /\ \/ UNCHANGED kept
              \/ /\ kept'[n] = kept[n] \union {msg}
                 /\ \A m \in Streams \ {n} : kept'[m] = kept[m]
  BY PublishStores DEF PlacesInv, ForwardInv
<1>2. n = StreamOf[b]
  BY <1>1, ForwardAssumption DEF PlacesInv, SubjectIsNamed, OneStreamPerTopic
<1> QED BY <1>1, <1>2

LEMMA PlacesStep ==
  ASSUME OneStreamPerTopic, PlacesInv, [ForwardNext]_forwardVars PROVE PlacesInv'
<1>0. ForwardInv' /\ ForwardTypeOK
  BY ForwardStep DEF PlacesInv, ForwardInv
<1> USE DEF brokerState
<1>1. SubjectIsNamed'
  <2>1. ASSUME NEW b \in Buses, CreateOrUpdateStream(b) PROVE SubjectIsNamed'
    <3>1. \A n \in Streams : subject'[n] = IF n = StreamOf[b] THEN TopicOf[b] ELSE subject[n]
      BY <1>0, <2>1, StreamsExist DEF CreateOrUpdateStream, ForwardTypeOK
    <3> QED BY <3>1 DEF PlacesInv, SubjectIsNamed
  <2>2. ASSUME UNCHANGED subject PROVE SubjectIsNamed'
    BY <2>2 DEF PlacesInv, SubjectIsNamed
  <2> QED BY <2>1, <2>2 DEF ForwardNext, LookUp, OpenFails, Stops, Receive, ProcessEvent, Process,
                            WindowEnds, forwardVars
<1>2. CopiesInStream'
  <2>1. ASSUME NEW i \in Ingresses, NEW g \in Guids, Receive(i, g) PROVE CopiesInStream'
    <3>1. PICK msg : msg.path = <<>> /\ PublishOn(TopicOf[i], msg)
      BY <2>1 DEF Receive
    <3> QED BY <3>1, PublishReachesStream DEF PlacesInv, CopiesInStream, Buses
  <2>2. ASSUME NEW f \in Forwards, NEW msg \in Pending(f), Process(f, msg) PROVE CopiesInStream'
    <3>1. Genuine(msg) /\ ~Refused(f, msg)
      BY <2>2, StreamsExist, ForwardAssumption DEF Pending, PlacesInv, ForwardInv, KeptIsGenuine, Buses
    <3>2. LastOf(Copy(f, msg)) = f
      BY <3>1, CopyIsGenuine
    <3>3. f \in Buses /\ PublishOn(TopicOf[f], Copy(f, msg))
      BY <2>2 DEF Process, Buses
    <3>4. \A n \in Streams : \A m \in kept'[n] : m \in kept[n] \/ (m = Copy(f, msg) /\ n = StreamOf[f])
      BY <3>3, PublishReachesStream
    <3> QED BY <3>2, <3>4 DEF PlacesInv, CopiesInStream
  <2>3. ASSUME UNCHANGED kept PROVE CopiesInStream'
    BY <2>3 DEF PlacesInv, CopiesInStream
  <2> QED BY <2>1, <2>2, <2>3 DEF ForwardNext, LookUp, CreateOrUpdateStream, OpenFails, Stops, ProcessEvent,
                                  WindowEnds, forwardVars
<1> QED BY <1>0, <1>1, <1>2 DEF PlacesInv

\* Forwarders that form a loop neither let an event pass more sinks than
\* max_hops nor multiply it while its ids are inside their windows.
THEOREM LoopsComeToAnEnd == OneStreamPerTopic => (ForwardSpec => []LoopsEnd)
<1> SUFFICES ASSUME OneStreamPerTopic PROVE ForwardSpec => []LoopsEnd
  OBVIOUS
<1>1. ForwardInit => PlacesInv
  BY DEF ForwardInit, PlacesInv, ForwardInv, ForwardTypeOK, KeptIsGenuine, WindowIsKept, KeptIsKnown,
     OncePerStream, AckedIsForwarded, SubjectIsNamed, CopiesInStream
<1>2. PlacesInv /\ [ForwardNext]_forwardVars => PlacesInv'
  BY PlacesStep
<1>3. PlacesInv => LoopsEnd
  <2> SUFFICES ASSUME PlacesInv, NEW f \in Forwards
               PROVE  /\ \A dup \in Copies(f) : Len(dup.path) <= MaxHops[f]
                      /\ \A dup, other \in Copies(f) :
                            dup.uuid = other.uuid /\ dup.uuid \notin forgotten => dup = other
    BY DEF LoopsEnd
  <2>1. \A dup \in Copies(f) : /\ dup.path # <<>> /\ LastOf(dup) = f
                                /\ \E n \in Streams : dup \in kept[n]
    BY DEF Copies, LastOf
  <2>2. \A dup \in Copies(f) : Len(dup.path) <= MaxHops[f]
    BY <2>1 DEF PlacesInv, ForwardInv, KeptIsGenuine, Genuine
  <2>3. \A dup \in Copies(f) : dup \in kept[StreamOf[f]]
    BY <2>1 DEF PlacesInv, CopiesInStream
  <2>4. StreamOf[f] \in Streams
    BY StreamsExist DEF Buses
  <2> QED BY <2>2, <2>3, <2>4 DEF PlacesInv, ForwardInv, OncePerStream
<1> QED BY <1>1, <1>2, <1>3, PTL DEF ForwardSpec

-----------------------------------------------------------------------------
(* EmbeddedStore: one server per directory.                                *)

\* At most one bus at a time is past reserveStore on a directory: this is what
\* the openStores table is for, and what keeps a failed start from giving away
\* the place of somebody else.
HolderIsAlone ==
    \A b, c \in Embedded :
        opening[b] # "absent" /\ opening[c] # "absent" /\ Dir[b] = Dir[c] => b = c

\* A bus past reserveStore finds its directory taken.
HeldIsTaken == \A b \in Embedded : opening[b] # "absent" => servers[Dir[b]] # "free"

\* A server stands in the entry of its own directory, so StopEmbedded, which
\* looks for the server in the whole table, deletes no other entry.
EntryIsOwn == \A d \in Dirs : servers[d] \in Embedded => Dir[servers[d]] = d

\* Files are open only between Start and the return of WaitForShutdown.
LiveIsHeld ==
    \A b \in live : opening[b] \in {"starting", "ready", "connecting", "open", "aborting", "stopping"}

StoreInv == StoreTypeOK /\ HolderIsAlone /\ HeldIsTaken /\ EntryIsOwn /\ LiveIsHeld

\* No bus has begun to open when the process starts.
LEMMA StoreInvInit == StoreInit => StoreInv
BY StoreAssumption DEF StoreInit, StoreInv, StoreTypeOK, HolderIsAlone, HeldIsTaken, EntryIsOwn, LiveIsHeld

LEMMA DirInDirs == \A b \in Embedded : Dir[b] \in Dirs
BY DEF Dirs

\* Steps that only move a bus along: neither the table nor the reservation
\* changes hands.
LEMMA MovesKeepInv ==
    ASSUME StoreInv, NEW b \in Embedded,
           NEW to \in {"starting", "ready", "connecting", "open", "aborting", "failed", "stopping", "stopped"},
           opening[b] # "absent",
           opening' = [opening EXCEPT ![b] = to],
           servers' = servers, closed' \subseteq Embedded,
           live' \subseteq live \union {b},
           b \in live' => to \notin {"failed", "stopped"}
    PROVE  StoreInv'
<1>1. StoreTypeOK'
  BY DEF StoreInv, StoreTypeOK
<1>2. HolderIsAlone' /\ HeldIsTaken'
  BY DEF StoreInv, StoreTypeOK, HolderIsAlone, HeldIsTaken
<1>3. EntryIsOwn'
  BY DEF StoreInv, EntryIsOwn
<1>4. LiveIsHeld'
  BY DEF StoreInv, StoreTypeOK, LiveIsHeld
<1> QED BY <1>1, <1>2, <1>3, <1>4 DEF StoreInv

\* reserveStore takes a free directory, so nobody else holds it.
LEMMA ReserveKeepsInv ==
    ASSUME StoreInv, NEW b \in Embedded, ReserveStore(b) PROVE StoreInv'
<1> USE DirInDirs
<1>1. StoreTypeOK'
  BY DEF StoreInv, StoreTypeOK, ReserveStore, Goes
<1>2. HolderIsAlone'
  BY DEF StoreInv, StoreTypeOK, ReserveStore, Goes, HolderIsAlone, HeldIsTaken
<1>3. HeldIsTaken'
  BY DEF StoreInv, StoreTypeOK, ReserveStore, Goes, HeldIsTaken
<1>4. EntryIsOwn'
  BY StoreAssumption DEF StoreInv, StoreTypeOK, ReserveStore, EntryIsOwn
<1>5. LiveIsHeld'
  BY DEF StoreInv, StoreTypeOK, ReserveStore, Goes, LiveIsHeld
<1> QED BY <1>1, <1>2, <1>3, <1>4, <1>5 DEF StoreInv

\* releaseStore frees the directory of the only bus that holds it.
LEMMA ReleaseKeepsInv ==
    ASSUME StoreInv, NEW b \in Embedded, ReleaseStore(b) PROVE StoreInv'
<1> USE DirInDirs
<1>1. StoreTypeOK'
  BY DEF StoreInv, StoreTypeOK, ReleaseStore, Goes
<1>2. HolderIsAlone'
  BY DEF StoreInv, StoreTypeOK, ReleaseStore, Goes, HolderIsAlone
<1>3. HeldIsTaken'
  BY DEF StoreInv, StoreTypeOK, ReleaseStore, Goes, HeldIsTaken, HolderIsAlone
<1>4. EntryIsOwn'
  BY StoreAssumption DEF StoreInv, StoreTypeOK, ReleaseStore, EntryIsOwn
<1>5. LiveIsHeld'
  BY DEF StoreInv, StoreTypeOK, ReleaseStore, Goes, LiveIsHeld
<1> QED BY <1>1, <1>2, <1>3, <1>4, <1>5 DEF StoreInv

\* The started server stands for the reservation it replaces.
LEMMA EnterKeepsInv ==
    ASSUME StoreInv, NEW b \in Embedded, EnterServer(b) PROVE StoreInv'
<1> USE DirInDirs
<1>1. StoreTypeOK'
  BY DEF StoreInv, StoreTypeOK, EnterServer, Goes
<1>2. HolderIsAlone'
  BY DEF StoreInv, StoreTypeOK, EnterServer, Goes, HolderIsAlone
<1>3. HeldIsTaken'
  BY StoreAssumption DEF StoreInv, StoreTypeOK, EnterServer, Goes, HeldIsTaken
<1>4. EntryIsOwn'
  BY DEF StoreInv, StoreTypeOK, EnterServer, EntryIsOwn
<1>5. LiveIsHeld'
  BY DEF StoreInv, StoreTypeOK, EnterServer, Goes, LiveIsHeld
<1> QED BY <1>1, <1>2, <1>3, <1>4, <1>5 DEF StoreInv

\* StopEmbedded deletes the entry of its own directory or none.
LEMMA StoppedKeepsInv ==
    ASSUME StoreInv, NEW b \in Embedded, StoppedReleases(b) PROVE StoreInv'
<1> USE DirInDirs
<1>1. StoreTypeOK'
  BY DEF StoreInv, StoreTypeOK, StoppedReleases, Goes
<1>2. HolderIsAlone'
  BY DEF StoreInv, StoreTypeOK, StoppedReleases, Goes, HolderIsAlone
<1>3. HeldIsTaken'
  <2> SUFFICES ASSUME NEW c \in Embedded, opening'[c] # "absent" PROVE servers'[Dir[c]] # "free"
    BY DEF HeldIsTaken
  <2>1. c # b /\ opening[c] # "absent" /\ opening[b] # "absent"
    BY DEF StoreInv, StoreTypeOK, StoppedReleases, Goes
  <2>2. Dir[c] # Dir[b]
    BY <2>1 DEF StoreInv, HolderIsAlone
  <2>3. servers[Dir[c]] # b
    BY <2>2 DEF StoreInv, EntryIsOwn
  <2> QED BY <2>1, <2>3 DEF StoreInv, HeldIsTaken, StoppedReleases
<1>4. EntryIsOwn'
  BY StoreAssumption DEF StoreInv, StoreTypeOK, StoppedReleases, EntryIsOwn
<1>5. LiveIsHeld'
  BY DEF StoreInv, StoreTypeOK, StoppedReleases, Goes, LiveIsHeld
<1> QED BY <1>1, <1>2, <1>3, <1>4, <1>5 DEF StoreInv

\* StoreInv is inductive, whoever opens, fails and closes in whichever order.
THEOREM StoreIsConsistent == StoreSpec => []StoreInv
<1>1. StoreInv /\ [StoreNext]_storeVars => StoreInv'
  <2> SUFFICES ASSUME StoreInv, [StoreNext]_storeVars PROVE StoreInv'
    OBVIOUS
  <2>1. CASE UNCHANGED storeVars
    BY <2>1 DEF StoreInv, storeVars, StoreTypeOK, HolderIsAlone, HeldIsTaken, EntryIsOwn, LiveIsHeld
  <2>2. ASSUME NEW b \in Embedded, ReserveStore(b) PROVE StoreInv'
    BY <2>2, ReserveKeepsInv
  <2>3. ASSUME NEW b \in Embedded, StoreStep(b) PROVE StoreInv'
    <3>1. CASE StartServer(b)
      BY <3>1, MovesKeepInv DEF StoreInv, StoreTypeOK, StartServer, Goes
    <3>2. CASE NewServerFails(b)
      BY <3>2, MovesKeepInv DEF StoreInv, StoreTypeOK, LiveIsHeld, NewServerFails, Goes
    <3>3. CASE ServerReady(b)
      BY <3>3, MovesKeepInv DEF StoreInv, StoreTypeOK, ServerReady, Goes
    <3>4. CASE ServerNotReady(b)
      BY <3>4, MovesKeepInv DEF StoreInv, StoreTypeOK, ServerNotReady, Goes
    <3>5. CASE AbortedDown(b)
      BY <3>5, MovesKeepInv DEF StoreInv, StoreTypeOK, AbortedDown, Goes
    <3>6. CASE ReleaseStore(b)
      BY <3>6, ReleaseKeepsInv
    <3>7. CASE EnterServer(b)
      BY <3>7, EnterKeepsInv
    <3>8. CASE BusReady(b)
      BY <3>8, MovesKeepInv DEF StoreInv, StoreTypeOK, BusReady, Goes
    <3>9. CASE BusFails(b)
      BY <3>9, MovesKeepInv DEF StoreInv, StoreTypeOK, BusFails, Goes
    <3>10. CASE StoppedDown(b)
      BY <3>10, MovesKeepInv DEF StoreInv, StoreTypeOK, StoppedDown, Goes
    <3>11. CASE StoppedReleases(b)
      BY <3>11, StoppedKeepsInv
    <3> QED BY <2>3, <3>1, <3>2, <3>3, <3>4, <3>5, <3>6, <3>7, <3>8, <3>9, <3>10, <3>11 DEF StoreStep
  <2>4. ASSUME NEW b \in Embedded, CloseBus(b) PROVE StoreInv'
    BY <2>4, MovesKeepInv DEF StoreInv, StoreTypeOK, CloseBus, Goes
  <2> QED BY <2>1, <2>2, <2>3, <2>4 DEF StoreNext
<1> QED BY <1>1, StoreInvInit, PTL DEF StoreSpec

\* Two servers never have their files open in one directory (reserveStore,
\* startServer, StopEmbedded).
THEOREM StoreIsExclusive == StoreSpec => []OneServerPerStore
<1>1. StoreInv => OneServerPerStore
  BY DEF StoreInv, StoreTypeOK, LiveIsHeld, HolderIsAlone, OneServerPerStore
<1> QED BY <1>1, StoreIsConsistent, PTL

-----------------------------------------------------------------------------
(* Warehouse: a table is verified before it is written to.                 *)

\* The stages are those of EnsureSchema, and a writer that manages the table
\* begins with it.
StagesOK == stage \in [Writers -> {"table", "missing", "view", "ensured"}]

\* Every table has columns that are records, which AlterTable relaxes one by one.
ColumnsOK == \A c \in table : IsColumn(c)

WarehouseInv == StagesOK /\ ColumnsOK /\ VerifiedBeforeWrite

LEMMA StagesExist == \A w \in Writers :
    /\ FirstStage(w) \in {"table", "missing", "view", "ensured"}
    /\ AfterTable(w) \in {"table", "missing", "view", "ensured"}
    /\ w \in EnsureTable => FirstStage(w) = "table"
BY DEF FirstStage, AfterTable

LEMMA WarehouseInvInit == WarehouseInit => WarehouseInv
BY StagesExist, WarehouseAssumption
DEF WarehouseInit, WarehouseInv, StagesOK, ColumnsOK, VerifiedBeforeWrite

\* The table a writer creates fits its own rows (VerifySchema).
LEMMA OwnSchemaFits == \A w \in Writers : VerifySchema(Schema[w], Schema[w])
BY DEF VerifySchema

\* What relaxing makes of a column.
LEMMA RelaxedColumn ==
    ASSUME NEW c, IsColumn(c)
    PROVE  [c EXCEPT !.required = FALSE] = [name |-> c.name, type |-> c.type, required |-> FALSE]
<1>1. PICK n, t, r : c = [name |-> n, type |-> t, required |-> r]
  BY DEF IsColumn
<1>2. \A v : [[name |-> n, type |-> t, required |-> r] EXCEPT !.required = v]
                = [name |-> n, type |-> t, required |-> v]
  OBVIOUS
<1>3. c.name = n /\ c.type = t
  BY <1>1
<1> QED BY <1>1, <1>2, <1>3

\* Adding columns and relaxing columns breaks no schema that fits.
LEMMA AlterKeepsFit ==
    ASSUME NEW want, NEW have, NEW more,
           \A c \in have \union more : IsColumn(c),
           VerifySchema(want, have)
    PROVE  VerifySchema(want, {[c EXCEPT !.required = FALSE] : c \in have \union more})
<1> DEFINE Relaxed == {[c EXCEPT !.required = FALSE] : c \in have \union more}
<1> SUFFICES ASSUME NEW f \in want
             PROVE  \E got \in Relaxed :
                      got.name = f.name /\ got.type = f.type /\ (got.required => f.required)
  BY DEF VerifySchema
<1>1. PICK got \in have : got.name = f.name /\ got.type = f.type
  BY DEF VerifySchema
<1>2. [got EXCEPT !.required = FALSE] \in Relaxed
  OBVIOUS
<1>3. [got EXCEPT !.required = FALSE] = [name |-> got.name, type |-> got.type, required |-> FALSE]
  BY RelaxedColumn
<1> QED BY <1>1, <1>2, <1>3

LEMMA AlteredColumns ==
    ASSUME NEW S, \A c \in S : IsColumn(c)
    PROVE  \A c \in {[d EXCEPT !.required = FALSE] : d \in S} : IsColumn(c)
<1> SUFFICES ASSUME NEW d \in S PROVE IsColumn([d EXCEPT !.required = FALSE])
  OBVIOUS
<1>1. [d EXCEPT !.required = FALSE] = [name |-> d.name, type |-> d.type, required |-> FALSE]
  BY RelaxedColumn
<1> QED BY <1>1 DEF IsColumn

\* Steps of EnsureSchema that leave the table alone and take a writer to a stage
\* it may be in.
LEMMA StageKeepsInv ==
    ASSUME WarehouseInv, NEW w \in Writers,
           NEW to \in {"table", "missing", "view", "ensured"},
           stage' = [stage EXCEPT ![w] = to], table' = table,
           conflicted \ {w} \subseteq conflicted',
           w \in EnsureTable /\ w \notin conflicted' /\ to \in {"view", "ensured"} =>
               table # NoTable /\ VerifySchema(Schema[w], table)
    PROVE  WarehouseInv'
<1>1. StagesOK' /\ ColumnsOK'
  BY DEF WarehouseInv, StagesOK, ColumnsOK
<1>2. VerifiedBeforeWrite'
  <2> SUFFICES ASSUME NEW v \in EnsureTable, v \notin conflicted', stage'[v] \in {"view", "ensured"}
               PROVE  table # NoTable /\ VerifySchema(Schema[v], table)
    BY DEF VerifiedBeforeWrite
  <2>1. CASE v = w
    BY <2>1 DEF WarehouseInv, StagesOK
  <2>2. CASE v # w
    BY <2>2, WarehouseAssumption DEF WarehouseInv, StagesOK, VerifiedBeforeWrite
  <2> QED BY <2>1, <2>2
<1> QED BY <1>1, <1>2 DEF WarehouseInv

\* The base table appears: nobody had verified one before.
LEMMA CreationKeepsInv ==
    ASSUME WarehouseInv, NEW w \in Writers,
           NEW to \in {"table", "missing", "view", "ensured"},
           stage' = [stage EXCEPT ![w] = to],
           table = NoTable, table' = Schema[w], conflicted' = conflicted
    PROVE  WarehouseInv'
<1>1. StagesOK' /\ ColumnsOK'
  BY WarehouseAssumption DEF WarehouseInv, StagesOK, ColumnsOK
<1>2. VerifiedBeforeWrite'
  <2> SUFFICES ASSUME NEW v \in EnsureTable, v \notin conflicted, stage'[v] \in {"view", "ensured"}
               PROVE  Schema[w] # NoTable /\ VerifySchema(Schema[v], Schema[w])
    BY DEF VerifiedBeforeWrite
  <2>1. v = w
    BY WarehouseAssumption DEF WarehouseInv, StagesOK, VerifiedBeforeWrite
  <2> QED BY <2>1, WarehouseAssumption, OwnSchemaFits
<1> QED BY <1>1, <1>2 DEF WarehouseInv

LEMMA AlterKeepsInv ==
    ASSUME WarehouseInv, NEW w \in Writers, AlterTable(w) PROVE WarehouseInv'
<1> DEFINE More == {f \in Schema[w] : \A got \in table : got.name # f.name}
<1>1. /\ table' = {[c EXCEPT !.required = FALSE] : c \in table \union More}
      /\ stage' = stage /\ conflicted' = conflicted /\ table # NoTable
  BY DEF AlterTable
<1>2. \A c \in table \union More : IsColumn(c)
  BY WarehouseAssumption DEF WarehouseInv, ColumnsOK
<1> HIDE DEF More
<1>3. table' # NoTable
  BY <1>1 DEF NoTable
<1>4. StagesOK' /\ ColumnsOK'
  BY <1>1, <1>2, AlteredColumns DEF WarehouseInv, StagesOK, ColumnsOK
<1>5. VerifiedBeforeWrite'
  <2> SUFFICES ASSUME NEW v \in EnsureTable \ conflicted, stage[v] \in {"view", "ensured"}
               PROVE  VerifySchema(Schema[v], table')
    BY <1>1, <1>3 DEF VerifiedBeforeWrite
  <2>1. VerifySchema(Schema[v], table)
    BY DEF WarehouseInv, VerifiedBeforeWrite
  <2> QED BY <2>1, <1>1, <1>2, AlterKeepsFit
<1> QED BY <1>4, <1>5 DEF WarehouseInv

\* WarehouseInv is inductive.
THEOREM WarehouseIsConsistent == WarehouseSpec => []WarehouseInv
<1>1. WarehouseInv /\ [WarehouseNext]_warehouseVars => WarehouseInv'
  <2> SUFFICES ASSUME WarehouseInv, [WarehouseNext]_warehouseVars PROVE WarehouseInv'
    OBVIOUS
  <2>1. CASE UNCHANGED warehouseVars
    BY <2>1 DEF WarehouseInv, warehouseVars, StagesOK, ColumnsOK, VerifiedBeforeWrite
  <2>2. ASSUME NEW w \in Writers, TableMetadata(w) PROVE WarehouseInv'
    <3>1. CASE table = NoTable
      BY <2>2, <3>1, StageKeepsInv DEF TableMetadata
    <3>2. CASE table # NoTable
      BY <2>2, <3>2, StageKeepsInv, StagesExist DEF TableMetadata
    <3> QED BY <3>1, <3>2
  <2>3. ASSUME NEW w \in Writers, CreateTable(w) PROVE WarehouseInv'
    <3>1. CASE table = NoTable
      BY <2>3, <3>1, CreationKeepsInv, StagesExist DEF CreateTable
    <3>2. CASE table # NoTable
      BY <2>3, <3>2, StageKeepsInv, StagesExist DEF CreateTable
    <3> QED BY <3>1, <3>2
  <2>4. ASSUME NEW w \in Writers, CreateUnconfirmed(w) PROVE WarehouseInv'
    BY <2>4, CreationKeepsInv, StagesExist DEF CreateUnconfirmed
  <2>5. ASSUME NEW w \in Writers, ViewEnsured(w) PROVE WarehouseInv'
    <3>1. w \in EnsureTable /\ w \notin conflicted => table # NoTable /\ VerifySchema(Schema[w], table)
      BY <2>5 DEF ViewEnsured, WarehouseInv, VerifiedBeforeWrite
    <3> QED BY <2>5, <3>1, StageKeepsInv DEF ViewEnsured
  <2>6. ASSUME NEW w \in Writers, EnsureFails(w) PROVE WarehouseInv'
    BY <2>6, StageKeepsInv, StagesExist DEF EnsureFails
  <2>7. ASSUME NEW w \in Writers, NEW e \in Events, AppendRows(w, e) PROVE WarehouseInv'
    BY <2>7 DEF AppendRows, WarehouseInv, StagesOK, ColumnsOK, VerifiedBeforeWrite
  <2>8. ASSUME NEW w \in Writers, RestartWriter(w) PROVE WarehouseInv'
    BY <2>8, StageKeepsInv, StagesExist DEF RestartWriter
  <2>9. ASSUME NEW w \in Writers, AlterTable(w) PROVE WarehouseInv'
    BY <2>9, AlterKeepsInv
  <2> QED BY <2>1, <2>2, <2>3, <2>4, <2>5, <2>6, <2>7, <2>8, <2>9 DEF WarehouseNext, Progress
<1> QED BY <1>1, WarehouseInvInit, PTL DEF WarehouseSpec

\* A sink that manages its table is past EnsureSchema only with a table that has
\* every column of its rows, with its type, and REQUIRED only if its rows fill
\* it, unless its Create met a conflict (ensureTable, VerifySchema).
THEOREM WarehouseVerifiesFirst == WarehouseSpec => []VerifiedBeforeWrite
<1>1. WarehouseInv => VerifiedBeforeWrite
  BY DEF WarehouseInv
<1> QED BY <1>1, WarehouseIsConsistent, PTL

\* The service takes the rows of a sink that is past EnsureSchema: a table that
\* "can hold rows", as the comment of VerifySchema has it.
RowsFit ==
    \A w \in EnsureTable \ conflicted :
        stage[w] \in {"view", "ensured"} => table # NoTable /\ Accepts(table, Schema[w])

\* Every version has the column c.
Known(c) == \A w \in Writers : \E f \in Schema[w] : f.name = c.name

\* No version, and no table found at the start, requires a column that some
\* version does not have.
RequiredIsShared ==
    /\ \A t \in TablesAtStart : \A c \in t : c.required => Known(c)
    /\ \A v \in Writers : \A c \in Schema[v] : c.required => Known(c)

RequiredIsKnown == \A c \in table : c.required => Known(c)

\* Creating a table brings in a schema, altering it relaxes every column.
LEMMA RequiredStaysKnown ==
    ASSUME RequiredIsShared, WarehouseInv, RequiredIsKnown, [WarehouseNext]_warehouseVars
    PROVE  RequiredIsKnown'
<1>1. CASE table' = table
  BY <1>1 DEF RequiredIsKnown, Known
<1>2. ASSUME NEW w \in Writers, table' = Schema[w] PROVE RequiredIsKnown'
  BY <1>2 DEF RequiredIsKnown, RequiredIsShared, Known
<1>3. ASSUME NEW w \in Writers, AlterTable(w) PROVE RequiredIsKnown'
  <2> DEFINE More == {f \in Schema[w] : \A got \in table : got.name # f.name}
  <2>1. table' = {[c EXCEPT !.required = FALSE] : c \in table \union More}
    BY <1>3 DEF AlterTable
  <2>2. \A c \in table \union More : IsColumn(c)
    BY WarehouseAssumption DEF WarehouseInv, ColumnsOK
  <2> HIDE DEF More
  <2>3. \A c \in table \union More :
            [c EXCEPT !.required = FALSE] = [name |-> c.name, type |-> c.type, required |-> FALSE]
    BY <2>2, RelaxedColumn
  <2>4. \A d \in table' : d.required = FALSE
    BY <2>1, <2>3
  <2> QED BY <2>4 DEF RequiredIsKnown
<1>4. \/ table' = table
      \/ \E w \in Writers : table' = Schema[w] \/ AlterTable(w)
  BY DEF WarehouseNext, warehouseVars, Progress, TableMetadata, CreateTable, CreateUnconfirmed,
         ViewEnsured, EnsureFails, AppendRows, RestartWriter
<1> QED BY <1>1, <1>2, <1>3, <1>4

\* Where required columns are shared by all versions and by the table found at
\* the start, VerifySchema is enough: the service takes the rows of a sink past
\* EnsureSchema, unless its Create met a conflict (EnsureSchema, VerifySchema).
THEOREM WarehouseRowsFit == RequiredIsShared => (WarehouseSpec => []RowsFit)
<1> SUFFICES ASSUME RequiredIsShared PROVE WarehouseSpec => []RowsFit
  OBVIOUS
<1>1. WarehouseInit => RequiredIsKnown
  BY DEF WarehouseInit, RequiredIsKnown, RequiredIsShared
<1>2. WarehouseInv /\ RequiredIsKnown /\ [WarehouseNext]_warehouseVars => RequiredIsKnown'
  BY RequiredStaysKnown
<1>3. WarehouseInv /\ RequiredIsKnown => RowsFit
  BY WarehouseAssumption DEF WarehouseInv, VerifiedBeforeWrite, RequiredIsKnown, Known, RowsFit, Accepts
<1> QED BY <1>1, <1>2, <1>3, WarehouseIsConsistent, PTL DEF WarehouseSpec

-----------------------------------------------------------------------------
(* NakDelays: arithmetic of any width.                                     *)

\* A power of two is the size of a powerset, so it is positive.
LEMMA PowerIsPositive == ASSUME NEW k \in Nat PROVE 2^k \in Nat \ {0}
<1>1. IsFiniteSet(1..k) /\ Cardinality(1..k) = k
  BY FS_Interval
<1>2. IsFiniteSet(SUBSET (1..k)) /\ Cardinality(SUBSET (1..k)) = 2^k
  BY <1>1, FS_SUBSET
<1>3. Cardinality(SUBSET (1..k)) \in Nat /\ Cardinality(SUBSET (1..k)) # 0
  BY <1>2, FS_CardinalityType, FS_EmptySet
<1> QED BY <1>2, <1>3

LEMMA WrappedIsNumber == ASSUME NEW i \in Int PROVE Wrapped(i) \in Int
<1>1. 2^(Width - 1) \in Int /\ 2^Width \in Nat \ {0}
  BY NakDelaysAssumption, PowerIsPositive
<1> QED BY <1>1 DEF Wrapped

\* NakDelay answers within the bounds of a valid configuration, for any count.
LEMMA NakDelayInBounds ==
  ASSUME NEW min \in Int, NEW max \in Int, ValidDelays(min, max), NEW count \in Nat
  PROVE  NakDelay(min, max, count) \in min..max
<1>1. CASE count <= 1
  BY <1>1 DEF NakDelay, ValidDelays
<1>2. CASE ~(count <= 1) /\ Capped(min, max, count - 1)
  BY <1>2 DEF NakDelay, ValidDelays
<1>3. CASE ~(count <= 1) /\ ~Capped(min, max, count - 1)
  <2>1. min * 2^(count - 1) \in Int
    BY <1>3, PowerIsPositive
  <2>2. Wrapped(min * 2^(count - 1)) \in Int
    BY <2>1, WrappedIsNumber
  <2> QED BY <1>3, <2>2 DEF NakDelay, Capped
<1> QED BY <1>1, <1>2, <1>3

NakInv ==
    /\ nakDelayMin \in Int /\ nakDelayMax \in Int /\ ValidDelays(nakDelayMin, nakDelayMax)
    /\ delivered \in Nat
    /\ DelayWithinBounds

\* However often a message is nacked, and whatever the width of a Duration, the
\* delay stays within the configured bounds.
THEOREM NakDelayStaysBounded == NakSpec => []DelayWithinBounds
<1>1. NakInit => NakInv
  <2>1. 2^(Width - 1) \in Int
    BY NakDelaysAssumption, PowerIsPositive
  <2> QED BY <2>1 DEF NakInit, NakInv, Durations, ValidDelays, DelayWithinBounds
<1>2. NakInv /\ [Nacked]_nakVars => NakInv'
  <2> SUFFICES ASSUME NakInv, [Nacked]_nakVars PROVE NakInv'
    OBVIOUS
  <2>1. CASE Nacked
    <3>1. delivered' \in Nat /\ UNCHANGED <<nakDelayMin, nakDelayMax>>
      BY <2>1 DEF Nacked, NakInv
    <3>2. NakDelay(nakDelayMin, nakDelayMax, delivered') \in nakDelayMin..nakDelayMax
      BY <3>1, NakDelayInBounds DEF NakInv
    <3>3. delay' \in nakDelayMin..nakDelayMax
      BY <2>1, <3>2 DEF Nacked, NakInv, ValidDelays
    <3> QED BY <3>1, <3>3 DEF NakInv, DelayWithinBounds
  <2>2. CASE UNCHANGED nakVars
    BY <2>2 DEF nakVars, NakInv, DelayWithinBounds
  <2> QED BY <2>1, <2>2
<1>3. NakInv => DelayWithinBounds
  BY DEF NakInv
<1> QED BY <1>1, <1>2, <1>3, PTL DEF NakSpec

-----------------------------------------------------------------------------
(* Gochannel: the start position.                                          *)

\* The cutoff is the start position, and a message that is held or was acked
\* by the handler lies after it.
MemoryInv ==
    /\ MemoryTypeOK
    /\ sub # "none" => cutoff = IF start = "earliest" THEN 0 ELSE created
    /\ sub = "none" => (\A i \in Numbers : copy[i] = "none") /\ taken = {}
    /\ \A i \in Numbers : copy[i] \in {"offered", "working"} \/ i \in taken => Deliverable(i)

LEMMA MemoryStep == MemoryInv /\ [MemoryNext]_memoryVars => MemoryInv'
<1> SUFFICES ASSUME MemoryInv, [MemoryNext]_memoryVars PROVE MemoryInv'
  OBVIOUS
<1> USE GochannelAssumption DEF MemoryInv, MemoryTypeOK, Numbers, Deliverable
<1>1. CASE PublishInMemory
  BY <1>1 DEF PublishInMemory
<1>2. CASE CreateConsumer
  BY <1>2 DEF CreateConsumer
<1>3. CASE Attach
  BY <1>3 DEF Attach
<1>4. CASE CloseSubscriber \/ SubscriptionEnds
  BY <1>4 DEF CloseSubscriber, SubscriptionEnds
<1>5. CASE CloseMemory \/ ClosePubSub
  BY <1>5 DEF CloseMemory, ClosePubSub
<1>6. ASSUME NEW i \in Numbers, TakeMessage(i) \/ HandToRouter(i) PROVE MemoryInv'
  BY <1>6 DEF TakeMessage, HandToRouter, Forwarding
<1>7. ASSUME NEW i \in Numbers, AckInMemory(i) \/ NackInMemory(i) PROVE MemoryInv'
  BY <1>7 DEF AckInMemory, NackInMemory
<1>8. CASE UNCHANGED memoryVars
  BY <1>8 DEF memoryVars
<1> QED BY <1>1, <1>2, <1>3, <1>4, <1>5, <1>6, <1>7, <1>8 DEF MemoryNext

\* The handler of a consumer never sees a message from before its start
\* position, although the Pub/Sub replays them all: the safety half of
\* StartIsExact.
THEOREM StartIsNeverEarly == MemorySpec => [](\A i \in Numbers : SeenIsOwed(i))
<1>1. MemoryInit => MemoryInv
  BY GochannelAssumption DEF MemoryInit, MemoryInv, MemoryTypeOK, Numbers
<1>2. MemoryInv => \A i \in Numbers : SeenIsOwed(i)
  BY GochannelAssumption DEF MemoryInv, MemoryTypeOK, SeenIsOwed, Owed, Deliverable, Numbers
<1> QED BY <1>1, <1>2, MemoryStep, PTL DEF MemorySpec
=============================================================================
