--------------------------- MODULE IngressProofs ---------------------------
(***************************************************************************)
(* For any requests, ids and log: a 2xx means that the event is stored.    *)
(***************************************************************************)
EXTENDS Ingress, TLAPS

\* Only a request that reached Bus.Publish has a message or a PubAck on the
\* connection, so a request does not take its id back while one is under way.
SentIsPublished ==
    \A r \in wire \union pubacks : req[r].phase \in {"publishing", "done"}

\* The broker confirms what it has stored, now or as a duplicate.
ConfirmedIsStored == \A r \in pubacks : Stored(req[r].guid)

\* What makes a message a duplicate is on the log.
RecentIsStored == \A u \in recent : Stored(u)

IngressInv ==
    /\ IngressTypeOK
    /\ SentIsPublished
    /\ ConfirmedIsStored
    /\ RecentIsStored
    /\ AcceptedIsStored

-----------------------------------------------------------------------------
(* What a step may change.                                                 *)

\* An answer ends the request and changes nothing else of it.
LEMMA AnswerTyped ==
    ASSUME IngressTypeOK, NEW r \in Requests, NEW code \in Codes, Answer(r, code)
    PROVE  /\ req' \in [Requests -> [phase : Phases, guid : Uuids, kind : Kinds, answer : Codes]]
           /\ req'[r].phase = "done" /\ req'[r].answer = code
           /\ req'[r].guid = req[r].guid /\ req'[r].kind = req[r].kind
           /\ \A q \in Requests \ {r} : req'[q] = req[q]
BY DEF IngressTypeOK, Answer, Phases

LEMMA IngressInvInit == Init => IngressInv
BY StreamAssumption
DEF Init, StreamInit, IngressInv, IngressTypeOK, StreamTypeOK, NoRequest, Phases, Kinds, Codes,
    SentIsPublished, ConfirmedIsStored, RecentIsStored, AcceptedIsStored

\* serveWebhook answers: what is stored does not change, and a 200 for an
\* event needs its PubAck.
LEMMA AnswerKeepsInv ==
    ASSUME IngressInv, NEW r \in Requests, NEW code \in Codes, Answer(r, code),
           code = 200 /\ req[r].kind = "event" => Stored(req[r].guid),
           UNCHANGED <<streamVars, link, wire, server>>, pubacks' \subseteq pubacks
    PROVE  IngressInv'
<1> USE DEF IngressInv
<1>1. /\ req' \in [Requests -> [phase : Phases, guid : Uuids, kind : Kinds, answer : Codes]]
      /\ req'[r].phase = "done" /\ req'[r].answer = code
      /\ req'[r].guid = req[r].guid /\ req'[r].kind = req[r].kind
      /\ \A q \in Requests \ {r} : req'[q] = req[q]
  BY AnswerTyped
<1>2. \A v : Stored(v)' = Stored(v)
  BY DEF Stored, streamVars
<1>3. IngressTypeOK'
  BY <1>1 DEF IngressTypeOK, StreamTypeOK, streamVars
<1>4. SentIsPublished'
  BY <1>1 DEF IngressTypeOK, SentIsPublished
<1>5. ConfirmedIsStored' /\ AcceptedIsStored'
  BY <1>1, <1>2 DEF IngressTypeOK, ConfirmedIsStored, AcceptedIsStored
<1>6. RecentIsStored'
  BY <1>2 DEF RecentIsStored, streamVars
<1> QED BY <1>3, <1>4, <1>5, <1>6

LEMMA ArriveKeepsInv ==
    ASSUME IngressInv, NEW r \in Requests, NEW u \in Uuids, NEW kind \in Kinds, Arrive(r, u, kind)
    PROVE  IngressInv'
<1> USE DEF IngressInv
<1>1. /\ req' \in [Requests -> [phase : Phases, guid : Uuids, kind : Kinds, answer : Codes]]
      /\ req'[r].answer = 0
      /\ \A q \in Requests \ {r} : req'[q] = req[q]
  BY DEF Arrive, IngressTypeOK, Phases, Codes
<1>2. r \notin wire \union pubacks
  BY DEF Arrive, SentIsPublished
<1>3. \A v : Stored(v)' = Stored(v)
  BY DEF Stored, streamVars, Arrive
<1>4. IngressTypeOK'
  BY <1>1 DEF Arrive, IngressTypeOK, StreamTypeOK, streamVars
<1>5. SentIsPublished'
  BY <1>1, <1>2 DEF Arrive, IngressTypeOK, SentIsPublished
<1>6. ConfirmedIsStored' /\ AcceptedIsStored'
  BY <1>1, <1>2, <1>3 DEF Arrive, IngressTypeOK, ConfirmedIsStored, AcceptedIsStored
<1>7. RecentIsStored'
  BY <1>3 DEF RecentIsStored, streamVars, Arrive
<1> QED BY <1>4, <1>5, <1>6, <1>7

\* Publish with a connection: the message is on its way, nothing is answered.
LEMMA SendKeepsInv ==
    ASSUME IngressInv, NEW r \in Requests, req[r].phase = "serving",
           req' = [req EXCEPT ![r].phase = "publishing"], wire' = wire \union {r},
           UNCHANGED <<streamVars, link, pubacks, server>>
    PROVE  IngressInv'
<1> USE DEF IngressInv
<1>1. /\ req' \in [Requests -> [phase : Phases, guid : Uuids, kind : Kinds, answer : Codes]]
      /\ req'[r].phase = "publishing" /\ req'[r].answer = req[r].answer
      /\ req'[r].guid = req[r].guid /\ req'[r].kind = req[r].kind
      /\ \A q \in Requests \ {r} : req'[q] = req[q]
  BY DEF IngressTypeOK, Phases
<1>2. \A v : Stored(v)' = Stored(v)
  BY DEF Stored, streamVars
<1>3. IngressTypeOK'
  BY <1>1 DEF IngressTypeOK, StreamTypeOK, streamVars
<1>4. SentIsPublished'
  BY <1>1 DEF IngressTypeOK, SentIsPublished
<1>5. ConfirmedIsStored' /\ AcceptedIsStored'
  BY <1>1, <1>2 DEF IngressTypeOK, ConfirmedIsStored, AcceptedIsStored
<1>6. RecentIsStored'
  BY <1>2 DEF RecentIsStored, streamVars
<1> QED BY <1>3, <1>4, <1>5, <1>6

\* The broker stores the message, or knows it, and only then confirms it.
LEMMA StoreKeepsInv ==
    ASSUME IngressInv, NEW r \in Requests, StoreArrives(r)
    PROVE  IngressInv'
<1> USE DEF IngressInv
<1>1. PICK u \in Uuids : u = req[r].guid
  BY DEF IngressTypeOK
<1>2. log' = log \/ log' = Append(log, u)
  BY <1>1 DEF StoreArrives, Store, streamVars
\* The log only grows.
<1>3. /\ \A v : Stored(v) => Stored(v)'
      /\ log' = Append(log, u) => Stored(u)'
  <2>1. StreamTypeOK
    BY DEF IngressTypeOK
  <2> HIDE DEF IngressInv
  <2> QED BY <2>1, <1>1, <1>2 DEF Stored, StreamTypeOK
<1>4. Stored(u)'
  BY <1>1, <1>3 DEF StoreArrives, Store, RecentIsStored
<1>5. StreamTypeOK'
  <2>1. StreamTypeOK /\ Store(u)
    BY <1>1 DEF StoreArrives, IngressTypeOK
  <2>2. CASE log' = Append(log, u) /\ Len(log) < MaxLog /\ first' = first /\ recent' = recent \union {u}
    <3>1. log' \in Seq(Uuids) /\ Len(log') = Len(log) + 1
      BY <2>1, <2>2 DEF StreamTypeOK
    <3> QED BY <2>1, <2>2, <3>1, StreamAssumption DEF StreamTypeOK
  <2>3. CASE UNCHANGED streamVars
    BY <2>1, <2>3 DEF streamVars, StreamTypeOK
  <2> QED BY <2>1, <2>2, <2>3 DEF Store
<1>6. IngressTypeOK' /\ SentIsPublished'
  BY <1>5 DEF StoreArrives, IngressTypeOK, SentIsPublished
<1>7. ConfirmedIsStored' /\ AcceptedIsStored'
  BY <1>1, <1>3, <1>4 DEF StoreArrives, ConfirmedIsStored, AcceptedIsStored
<1>8. RecentIsStored'
  BY <1>1, <1>3, <1>4 DEF StoreArrives, Store, streamVars, RecentIsStored
<1> QED BY <1>6, <1>7, <1>8

\* The connection and the server: messages and PubAcks may get lost, answers
\* are not given.
LEMMA LossKeepsInv ==
    ASSUME IngressInv, req' = req, wire' \subseteq wire, pubacks' \subseteq pubacks,
           UNCHANGED streamVars, link' \in BOOLEAN, server' \in {"open", "draining", "closed"}
    PROVE  IngressInv'
<1>1. \A v : Stored(v)' = Stored(v)
  BY DEF Stored, streamVars
<1> QED
  BY <1>1 DEF IngressInv, IngressTypeOK, StreamTypeOK, streamVars, SentIsPublished, ConfirmedIsStored,
            RecentIsStored, AcceptedIsStored

LEMMA CrashKeepsInv == ASSUME IngressInv, Crash PROVE IngressInv'
<1> USE DEF IngressInv
<1>1. /\ req' \in [Requests -> [phase : Phases, guid : Uuids, kind : Kinds, answer : Codes]]
      /\ \A r \in Requests : /\ req'[r].guid = req[r].guid /\ req'[r].kind = req[r].kind
                             /\ req'[r].answer = req[r].answer
                             /\ req[r].phase \in {"publishing", "done"} => req'[r].phase = "done"
  <2>1. req' = [r \in Requests |-> IF req[r].phase \in {"serving", "publishing"}
                                   THEN [req[r] EXCEPT !.phase = "done"] ELSE req[r]]
    BY DEF Crash
  <2> SUFFICES ASSUME NEW r \in Requests
               PROVE  /\ req'[r] \in [phase : Phases, guid : Uuids, kind : Kinds, answer : Codes]
                      /\ req'[r].guid = req[r].guid /\ req'[r].kind = req[r].kind
                      /\ req'[r].answer = req[r].answer
                      /\ req[r].phase \in {"publishing", "done"} => req'[r].phase = "done"
    BY <2>1
  <2>2. req[r] \in [phase : Phases, guid : Uuids, kind : Kinds, answer : Codes]
    BY DEF IngressTypeOK
  <2> QED BY <2>1, <2>2 DEF Phases
<1>2. \A v : Stored(v)' = Stored(v)
  BY DEF Stored, streamVars, Crash
<1>3. IngressTypeOK'
  BY <1>1 DEF Crash, IngressTypeOK, StreamTypeOK, streamVars
<1>4. SentIsPublished'
  BY <1>1 DEF Crash, IngressTypeOK, SentIsPublished
<1>5. ConfirmedIsStored' /\ AcceptedIsStored'
  BY <1>1, <1>2 DEF Crash, ConfirmedIsStored, AcceptedIsStored
<1>6. RecentIsStored'
  BY <1>2 DEF Crash, RecentIsStored, streamVars
<1> QED BY <1>3, <1>4, <1>5, <1>6

\* Ids leave the window and messages the stream; the log remembers them.
LEMMA AgesKeepsInv == ASSUME IngressInv, StreamAges PROVE IngressInv'
<1>1. log' = log /\ recent' \subseteq recent /\ req' = req /\ wire' = wire /\ pubacks' = pubacks
  BY DEF StreamAges, ForgetId, Expire, ingressVars
<1>2. \A v : Stored(v)' = Stored(v)
  BY <1>1 DEF Stored
<1>3. StreamTypeOK'
  BY DEF StreamAges, ForgetId, Expire, IngressInv, IngressTypeOK, StreamTypeOK
<1>4. IngressTypeOK'
  BY <1>3 DEF StreamAges, ingressVars, IngressInv, IngressTypeOK
<1> QED
  BY <1>1, <1>2, <1>4 DEF IngressInv, SentIsPublished, ConfirmedIsStored, RecentIsStored, AcceptedIsStored

-----------------------------------------------------------------------------
\* IngressInv is inductive.
THEOREM IngressIsConsistent == Spec => []IngressInv
<1>1. IngressInv /\ [Next]_vars => IngressInv'
  <2> SUFFICES ASSUME IngressInv, [Next]_vars PROVE IngressInv'
    OBVIOUS
  <2> USE DEF Codes
  <2>1. CASE UNCHANGED vars
    BY <2>1, LossKeepsInv DEF vars, ingressVars, streamVars, IngressInv, IngressTypeOK
  <2>2. ASSUME NEW r \in Requests, Request(r) PROVE IngressInv'
    <3>1. ASSUME NEW u \in Uuids, NEW kind \in Kinds, Arrive(r, u, kind) PROVE IngressInv'
      BY <3>1, ArriveKeepsInv
    <3>2. CASE AnswerUnpublished(r)
      <4>1. req[r].kind \in Kinds \ {"event"}
        BY <3>2 DEF AnswerUnpublished, IngressInv, IngressTypeOK
      <4>2. Verdict(req[r].kind) \in Codes
        BY <4>1 DEF Verdict, Kinds
      <4> QED BY <3>2, <4>1, <4>2, AnswerKeepsInv DEF AnswerUnpublished, streamVars
    <3>3. CASE Publish(r)
      BY <3>3, SendKeepsInv, AnswerKeepsInv DEF Publish, streamVars
    <3>4. CASE StoreArrives(r)
      BY <3>4, StoreKeepsInv
    <3>5. CASE PubAck(r)
      BY <3>5, AnswerKeepsInv DEF PubAck, IngressInv, ConfirmedIsStored
    <3>6. CASE PublishTimeout(r)
      BY <3>6, AnswerKeepsInv DEF PublishTimeout
    <3> QED BY <2>2, <3>1, <3>2, <3>3, <3>4, <3>5, <3>6 DEF Request
  <2>3. /\ link \in BOOLEAN /\ server \in {"open", "draining", "closed"}
        /\ wire \subseteq wire /\ pubacks \subseteq pubacks /\ {} \subseteq pubacks
    BY DEF IngressInv, IngressTypeOK
  <2>4. CASE Disconnect
    BY <2>3, <2>4, LossKeepsInv DEF Disconnect
  <2>5. CASE Reconnect
    BY <2>3, <2>5, LossKeepsInv DEF Reconnect
  <2>6. CASE BeginShutdown
    BY <2>3, <2>6, LossKeepsInv DEF BeginShutdown
  <2>7. CASE FinishShutdown
    BY <2>3, <2>7, LossKeepsInv DEF FinishShutdown
  <2>8. CASE Restart
    BY <2>3, <2>8, LossKeepsInv DEF Restart
  <2>9. CASE Crash
    BY <2>9, CrashKeepsInv
  <2>10. CASE StreamAges
    BY <2>10, AgesKeepsInv
  <2> QED BY <2>1, <2>2, <2>4, <2>5, <2>6, <2>7, <2>8, <2>9, <2>10 DEF Next
<1> QED BY <1>1, IngressInvInit, PTL DEF Spec

\* A 2xx for an event means that the broker has stored it, through timeouts,
\* broken connections, duplicates, crashes and restarts (serveWebhook, Publish).
THEOREM AcceptedStaysStored == Spec => []AcceptedIsStored
<1>1. IngressInv => AcceptedIsStored
  BY DEF IngressInv
<1> QED BY <1>1, IngressIsConsistent, PTL
=============================================================================
