------------------------------ MODULE Ingress ------------------------------
(***************************************************************************)
(* The receiver in front of the stream: serveWebhook with its early exits, *)
(* Bus.Publish with its deadline, the NATS connection that may break with  *)
(* messages and PubAcks on it, and the graceful stop, crash and restart of *)
(* the HTTP server.  A request is one HTTP request; GitHub may send the    *)
(* same delivery GUID in several.                                          *)
(***************************************************************************)
EXTENDS Stream

CONSTANTS Requests   \* bound: HTTP requests ever made, each used once

VARIABLES req,      \* per request: phase, guid, kind, answer (0: none yet)
          link,     \* the connection to the broker is up
          wire,     \* requests whose message is on its way to the broker
          pubacks,  \* requests whose PubAck is on its way back
          server    \* "open", "draining" (Shutdown in progress), "closed"

ingressVars == <<req, link, wire, pubacks, server>>
vars == <<streamVars, ingressVars>>

\* What a request turns out to be, in the order serveWebhook finds out.
Kinds == {"oversized", "truncated", "forged", "ping", "invalid", "event"}
Phases == {"none", "serving", "publishing", "done"}
Codes == {0, 200, 400, 401, 413, 503}

NoRequest(u) == [phase |-> "none", guid |-> u, kind |-> "event", answer |-> 0]

IngressTypeOK ==
    /\ StreamTypeOK
    /\ req \in [Requests -> [phase : Phases, guid : Uuids, kind : Kinds, answer : Codes]]
    /\ link \in BOOLEAN
    /\ wire \subseteq Requests
    /\ pubacks \subseteq Requests
    /\ server \in {"open", "draining", "closed"}

Init ==
    /\ StreamInit
    /\ \E u \in Uuids : req = [r \in Requests |-> NoRequest(u)]
    /\ link = TRUE
    /\ wire = {}
    /\ pubacks = {}
    /\ server = "open"

-----------------------------------------------------------------------------
Answer(r, code) ==
    req' = [req EXCEPT ![r].phase = "done", ![r].answer = code]

\* A request reaches the handler.
Arrive(r, u, kind) ==
    /\ server = "open"
    /\ req[r].phase = "none"
    /\ req' = [req EXCEPT ![r] = [phase |-> "serving", guid |-> u,
                                  kind |-> kind, answer |-> 0]]
    /\ UNCHANGED <<streamVars, link, wire, pubacks, server>>

\* The exits of serveWebhook that publish nothing: 413 and 400 on the body,
\* 401 on the signature, 200 on a ping, 400 on the envelope.
Verdict(kind) ==
    CASE kind = "oversized" -> 413
      [] kind \in {"truncated", "invalid"} -> 400
      [] kind = "forged" -> 401
      [] kind = "ping" -> 200

AnswerUnpublished(r) ==
    /\ req[r].phase = "serving"
    /\ req[r].kind # "event"
    /\ Answer(r, Verdict(req[r].kind))
    /\ UNCHANGED <<streamVars, link, wire, pubacks, server>>

\* Bus.Publish sends the message.  There is no buffer for an outage: without a
\* connection the call fails at once and the request is answered 503.
Publish(r) ==
    /\ req[r].phase = "serving"
    /\ req[r].kind = "event"
    /\ \/ /\ link
          /\ req' = [req EXCEPT ![r].phase = "publishing"]
          /\ wire' = wire \union {r}
       \/ /\ ~link
          /\ Answer(r, 503)
          /\ UNCHANGED wire
    /\ UNCHANGED <<streamVars, link, pubacks, server>>

\* The broker takes a message off the wire and acknowledges it.  Nobody has
\* to be waiting for it any more.
StoreArrives(r) ==
    /\ r \in wire
    /\ Store(req[r].guid)
    /\ wire' = wire \ {r}
    /\ pubacks' = IF link THEN pubacks \union {r} ELSE pubacks
    /\ UNCHANGED <<req, link, server>>

\* Mutant of PubAck: a message sent counts as a message stored.
PubAckAssumed(r) ==
    /\ req[r].phase = "publishing"
    /\ pubacks' = pubacks \ {r}
    /\ Answer(r, 200)
    /\ UNCHANGED <<streamVars, link, wire, server>>

\* Publish returns nil and the request is answered 200.
PubAck(r) ==
    /\ r \in pubacks
    /\ req[r].phase = "publishing"
    /\ pubacks' = pubacks \ {r}
    /\ Answer(r, 200)
    /\ UNCHANGED <<streamVars, link, wire, server>>

\* Mutant of PublishTimeout: the deadline covers connection errors only.
PublishUndeadlined(r) ==
    /\ req[r].phase = "publishing"
    /\ ~link
    /\ Answer(r, 503)
    /\ UNCHANGED <<streamVars, link, wire, pubacks, server>>

\* publish_timeout ends, or the client goes away: Publish returns the context
\* error and the request is answered 503.
PublishTimeout(r) ==
    /\ req[r].phase = "publishing"
    /\ Answer(r, 503)
    /\ UNCHANGED <<streamVars, link, wire, pubacks, server>>

\* The connection breaks: some messages on it reached the broker, the others
\* and the PubAcks are lost.
Disconnect ==
    /\ link
    /\ link' = FALSE
    /\ \E W \in SUBSET wire : wire' = W
    /\ pubacks' = {}
    /\ UNCHANGED <<streamVars, req, server>>

Reconnect ==
    /\ ~link
    /\ server # "closed"
    /\ link' = TRUE
    /\ UNCHANGED <<streamVars, req, wire, pubacks, server>>

\* Server.Run, its context ended: no new connections.
BeginShutdown ==
    /\ server = "open"
    /\ server' = "draining"
    /\ UNCHANGED <<streamVars, req, link, wire, pubacks>>

\* Shutdown waits for requests in flight; its limit exceeds the longest one.
\* Then the bus closes its connection.
FinishShutdown ==
    /\ server = "draining"
    /\ \A r \in Requests : req[r].phase \in {"none", "done"}
    /\ server' = "closed"
    /\ link' = FALSE
    /\ pubacks' = {}
    /\ UNCHANGED <<streamVars, req, wire>>

\* A crash takes the requests with it unanswered; GitHub records a failure.
Crash ==
    /\ server # "closed"
    /\ server' = "closed"
    /\ link' = FALSE
    /\ \E W \in SUBSET wire : wire' = W
    /\ pubacks' = {}
    /\ req' = [r \in Requests |-> IF req[r].phase \in {"serving", "publishing"}
                                  THEN [req[r] EXCEPT !.phase = "done"] ELSE req[r]]
    /\ UNCHANGED streamVars

Restart ==
    /\ server = "closed"
    /\ server' = "open"
    /\ link' = TRUE
    /\ UNCHANGED <<streamVars, req, wire, pubacks>>

StreamAges ==
    /\ ForgetId \/ Expire
    /\ UNCHANGED ingressVars

-----------------------------------------------------------------------------
Request(r) ==
    \/ \E u \in Uuids, kind \in Kinds : Arrive(r, u, kind)
    \/ AnswerUnpublished(r)
    \/ Publish(r)
    \/ StoreArrives(r)
    \/ PubAck(r)
    \/ PublishTimeout(r)

Next ==
    \/ \E r \in Requests : Request(r)
    \/ Disconnect \/ Reconnect
    \/ BeginShutdown \/ FinishShutdown \/ Crash \/ Restart
    \/ StreamAges

Spec == Init /\ [][Next]_vars

\* The handler goroutine runs, its deadline ends, Shutdown and the supervisor
\* get on; nothing is assumed of the broker or the connection.
Fairness ==
    /\ WF_vars(FinishShutdown)
    /\ \A r \in Requests : /\ WF_vars(AnswerUnpublished(r) \/ Publish(r))
                           /\ WF_vars(PubAck(r) \/ PublishTimeout(r))

FairSpec == Spec /\ Fairness

-----------------------------------------------------------------------------
(* Properties.                                                             *)

Stored(u) == \E i \in DOMAIN log : log[i] = u

\* GitHub sees a 2xx for an event only when the broker has stored it, through
\* timeouts, broken connections, duplicates and restarts.
AcceptedIsStored ==
    \A r \in Requests :
        req[r].kind = "event" /\ req[r].answer = 200 => Stored(req[r].guid)

\* Every request that arrives is answered, or dies with the process, even if
\* the broker never confirms anything; a shutdown therefore completes.
AlwaysAnswered ==
    /\ \A r \in Requests : req[r].phase = "serving" ~> req[r].phase = "done"
    /\ server = "draining" ~> server = "closed"
=============================================================================
