---------------------------- MODULE Projections ----------------------------
(***************************************************************************)
(* What the trace, log and analytics sinks make of the webhook events of   *)
(* workflow runs: Normalize and the projections of the three classes, fed  *)
(* with events that arrive in any order, late, and more than once, and     *)
(* what the destinations then hold.  GitHub (runs, attempts, jobs and the  *)
(* payloads it sends) and the destinations are external.  Every sink has   *)
(* its own consumer and they share no state, so a behaviour follows one.   *)
(*                                                                         *)
(* SHA-256 is taken to be injective: an id is the tuple that is hashed.    *)
(***************************************************************************)
EXTENDS Integers, Sequences, FiniteSets

CONSTANTS Classes,      \* the sink classes looked at
          Runs, Jobs,   \* GitHub's numeric ids
          Conclusions,  \* conclusions GitHub may report
          MaxAttempt,   \* bound: attempts of a run
          MaxSteps,     \* bound: steps of a job
          MaxTime,      \* bound: the time, in seconds
          MaxSent,      \* bound: payloads GitHub sends
          MaxStored     \* bound: messages that reach the sink

ASSUME ProjectionsAssumption ==
    /\ Classes \subseteq {"trace", "log", "analytics"}
    /\ Runs \subseteq Nat \ {0} /\ Jobs \subseteq Nat \ {0}
    /\ {MaxAttempt, MaxSteps, MaxTime, MaxSent, MaxStored} \subseteq Nat

VARIABLES class,    \* the class of the sink
          now,      \* the time
          current,  \* GitHub: entity -> its state, as the last payload tells it
          payloads, \* GitHub: payloads
          acked,    \* messages, an envelope with its payload, processed or skipped
          refused,  \* messages that are permanently unprocessable
          out       \* what the destination holds

github == <<current, payloads>>
sink == <<acked, refused, out>>
projectionVars == <<class, now, github, sink>>

Missing == 0     \* a time that is nil or zero
NoConclusion == "none"   \* a nil conclusion
NullStatus == ""

ProjectionsInit ==
    /\ class \in Classes
    /\ now = 1
    /\ current = <<>>
    /\ payloads = {}
    /\ acked = {}
    /\ refused = {}
    /\ out = {}

-----------------------------------------------------------------------------
(* The payloads, as far as the model keeps them.                           *)

\* A run: ended is updated_at.
Run(r, a, status, conclusion, created, started, ended) ==
    [kind |-> "run", whole |-> TRUE, run |-> r, attempt |-> a, job |-> 0, status |-> status,
     conclusion |-> conclusion, created |-> created, started |-> started, ended |-> ended,
     steps |-> <<>>]

\* A job, with the steps of the same event: ended is completed_at.
Job(r, a, j, status, conclusion, created, started, ended, steps) ==
    [kind |-> "job", whole |-> TRUE, run |-> r, attempt |-> a, job |-> j, status |-> status,
     conclusion |-> conclusion, created |-> created, started |-> started, ended |-> ended,
     steps |-> steps]

Step(status, conclusion, started, ended) ==
    [status |-> status, conclusion |-> conclusion, started |-> started, ended |-> ended]

\* An event that is not modelled, and one that does not decode: invalid JSON,
\* no entity, no ids, no repository.
Ping == [kind |-> "none", whole |-> TRUE]
Broken == [kind |-> "job", whole |-> FALSE]

Modelled(p) == p.kind \in {"run", "job"} /\ p.whole

EntityOf(p) == IF p.kind = "run" THEN <<"run", p.run, p.attempt>> ELSE <<"job", p.job>>

-----------------------------------------------------------------------------
(* GitHub.  Timestamps have seconds: two transitions may share one.        *)

Is(e, statuses) == e \in DOMAIN current /\ current[e].status \in statuses

JobsOf(r, a) == {j \in Jobs : /\ <<"job", j>> \in DOMAIN current
                              /\ current[<<"job", j>>].run = r
                              /\ current[<<"job", j>>].attempt = a}

\* An entity moves to the state p, and GitHub sends it.
Send(p) ==
    /\ Cardinality(payloads) < MaxSent
    /\ current' = [e \in DOMAIN current \union {EntityOf(p)} |->
                      IF e = EntityOf(p) THEN p ELSE current[e]]
    /\ payloads' = payloads \union {p}
    /\ UNCHANGED <<class, now, sink>>

\* The first attempt, or a re-run: created_at stays that of the run.
RequestRun(r, a) ==
    /\ <<"run", r, a>> \notin DOMAIN current
    /\ a = 1 \/ Is(<<"run", r, a - 1>>, {"completed"})
    /\ LET created == IF a = 1 THEN now ELSE current[<<"run", r, a - 1>>].created
       IN  \E started \in {now, Missing} :
              Send(Run(r, a, "requested", NoConclusion, created, started, now))

StartRun(r, a) ==
    /\ Is(<<"run", r, a>>, {"requested"})
    /\ LET p == current[<<"run", r, a>>]
       IN  Send([p EXCEPT !.status = "in_progress", !.ended = now])

CompleteRun(r, a) ==
    /\ Is(<<"run", r, a>>, {"requested", "in_progress"})
    /\ \A j \in JobsOf(r, a) : Is(<<"job", j>>, {"completed"})
    /\ LET p == current[<<"run", r, a>>]
       IN  \E c \in Conclusions :
              Send([p EXCEPT !.status = "completed", !.conclusion = c, !.ended = now])

\* While a job waits, started_at is its created_at.
QueueJob(j, r, a) ==
    /\ <<"job", j>> \notin DOMAIN current
    /\ Is(<<"run", r, a>>, {"requested", "in_progress"})
    /\ \E status \in {"waiting", "queued"} :
          Send(Job(r, a, j, status, NoConclusion, now, now, Missing, <<>>))

StartJob(j) ==
    /\ Is(<<"job", j>>, {"waiting", "queued"})
    /\ LET p == current[<<"job", j>>]
       IN  \E started \in {now, Missing}, n \in 0..MaxSteps :
              Send([p EXCEPT !.status = "in_progress", !.started = started,
                             !.steps = [i \in 1..n |-> Step("in_progress", NoConclusion, now, Missing)]])

\* Every step ran, was skipped, or is reported without a status.
CompleteJob(j) ==
    /\ Is(<<"job", j>>, {"waiting", "queued", "in_progress"})
    /\ LET p == current[<<"job", j>>]
       IN  \E c \in Conclusions, n \in Len(p.steps)..MaxSteps :
              \E steps \in [1..n -> {Step("completed", "success", p.created, now),
                                     Step("completed", "skipped", Missing, Missing),
                                     Step(NullStatus, NoConclusion, p.created, now)}] :
                 Send([p EXCEPT !.status = "completed", !.conclusion = c, !.ended = now,
                                !.steps = steps])

TimePasses ==
    /\ now < MaxTime
    /\ now' = now + 1
    /\ UNCHANGED <<class, github, sink>>

-----------------------------------------------------------------------------
(* model: ids, ranks and times.                                            *)

\* Mutant of TraceID: all attempts of a run share a trace.
TraceIDOfRun(p) == <<"trace", p.run>>

TraceID(p) == <<"trace", p.run, p.attempt>>

RunSpanID(p) == <<"run", p.run, p.attempt>>

JobSpanID(p) == <<"job", p.job>>

StepSpanID(p, number) == <<"step", p.job, number>>

RecordID(kind, ids) == <<kind, ids>>

StatusRank(status) ==
    CASE status = "completed" -> 3
      [] status = "in_progress" -> 2
      [] status \in {"queued", "waiting", "requested", "pending"} -> 1
      [] OTHER -> 0

orTime(t, fallback) == IF t = Missing THEN fallback ELSE t

EventTime(m) ==
    LET p == m.payload
    IN  CASE ~Modelled(p) -> m.received
          [] Modelled(p) /\ p.status = "completed" -> orTime(p.ended, m.received)
          [] Modelled(p) /\ p.status = "in_progress" -> orTime(p.started, m.received)
          [] OTHER -> orTime(p.created, m.received)

StepEventTime(m, s) ==
    CASE s.status = "completed" -> orTime(s.ended, EventTime(m))
      [] s.status = "in_progress" -> orTime(s.started, EventTime(m))
      [] OTHER -> EventTime(m)

-----------------------------------------------------------------------------
(* The trace class: spans of what has completed.                           *)

NoParent == <<>>

Status(conclusion) ==
    CASE conclusion = "success" -> "ok"
      [] conclusion \in {"failure", "timed_out"} -> "error"
      [] OTHER -> "unset"

Span(p, id, parent, start, end, conclusion) ==
    [trace |-> TraceID(p), id |-> id, parent |-> parent, start |-> start, end |-> end,
     status |-> Status(conclusion)]

RunSpan(p) ==
    Span(p, RunSpanID(p), NoParent, orTime(p.started, p.created), p.ended, p.conclusion)

\* The parent is computed, not looked up.
JobSpan(m) ==
    LET p == m.payload
    IN  Span(p, JobSpanID(p), RunSpanID(p), orTime(p.started, p.created),
             orTime(p.ended, EventTime(m)), p.conclusion)

\* A step that never started has no span.
StepSpans(p) ==
    {Span(p, StepSpanID(p, i), JobSpanID(p), p.steps[i].started, p.steps[i].ended,
          p.steps[i].conclusion) :
        i \in {k \in DOMAIN p.steps : Missing \notin {p.steps[k].started, p.steps[k].ended}}}

Spans(m) ==
    LET p == m.payload
    IN  IF ~Modelled(p) \/ p.status # "completed" THEN {}
        ELSE IF p.kind = "run" THEN {RunSpan(p)} ELSE {JobSpan(m)} \union StepSpans(p)

-----------------------------------------------------------------------------
(* The log class: one record of every event.                               *)

Severity(conclusion) ==
    CASE conclusion \in {"failure", "timed_out"} -> "error"
      [] conclusion = "cancelled" -> "warn"
      [] OTHER -> "info"

\* Mutant of LogSpanID: the line of a job points to the span of its run.
LogSpanIDOfRun(p) == RunSpanID(p)

LogSpanID(p) == IF p.kind = "run" THEN RunSpanID(p) ELSE JobSpanID(p)

LogRecord(m) ==
    LET p == m.payload
    IN  IF Modelled(p)
        THEN [entity |-> EntityOf(p), status |-> p.status, time |-> EventTime(m),
              severity |-> Severity(p.conclusion), trace |-> TraceID(p), span |-> LogSpanID(p)]
        ELSE [entity |-> NoParent, status |-> NullStatus, time |-> EventTime(m),
              severity |-> Severity(NoConclusion), trace |-> NoParent, span |-> NoParent]

-----------------------------------------------------------------------------
(* The analytics class: one row per entity and event.                      *)

\* queued_ms once started, duration_ms once completed; {} is NULL.
Timings(status, created, started, ended) ==
    [queued |-> IF StatusRank(status) >= 2 /\ Missing \notin {created, started}
                THEN {started - created} ELSE {},
     duration |-> IF StatusRank(status) >= 3 /\ Missing \notin {started, ended}
                  THEN {ended - started} ELSE {}]

Row(id, status, conclusion, timings, time, received) ==
    [id |-> id, status |-> status, conclusion |-> conclusion, rank |-> StatusRank(status),
     timings |-> timings, time |-> time, received |-> received]

\* A run has a completed_at only once it has completed.
RunRecord(m) ==
    LET p == m.payload
        ended == IF p.status = "completed" THEN p.ended ELSE Missing
    IN  Row(RecordID("run", <<p.run, p.attempt>>), p.status, p.conclusion,
            Timings(p.status, p.created, p.started, ended), EventTime(m), m.received)

JobRecord(m) ==
    LET p == m.payload
    IN  Row(RecordID("job", <<p.run, p.attempt, p.job>>), p.status, p.conclusion,
            Timings(p.status, p.created, p.started, p.ended), EventTime(m), m.received)

\* A step without a status has that of its job.
StepStatus(p, s) == IF s.status = NullStatus THEN p.status ELSE s.status

StepRecord(m, i) ==
    LET p == m.payload
        s == p.steps[i]
    IN  Row(RecordID("step", <<p.run, p.attempt, p.job, i>>), StepStatus(p, s), s.conclusion,
            Timings(StepStatus(p, s), Missing, s.started, s.ended), StepEventTime(m, s), m.received)

Records(m) ==
    LET p == m.payload
    IN  IF ~Modelled(p) THEN {}
        ELSE IF p.kind = "run" THEN {RunRecord(m)}
        ELSE {JobRecord(m)} \union {StepRecord(m, i) : i \in DOMAIN p.steps}

\* Mutant of ShownBefore: the latest event is shown.
ShownBeforeByTime(q, r) == q.time > r.time \/ (q.time = r.time /\ q.received > r.received)

\* CurrentViewSQL: the order of the rows of one record_id.
ShownBefore(q, r) ==
    \/ q.rank > r.rank
    \/ q.rank = r.rank /\ q.time > r.time
    \/ q.rank = r.rank /\ q.time = r.time /\ q.received > r.received

\* The rows the view may show for an id: the first one, or one of several.
CurrentView(id) ==
    LET rows == {r \in out : r.id = id}
    IN  {r \in rows : \A q \in rows : ~ShownBefore(q, r)}

-----------------------------------------------------------------------------
(* The sink's Process.                                                     *)

\* Normalize: a known event must decode.
Malformed(p) == p.kind \in {"run", "job"} /\ ~p.whole

\* What the class makes of a message; nothing means ErrSkipped.
Project(m) ==
    CASE class = "trace" -> Spans(m)
      [] class = "log" -> {LogRecord(m)}
      [] class = "analytics" -> Records(m)

\* A delivery received now, or a redelivery of it outside the dedup window,
\* with the time FromWebhook stamps it with.  How long it stays on the bus does
\* not matter to what is made of it, so it is processed in the same step.
Message(p) == [payload |-> p, received |-> now]

Room == Cardinality(acked \union refused) < MaxStored

\* The destination stores it all and the message is acked; if an answer or the
\* ack is lost, or the bus replays the message, the same happens again.
Process(p) ==
    /\ Room
    /\ ~Malformed(p)
    /\ out' = out \union Project(Message(p))
    /\ acked' = acked \union {Message(p)}
    /\ UNCHANGED <<class, now, github, refused>>

ProcessPermanent(p) ==
    /\ Room
    /\ Malformed(p)
    /\ refused' = refused \union {Message(p)}
    /\ UNCHANGED <<class, now, github, acked, out>>

-----------------------------------------------------------------------------
ProjectionsNext ==
    \/ \E r \in Runs, a \in 1..MaxAttempt :
          \/ RequestRun(r, a) \/ StartRun(r, a) \/ CompleteRun(r, a)
          \/ \E j \in Jobs : QueueJob(j, r, a)
    \/ \E j \in Jobs : StartJob(j) \/ CompleteJob(j)
    \/ TimePasses
    \/ \E p \in payloads \union {Ping, Broken} : Process(p) \/ ProcessPermanent(p)

ProjectionsSpec == ProjectionsInit /\ [][ProjectionsNext]_projectionVars

-----------------------------------------------------------------------------
(* Properties.                                                             *)

\* The payload still tells the state of its entity.
Latest(p) == Modelled(p) /\ current[EntityOf(p)] = p

\* The current view keeps the most advanced state: once the last event of a run
\* or job that has started is written, the view shows that state of it and of
\* each of its steps, whatever arrived before or after it, late or again, and
\* whichever times the payloads lack.
ViewShowsFurthest ==
    class = "analytics" =>
        \A m \in acked : Latest(m.payload) /\ StatusRank(m.payload.status) >= 2 =>
            \A row \in Records(m) : \A r \in CurrentView(row.id) :
                /\ r.status = row.status
                /\ r.conclusion = row.conclusion
                /\ r.timings = row.timings

\* Redelivery and order do not matter to a trace: what is exported twice is
\* the same span, and when all that completed in an attempt is exported, its
\* trace has one root, no span without its parent, and a span of every job.
TraceIsTree ==
    class = "trace" =>
        /\ \A s, u \in out : s.trace = u.trace /\ s.id = u.id => s = u
        /\ \A m \in acked :
              LET p == m.payload
                  T == {s \in out : s.trace = TraceID(p)}
                  roots == {s \in T : s.parent = NoParent}
                  exported == \A j \in JobsOf(p.run, p.attempt) :
                                 \E n \in acked : n.payload = current[<<"job", j>>]
              IN  p.kind = "run" /\ Latest(p) /\ p.status = "completed" /\ exported =>
                     /\ Cardinality(roots) = 1
                     /\ \A s \in T \ roots : \E u \in T : u.id = s.parent
                     /\ Cardinality({s \in T : \E u \in roots : u.id = s.parent})
                           = Cardinality(JobsOf(p.run, p.attempt))

\* A log line leads to the span of its entity, also one that was written long
\* before there is a span, and to that of no other entity; a line and a span
\* of what has completed agree on whether it failed.
LogsPointIntoTrace ==
    class = "log" =>
        \A l \in out : l.entity # NoParent =>
            /\ \A k \in out : k.trace = l.trace /\ k.span = l.span => k.entity = l.entity
            /\ \A p \in {q \in payloads : Modelled(q) /\ EntityOf(q) = l.entity /\ q.status = "completed"} :
                  LET s == IF p.kind = "run" THEN RunSpan(p)
                           ELSE JobSpan([payload |-> p, received |-> now])
                  IN  /\ l.trace = s.trace /\ l.span = s.id
                      /\ l.status = "completed" => (l.severity = "error" <=> s.status = "error")
=============================================================================
