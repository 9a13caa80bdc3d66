-------------------------- MODULE TelemetryProofs --------------------------
(***************************************************************************)
(* Proofs about the two halves of a telemetry sink's Process.  Projections *)
(* for any runs, jobs, conclusions, times and order of arrival; OtlpExport *)
(* for any timeout, number of retries, back-off, deadline and behaviour of *)
(* the collector.                                                          *)
(***************************************************************************)
EXTENDS Projections, OtlpExport, FiniteSetTheorems, TLAPS

(***************************************************************************)
(* Projections.                                                            *)
(***************************************************************************)

Fields == {"kind", "whole", "run", "attempt", "job", "status", "conclusion", "created", "started",
           "ended", "steps"}

\* A payload as GitHub sends it: a whole run, or a whole job with its steps,
\* each of which has got as far as the job.
IsPayload(p) ==
    /\ DOMAIN p = Fields
    /\ p.whole
    /\ \/ p.kind = "run" /\ DOMAIN p.steps = {}
       \/ /\ p.kind = "job" /\ p.job \in Jobs
          /\ p.status = "completed" => p.ended # Missing
          /\ \A i \in DOMAIN p.steps : StepStatus(p, p.steps[i]) = p.status

PayloadsOK == \A p \in payloads : IsPayload(p)

CurrentIsSent == \A e \in DOMAIN current : current[e] \in payloads /\ EntityOf(current[e]) = e

\* An entity only ever advances: a payload tells its state now, or an earlier
\* one of a lower rank, and stays in its run and attempt.
EntitiesAdvance ==
    \A p \in payloads :
        LET e == EntityOf(p)
        IN  /\ e \in DOMAIN current
            /\ p = current[e] \/ StatusRank(p.status) < StatusRank(current[e].status)
            /\ p.run = current[e].run /\ p.attempt = current[e].attempt

\* A run completes after its jobs.
RunsClosed ==
    \A p, q \in payloads :
        p.kind = "run" /\ p.status = "completed" /\ q.kind = "job" /\ q.run = p.run /\ q.attempt = p.attempt =>
            current[EntityOf(q)].status = "completed"

KnownJobs == {j \in Jobs : <<"job", j>> \in DOMAIN current}

\* The destination has what was made of the messages that were acked.
OutIsProjected ==
    /\ \A m \in acked : m.payload \in payloads \union {Ping}
    /\ \A x \in out : \E m \in acked : x \in Project(m)
    /\ \A m \in acked : Project(m) \subseteq out

ProjectionsInv ==
    /\ now \in Nat \ {0}
    /\ class \in {"trace", "log", "analytics"}
    /\ PayloadsOK
    /\ CurrentIsSent
    /\ EntitiesAdvance
    /\ RunsClosed
    /\ IsFiniteSet(KnownJobs)
    /\ OutIsProjected

-----------------------------------------------------------------------------
(* Ranks and entities.                                                     *)

LEMMA Ranks ==
  /\ StatusRank("completed") = 3 /\ StatusRank("in_progress") = 2
  /\ StatusRank("requested") = 1 /\ StatusRank("queued") = 1 /\ StatusRank("waiting") = 1
  /\ \A s : StatusRank(s) \in 0..3
  /\ \A s : StatusRank(s) = 3 => s = "completed"
BY DEF StatusRank

LEMMA Entities ==
  ASSUME NEW p, IsPayload(p), NEW q, IsPayload(q)
  PROVE  /\ p.kind = "run" => EntityOf(p) = <<"run", p.run, p.attempt>>
         /\ p.kind = "job" => EntityOf(p) = <<"job", p.job>>
         /\ EntityOf(p) = EntityOf(q) =>
               /\ p.kind = q.kind
               /\ p.kind = "run" => p.run = q.run /\ p.attempt = q.attempt
               /\ p.kind = "job" => p.job = q.job
<1>1. p.kind \in {"run", "job"} /\ q.kind \in {"run", "job"}
  BY DEF IsPayload
<1>2. /\ p.kind = "run" => EntityOf(p) = <<"run", p.run, p.attempt>>
      /\ p.kind = "job" => EntityOf(p) = <<"job", p.job>>
      /\ q.kind = "run" => EntityOf(q) = <<"run", q.run, q.attempt>>
      /\ q.kind = "job" => EntityOf(q) = <<"job", q.job>>
  BY <1>1 DEF EntityOf
<1>3. \A a, b, c, d, e, f : /\ <<"run", a, b>> # <<"job", c>>
                            /\ <<"run", a, b>> = <<"run", d, e>> => a = d /\ b = e
                            /\ <<"job", c>> = <<"job", f>> => c = f
  OBVIOUS
<1> QED BY <1>1, <1>2, <1>3

\* What an entity completed with is said once.
LEMMA CompletedOnce ==
  ASSUME ProjectionsInv, NEW p \in payloads, NEW q \in payloads, EntityOf(p) = EntityOf(q),
         p.status = "completed"
  PROVE  /\ p = current[EntityOf(p)]
         /\ q.status = "completed" => q = p
         /\ q.run = p.run /\ q.attempt = p.attempt
<1>1. /\ p = current[EntityOf(p)] \/ StatusRank(p.status) < StatusRank(current[EntityOf(p)].status)
      /\ q = current[EntityOf(p)] \/ StatusRank(q.status) < StatusRank(current[EntityOf(p)].status)
      /\ p.run = current[EntityOf(p)].run /\ p.attempt = current[EntityOf(p)].attempt
      /\ q.run = current[EntityOf(p)].run /\ q.attempt = current[EntityOf(p)].attempt
  BY DEF ProjectionsInv, EntitiesAdvance
<1>2. StatusRank(p.status) = 3 /\ StatusRank(current[EntityOf(p)].status) \in 0..3
  BY Ranks
<1>3. q.status = "completed" => StatusRank(q.status) = 3
  BY Ranks
<1> QED BY <1>1, <1>2, <1>3

-----------------------------------------------------------------------------
(* GitHub's steps.                                                         *)

LEMMA SendKeeps ==
  ASSUME ProjectionsInv, NEW p, IsPayload(p), Send(p),
         EntityOf(p) \in DOMAIN current =>
             LET c == current[EntityOf(p)]
             IN  StatusRank(c.status) < StatusRank(p.status) /\ c.run = p.run /\ c.attempt = p.attempt,
         p.kind = "run" /\ p.status = "completed" =>
             \A q \in payloads : q.kind = "job" /\ q.run = p.run /\ q.attempt = p.attempt =>
                 current[EntityOf(q)].status = "completed",
         p.kind = "job" /\ p.status # "completed" =>
             ~\E q \in payloads : /\ q.kind = "run" /\ q.status = "completed"
                                  /\ q.run = p.run /\ q.attempt = p.attempt
  PROVE  ProjectionsInv'
<1> DEFINE E == EntityOf(p)
<1>1. /\ current' = [e \in DOMAIN current \union {E} |-> IF e = E THEN p ELSE current[e]]
      /\ payloads' = payloads \union {p}
      /\ UNCHANGED <<class, now, acked, refused, out>>
  BY DEF Send, sink
<1>2. /\ DOMAIN current' = DOMAIN current \union {E} /\ current'[E] = p
      /\ \A e \in DOMAIN current : e # E => current'[e] = current[e]
  BY <1>1
<1>3. PayloadsOK'
  BY <1>1 DEF ProjectionsInv, PayloadsOK
<1>4. CurrentIsSent'
  BY <1>1, <1>2 DEF ProjectionsInv, CurrentIsSent
<1>5. EntitiesAdvance'
  <2> SUFFICES ASSUME NEW q \in payloads'
               PROVE  /\ EntityOf(q) \in DOMAIN current'
                      /\ \/ q = current'[EntityOf(q)]
                         \/ StatusRank(q.status) < StatusRank(current'[EntityOf(q)].status)
                      /\ q.run = current'[EntityOf(q)].run /\ q.attempt = current'[EntityOf(q)].attempt
    BY DEF EntitiesAdvance
  <2>1. CASE q = p
    BY <1>2, <2>1
  <2>2. CASE q # p /\ EntityOf(q) # E
    BY <1>1, <1>2, <2>2 DEF ProjectionsInv, EntitiesAdvance
  <2>3. CASE q # p /\ EntityOf(q) = E
    <3>1. /\ E \in DOMAIN current /\ q.run = current[E].run /\ q.attempt = current[E].attempt
          /\ q = current[E] \/ StatusRank(q.status) < StatusRank(current[E].status)
      BY <1>1, <2>3 DEF ProjectionsInv, EntitiesAdvance
    <3>2. /\ StatusRank(current[E].status) < StatusRank(p.status)
          /\ current[E].run = p.run /\ current[E].attempt = p.attempt
      BY <3>1
    <3>3. StatusRank(q.status) < StatusRank(p.status)
      BY <3>1, <3>2, Ranks
    <3> QED BY <1>2, <2>3, <3>1, <3>2, <3>3
  <2> QED BY <2>1, <2>2, <2>3
<1>6. RunsClosed'
  <2> SUFFICES ASSUME NEW u \in payloads', NEW q \in payloads', u.kind = "run", u.status = "completed",
                      q.kind = "job", q.run = u.run, q.attempt = u.attempt
               PROVE  current'[EntityOf(q)].status = "completed"
    BY DEF RunsClosed
  <2>1. CASE u = p
    <3>1. q \in payloads /\ IsPayload(q)
      BY <1>1, <2>1 DEF ProjectionsInv, PayloadsOK
    <3>2. EntityOf(q) # E
      BY <2>1, <3>1, Entities
    <3>3. EntityOf(q) \in DOMAIN current
      BY <3>1 DEF ProjectionsInv, EntitiesAdvance
    <3> QED BY <1>2, <2>1, <3>1, <3>2, <3>3
  <2>2. CASE u # p /\ EntityOf(q) = E
    <3>1. u \in payloads /\ current'[EntityOf(q)] = p /\ IsPayload(q)
      BY <1>1, <1>2, <2>2 DEF ProjectionsInv, PayloadsOK
    <3>2. p.kind = "job"
      BY <2>2, <3>1, Entities
    <3>3. q.run = p.run /\ q.attempt = p.attempt
      BY <1>1, <1>2, <1>5, <2>2 DEF EntitiesAdvance
    <3> QED BY <3>1, <3>2, <3>3
  <2>3. CASE u # p /\ EntityOf(q) # E
    <3>1. u \in payloads /\ q \in payloads
      BY <1>1, <2>3
    <3>2. EntityOf(q) \in DOMAIN current /\ current[EntityOf(q)].status = "completed"
      BY <3>1 DEF ProjectionsInv, EntitiesAdvance, RunsClosed
    <3> QED BY <1>2, <2>3, <3>2
  <2> QED BY <2>1, <2>2, <2>3
<1>7. IsFiniteSet(KnownJobs')
  <2>1. KnownJobs' \subseteq KnownJobs \union {p.job}
    <3> SUFFICES ASSUME NEW j \in Jobs, <<"job", j>> \in DOMAIN current', <<"job", j>> \notin DOMAIN current
                 PROVE  j = p.job
      BY DEF KnownJobs
    <3>1. <<"job", j>> = E
      BY <1>2
    <3>2. \A a, b, c : <<"job", a>> # <<"run", b, c>> /\ (<<"job", a>> = <<"job", b>> => a = b)
      OBVIOUS
    <3>3. E = <<"run", p.run, p.attempt>> \/ E = <<"job", p.job>>
      BY Entities DEF IsPayload
    <3> QED BY <3>1, <3>2, <3>3
  <2>2. IsFiniteSet(KnownJobs \union {p.job})
    BY FS_AddElement DEF ProjectionsInv
  <2> QED BY <2>1, <2>2, FS_Subset
<1>8. OutIsProjected'
  BY <1>1 DEF ProjectionsInv, OutIsProjected, Project
<1> QED BY <1>1, <1>3, <1>4, <1>5, <1>6, <1>7, <1>8 DEF ProjectionsInv

\* The state of a known entity is a payload of it.
LEMMA KnownState ==
  ASSUME ProjectionsInv, NEW e \in DOMAIN current
  PROVE  current[e] \in payloads /\ IsPayload(current[e]) /\ EntityOf(current[e]) = e
BY DEF ProjectionsInv, CurrentIsSent, PayloadsOK

LEMMA RunStates ==
  ASSUME ProjectionsInv, NEW r, NEW a, <<"run", r, a>> \in DOMAIN current
  PROVE  LET p == current[<<"run", r, a>>] IN p.kind = "run" /\ p.run = r /\ p.attempt = a
<1> DEFINE p == current[<<"run", r, a>>]
<1> HIDE DEF p
<1>1. IsPayload(p) /\ EntityOf(p) = <<"run", r, a>>
  BY KnownState DEF p
<1>2. \A x, y, z : <<"run", r, a>> # <<"job", x>> /\ (<<"run", r, a>> = <<"run", y, z>> => y = r /\ z = a)
  OBVIOUS
<1>3. p.kind = "run" \/ p.kind = "job"
  BY <1>1 DEF IsPayload
<1> QED BY <1>1, <1>2, <1>3, Entities DEF p

LEMMA JobStates ==
  ASSUME ProjectionsInv, NEW j, <<"job", j>> \in DOMAIN current
  PROVE  LET p == current[<<"job", j>>] IN p.kind = "job" /\ p.job = j /\ j \in Jobs
<1> DEFINE p == current[<<"job", j>>]
<1> HIDE DEF p
<1>1. IsPayload(p) /\ EntityOf(p) = <<"job", j>>
  BY KnownState DEF p
<1>2. \A x, y, z : <<"job", j>> # <<"run", y, z>> /\ (<<"job", j>> = <<"job", x>> => x = j)
  OBVIOUS
<1>3. p.kind = "run" \/ (p.kind = "job" /\ p.job \in Jobs)
  BY <1>1 DEF IsPayload
<1> QED BY <1>1, <1>2, <1>3, Entities DEF p

\* A run moves on within its record.
LEMMA RunMoves ==
  ASSUME NEW p, IsPayload(p), p.kind = "run", NEW q, DOMAIN q = DOMAIN p,
         \A f \in Fields \ {"status", "conclusion", "ended"} : q[f] = p[f]
  PROVE  /\ IsPayload(q) /\ EntityOf(q) = EntityOf(p) /\ q.kind = "run"
         /\ q.run = p.run /\ q.attempt = p.attempt
<1>1. DOMAIN p.steps = {} /\ p.whole
  BY DEF IsPayload
<1>2. EntityOf(q) = EntityOf(p)
  BY DEF EntityOf, Fields
<1>3. IsPayload(q)
  BY <1>1 DEF IsPayload, Fields
<1> QED BY <1>2, <1>3 DEF Fields

\* A job moves on within its record.
LEMMA JobMoves ==
  ASSUME NEW p, IsPayload(p), p.kind = "job", NEW q, DOMAIN q = DOMAIN p,
         \A f \in {"kind", "whole", "run", "attempt", "job"} : q[f] = p[f],
         q.status = "completed" => q.ended # Missing,
         \A i \in DOMAIN q.steps : q.steps[i].status \in {q.status, NullStatus}
  PROVE  /\ IsPayload(q) /\ EntityOf(q) = EntityOf(p) /\ q.kind = "job"
         /\ q.run = p.run /\ q.attempt = p.attempt
<1>1. p.job \in Jobs /\ p.whole
  BY DEF IsPayload
<1>2. \A i \in DOMAIN q.steps : StepStatus(q, q.steps[i]) = q.status
  BY DEF StepStatus
<1>3. EntityOf(q) = EntityOf(p)
  BY DEF EntityOf
<1>4. IsPayload(q)
  BY <1>1, <1>2 DEF IsPayload
<1> QED BY <1>3, <1>4

LEMMA NewRun ==
  ASSUME NEW r, NEW a, NEW created, NEW started, NEW ended
  PROVE  LET p == Run(r, a, "requested", NoConclusion, created, started, ended)
         IN  /\ IsPayload(p) /\ EntityOf(p) = <<"run", r, a>> /\ p.kind = "run" /\ p.status = "requested"
             /\ p.run = r /\ p.attempt = a
BY DEF Run, IsPayload, EntityOf, Fields

LEMMA NewJob ==
  ASSUME NEW r, NEW a, NEW j \in Jobs, NEW state, state # "completed", NEW created
  PROVE  LET p == Job(r, a, j, state, NoConclusion, created, created, Missing, <<>>)
         IN  /\ IsPayload(p) /\ EntityOf(p) = <<"job", j>> /\ p.kind = "job" /\ p.status = state
             /\ p.run = r /\ p.attempt = a
BY DEF Job, IsPayload, EntityOf, Fields

LEMMA RequestRunStep ==
  ASSUME ProjectionsInv, NEW r, NEW a, RequestRun(r, a)
  PROVE  ProjectionsInv'
<1>1. PICK created, started : Send(Run(r, a, "requested", NoConclusion, created, started, now))
  BY DEF RequestRun
<1> DEFINE p == Run(r, a, "requested", NoConclusion, created, started, now)
<1>2. /\ IsPayload(p) /\ EntityOf(p) = <<"run", r, a>> /\ p.kind = "run" /\ p.status = "requested"
  BY NewRun
<1>3. EntityOf(p) \notin DOMAIN current
  BY <1>2 DEF RequestRun
<1> HIDE DEF p
<1> QED BY <1>1, <1>2, <1>3, SendKeeps DEF p

\* No job of a run that has not completed is late.
LEMMA OpenRun ==
  ASSUME ProjectionsInv, NEW r, NEW a, <<"run", r, a>> \in DOMAIN current,
         current[<<"run", r, a>>].status # "completed"
  PROVE  ~\E q \in payloads : /\ q.kind = "run" /\ q.status = "completed" /\ q.run = r /\ q.attempt = a
<1> SUFFICES ASSUME NEW q \in payloads, q.kind = "run", q.status = "completed", q.run = r, q.attempt = a
             PROVE  FALSE
  OBVIOUS
<1>1. EntityOf(q) = <<"run", r, a>>
  BY DEF EntityOf
<1>2. q = current[EntityOf(q)]
  BY CompletedOnce
<1> QED BY <1>1, <1>2

LEMMA StartRunStep ==
  ASSUME ProjectionsInv, NEW r, NEW a, StartRun(r, a)
  PROVE  ProjectionsInv'
<1> DEFINE e == <<"run", r, a>>
           p == current[e]
           q == [p EXCEPT !.status = "in_progress", !.ended = now]
<1>1. e \in DOMAIN current /\ p.status = "requested" /\ Send(q)
  BY DEF StartRun, Is
<1>2. IsPayload(p) /\ p.kind = "run" /\ EntityOf(p) = e
  BY <1>1, KnownState, RunStates
<1> HIDE DEF p, e
<1>3. /\ IsPayload(q) /\ EntityOf(q) = e /\ q.kind = "run" /\ q.status = "in_progress"
      /\ q.run = p.run /\ q.attempt = p.attempt
  <2>1. /\ DOMAIN q = DOMAIN p /\ q.status = "in_progress"
        /\ \A f \in Fields \ {"status", "conclusion", "ended"} : q[f] = p[f]
    BY <1>2 DEF IsPayload, Fields
  <2> HIDE DEF q
  <2> QED BY <1>2, <2>1, RunMoves
<1> HIDE DEF q
<1>4. StatusRank(p.status) < StatusRank(q.status)
  BY <1>1, <1>3, Ranks
<1> QED BY <1>1, <1>3, <1>4, SendKeeps DEF p

LEMMA CompleteRunStep ==
  ASSUME ProjectionsInv, NEW r, NEW a, CompleteRun(r, a)
  PROVE  ProjectionsInv'
<1> DEFINE e == <<"run", r, a>>
           p == current[e]
<1>1. PICK c : Send([p EXCEPT !.status = "completed", !.conclusion = c, !.ended = now])
  BY DEF CompleteRun
<1> DEFINE q == [p EXCEPT !.status = "completed", !.conclusion = c, !.ended = now]
<1>2. e \in DOMAIN current /\ p.status \in {"requested", "in_progress"}
  BY DEF CompleteRun, Is
<1>3. IsPayload(p) /\ p.kind = "run" /\ EntityOf(p) = e /\ p.run = r /\ p.attempt = a
  BY <1>2, KnownState, RunStates
<1> HIDE DEF p, e
<1>4. /\ IsPayload(q) /\ EntityOf(q) = e /\ q.kind = "run" /\ q.status = "completed"
      /\ q.run = r /\ q.attempt = a
  <2>1. /\ DOMAIN q = DOMAIN p /\ q.status = "completed"
        /\ \A f \in Fields \ {"status", "conclusion", "ended"} : q[f] = p[f]
    BY <1>3 DEF IsPayload, Fields
  <2> HIDE DEF q
  <2> QED BY <1>3, <2>1, RunMoves
<1> HIDE DEF q
<1>5. StatusRank(p.status) < StatusRank(q.status)
  BY <1>2, <1>4, Ranks
<1>6. ASSUME NEW u \in payloads, u.kind = "job", u.run = r, u.attempt = a
      PROVE  current[EntityOf(u)].status = "completed"
  <2>1. EntityOf(u) = <<"job", u.job>> /\ u.job \in Jobs
    BY <1>6 DEF ProjectionsInv, PayloadsOK, IsPayload, EntityOf
  <2>2. /\ EntityOf(u) \in DOMAIN current
        /\ current[EntityOf(u)].run = r /\ current[EntityOf(u)].attempt = a
    BY <1>6 DEF ProjectionsInv, EntitiesAdvance
  <2>3. u.job \in JobsOf(r, a)
    BY <2>1, <2>2 DEF JobsOf
  <2> QED BY <2>1, <2>3 DEF CompleteRun, Is
<1> QED BY <1>1, <1>3, <1>4, <1>5, <1>6, SendKeeps DEF p, q

LEMMA QueueJobStep ==
  ASSUME ProjectionsInv, NEW j \in Jobs, NEW r, NEW a, QueueJob(j, r, a)
  PROVE  ProjectionsInv'
<1>1. PICK state \in {"waiting", "queued"} : Send(Job(r, a, j, state, NoConclusion, now, now, Missing, <<>>))
  BY DEF QueueJob
<1> DEFINE p == Job(r, a, j, state, NoConclusion, now, now, Missing, <<>>)
<1>2. /\ IsPayload(p) /\ EntityOf(p) = <<"job", j>> /\ p.kind = "job" /\ p.run = r /\ p.attempt = a
  BY NewJob
<1>3. EntityOf(p) \notin DOMAIN current
  BY <1>2 DEF QueueJob
<1>4. <<"run", r, a>> \in DOMAIN current /\ current[<<"run", r, a>>].status # "completed"
  BY DEF QueueJob, Is
<1> HIDE DEF p
<1> QED BY <1>1, <1>2, <1>3, <1>4, OpenRun, SendKeeps DEF p

LEMMA StartJobStep ==
  ASSUME ProjectionsInv, NEW j, StartJob(j)
  PROVE  ProjectionsInv'
<1> DEFINE e == <<"job", j>>
           p == current[e]
           Steps(size) == [i \in 1..size |-> Step("in_progress", NoConclusion, now, Missing)]
<1>1. PICK started, size :
         Send([p EXCEPT !.status = "in_progress", !.started = started, !.steps = Steps(size)])
  BY DEF StartJob
<1> DEFINE q == [p EXCEPT !.status = "in_progress", !.started = started, !.steps = Steps(size)]
<1>2. e \in DOMAIN current /\ p.status \in {"waiting", "queued"}
  BY DEF StartJob, Is
<1>3. p \in payloads /\ IsPayload(p) /\ p.kind = "job" /\ EntityOf(p) = e
  BY <1>2, KnownState, JobStates
<1>4. \A i \in DOMAIN Steps(size) : Steps(size)[i].status = "in_progress"
  BY DEF Step
<1> HIDE DEF p, e, Steps
<1>5. /\ IsPayload(q) /\ EntityOf(q) = e /\ q.kind = "job" /\ q.status = "in_progress"
      /\ q.run = p.run /\ q.attempt = p.attempt
  <2>1. /\ DOMAIN q = DOMAIN p /\ q.status = "in_progress" /\ q.steps = Steps(size)
        /\ \A f \in {"kind", "whole", "run", "attempt", "job"} : q[f] = p[f]
    BY <1>3 DEF IsPayload, Fields
  <2> HIDE DEF q
  <2> QED BY <1>3, <1>4, <2>1, JobMoves
<1> HIDE DEF q
<1>6. StatusRank(p.status) < StatusRank(q.status)
  BY <1>2, <1>5, Ranks
<1>7. ~\E u \in payloads : u.kind = "run" /\ u.status = "completed" /\ u.run = q.run /\ u.attempt = q.attempt
  BY <1>2, <1>3, <1>5 DEF ProjectionsInv, RunsClosed, p
<1> QED BY <1>1, <1>3, <1>5, <1>6, <1>7, SendKeeps DEF p, q

LEMMA CompleteJobStep ==
  ASSUME ProjectionsInv, NEW j, CompleteJob(j)
  PROVE  ProjectionsInv'
<1> DEFINE e == <<"job", j>>
           p == current[e]
           Ways == {Step("completed", "success", p.created, now), Step("completed", "skipped", Missing, Missing),
                    Step(NullStatus, NoConclusion, p.created, now)}
<1>1. PICK c, size, steps :
         /\ steps \in [1..size -> Ways]
         /\ Send([p EXCEPT !.status = "completed", !.conclusion = c, !.ended = now, !.steps = steps])
  BY DEF CompleteJob
<1> DEFINE q == [p EXCEPT !.status = "completed", !.conclusion = c, !.ended = now, !.steps = steps]
<1>2. e \in DOMAIN current /\ p.status \in {"waiting", "queued", "in_progress"}
  BY DEF CompleteJob, Is
<1>3. IsPayload(p) /\ p.kind = "job" /\ EntityOf(p) = e
  BY <1>2, KnownState, JobStates
<1>4. \A i \in DOMAIN steps : steps[i].status \in {"completed", NullStatus}
  <2>1. \A w \in Ways : w.status \in {"completed", NullStatus}
    BY DEF Step
  <2> HIDE DEF Ways
  <2>2. \A i \in DOMAIN steps : steps[i] \in Ways
    BY <1>1
  <2> QED BY <2>1, <2>2
<1>5. now # Missing
  BY DEF ProjectionsInv, Missing
<1> HIDE DEF p, e
<1>6. /\ IsPayload(q) /\ EntityOf(q) = e /\ q.kind = "job" /\ q.status = "completed"
      /\ q.run = p.run /\ q.attempt = p.attempt
  <2>1. /\ DOMAIN q = DOMAIN p /\ q.status = "completed" /\ q.steps = steps /\ q.ended = now
        /\ \A f \in {"kind", "whole", "run", "attempt", "job"} : q[f] = p[f]
    BY <1>3 DEF IsPayload, Fields
  <2> HIDE DEF q
  <2> QED BY <1>3, <1>4, <1>5, <2>1, JobMoves
<1> HIDE DEF q
<1>7. StatusRank(p.status) < StatusRank(q.status)
  BY <1>2, <1>6, Ranks
<1> QED BY <1>1, <1>3, <1>6, <1>7, SendKeeps DEF p, q

-----------------------------------------------------------------------------
(* The sink's steps, and the invariant.                                    *)

LEMMA ProcessStep ==
  ASSUME ProjectionsInv, NEW p \in payloads \union {Ping, Broken}, Process(p)
  PROVE  ProjectionsInv'
<1>1. /\ UNCHANGED <<class, now, current, payloads>>
      /\ acked' = acked \union {Message(p)}
      /\ out' = out \union Project(Message(p))
  BY DEF Process, github
<1>2. p \in payloads \union {Ping}
  BY DEF Process, Malformed, Broken
<1>3. Message(p).payload = p
  BY DEF Message
<1>4. \A m : Project(m)' = Project(m)
  BY <1>1 DEF Project
<1>5. OutIsProjected'
  BY <1>1, <1>2, <1>3, <1>4 DEF ProjectionsInv, OutIsProjected
<1>6. (PayloadsOK /\ CurrentIsSent /\ EntitiesAdvance /\ RunsClosed)' /\ KnownJobs' = KnownJobs
  BY <1>1 DEF ProjectionsInv, PayloadsOK, CurrentIsSent, EntitiesAdvance, RunsClosed, KnownJobs
<1> QED BY <1>1, <1>5, <1>6 DEF ProjectionsInv

\* The steps that touch neither GitHub nor what is acked.
LEMMA IdleStep ==
  ASSUME ProjectionsInv, UNCHANGED <<class, github, acked, out>>, now' \in Nat \ {0}
  PROVE  ProjectionsInv'
<1>1. UNCHANGED <<class, current, payloads, acked, out>>
  BY DEF github
<1>2. \A m : Project(m)' = Project(m)
  BY <1>1 DEF Project
<1>3. OutIsProjected'
  BY <1>1, <1>2 DEF ProjectionsInv, OutIsProjected
<1>4. (PayloadsOK /\ CurrentIsSent /\ EntitiesAdvance /\ RunsClosed)' /\ KnownJobs' = KnownJobs
  BY <1>1 DEF ProjectionsInv, PayloadsOK, CurrentIsSent, EntitiesAdvance, RunsClosed, KnownJobs
<1> QED BY <1>1, <1>3, <1>4 DEF ProjectionsInv

\* Whatever order events arrive in, an entity only advances, a run completes
\* after its jobs, and the destination has what was made of the acked messages.
THEOREM ProjectionsAreConsistent == ProjectionsSpec => []ProjectionsInv
<1>1. ProjectionsInit => ProjectionsInv
  <2> SUFFICES ASSUME ProjectionsInit PROVE ProjectionsInv
    OBVIOUS
  <2>1. DOMAIN current = {}
    BY DEF ProjectionsInit
  <2>2. KnownJobs = {}
    BY <2>1 DEF KnownJobs
  <2> QED BY <2>1, <2>2, FS_EmptySet, ProjectionsAssumption
          DEF ProjectionsInit, ProjectionsInv, PayloadsOK, CurrentIsSent, EntitiesAdvance, RunsClosed,
              OutIsProjected
<1>2. ProjectionsInv /\ [ProjectionsNext]_projectionVars => ProjectionsInv'
  <2> SUFFICES ASSUME ProjectionsInv, [ProjectionsNext]_projectionVars PROVE ProjectionsInv'
    OBVIOUS
  <2>1. ASSUME NEW r \in Runs, NEW a \in 1..MaxAttempt,
               RequestRun(r, a) \/ StartRun(r, a) \/ CompleteRun(r, a) \/ (\E j \in Jobs : QueueJob(j, r, a))
        PROVE  ProjectionsInv'
    BY <2>1, RequestRunStep, StartRunStep, CompleteRunStep, QueueJobStep
  <2>2. ASSUME NEW j \in Jobs, StartJob(j) \/ CompleteJob(j)
        PROVE  ProjectionsInv'
    BY <2>2, StartJobStep, CompleteJobStep
  <2>3. CASE TimePasses
    BY <2>3, IdleStep DEF TimePasses, sink, ProjectionsInv
  <2>4. ASSUME NEW p \in payloads \union {Ping, Broken}, Process(p) \/ ProcessPermanent(p)
        PROVE  ProjectionsInv'
    <3>1. CASE Process(p)
      BY <3>1, ProcessStep
    <3>2. CASE ProcessPermanent(p)
      BY <3>2, IdleStep DEF ProcessPermanent, ProjectionsInv
    <3> QED BY <2>4, <3>1, <3>2
  <2>5. CASE UNCHANGED projectionVars
    BY <2>5, IdleStep DEF projectionVars, sink, ProjectionsInv
  <2> QED BY <2>1, <2>2, <2>3, <2>4, <2>5 DEF ProjectionsNext
<1> QED BY <1>1, <1>2, PTL DEF ProjectionsSpec

-----------------------------------------------------------------------------
(* The log class.                                                          *)

LEMMA PayloadsAreModelled ==
  ASSUME ProjectionsInv
  PROVE  /\ ~Modelled(Ping)
         /\ \A p \in payloads : Modelled(p) /\ IsPayload(p)
BY DEF ProjectionsInv, PayloadsOK, IsPayload, Modelled, Ping

\* A line of a modelled event is that of a payload GitHub sent.
LEMMA LogLines ==
  ASSUME ProjectionsInv, class = "log", NEW l \in out
  PROVE  \/ l.entity = NoParent /\ l.trace = NoParent
         \/ \E p \in payloads : /\ l.entity = EntityOf(p) /\ l.span = EntityOf(p) /\ l.trace = TraceID(p)
                                /\ l.status = p.status /\ l.severity = Severity(p.conclusion)
<1>1. PICK m \in acked : l = LogRecord(m)
  BY DEF ProjectionsInv, OutIsProjected, Project
<1> DEFINE p == m.payload
<1>2. p \in payloads \/ ~Modelled(p)
  BY PayloadsAreModelled DEF ProjectionsInv, OutIsProjected
<1>3. CASE ~Modelled(p)
  BY <1>1, <1>3 DEF LogRecord
<1>4. CASE p \in payloads
  <2>1. Modelled(p) /\ LogSpanID(p) = EntityOf(p)
    BY <1>4, PayloadsAreModelled DEF LogSpanID, EntityOf, RunSpanID, JobSpanID
  <2> HIDE DEF p
  <2>2. l = [entity |-> EntityOf(p), status |-> p.status, time |-> EventTime(m),
             severity |-> Severity(p.conclusion), trace |-> TraceID(p), span |-> LogSpanID(p)]
    BY <1>1, <2>1 DEF LogRecord, p
  <2> QED BY <1>4, <2>1, <2>2
<1> QED BY <1>2, <1>3, <1>4

LEMMA LogsLead ==
  ASSUME ProjectionsInv PROVE LogsPointIntoTrace
<1> SUFFICES ASSUME class = "log", NEW l \in out, l.entity # NoParent
             PROVE  /\ \A k \in out : k.trace = l.trace /\ k.span = l.span => k.entity = l.entity
                    /\ \A p \in {q \in payloads : Modelled(q) /\ EntityOf(q) = l.entity /\ q.status = "completed"} :
                          LET s == IF p.kind = "run" THEN RunSpan(p)
                                   ELSE JobSpan([payload |-> p, received |-> now])
                          IN  /\ l.trace = s.trace /\ l.span = s.id
                              /\ l.status = "completed" => (l.severity = "error" <=> s.status = "error")
  BY DEF LogsPointIntoTrace
<1>1. PICK p \in payloads : /\ l.entity = EntityOf(p) /\ l.span = EntityOf(p) /\ l.trace = TraceID(p)
                            /\ l.status = p.status /\ l.severity = Severity(p.conclusion)
  BY LogLines
<1>2. ASSUME NEW k \in out, k.trace = l.trace, k.span = l.span
      PROVE  k.entity = l.entity
  <2>1. k.trace # NoParent
    BY <1>1, <1>2 DEF TraceID, NoParent
  <2>2. PICK q \in payloads : k.entity = EntityOf(q) /\ k.span = EntityOf(q)
    BY <2>1, LogLines
  <2> QED BY <1>1, <1>2, <2>2
<1>3. ASSUME NEW q \in payloads, EntityOf(q) = l.entity, q.status = "completed"
      PROVE  LET s == IF q.kind = "run" THEN RunSpan(q) ELSE JobSpan([payload |-> q, received |-> now])
             IN  /\ l.trace = s.trace /\ l.span = s.id
                 /\ l.status = "completed" => (l.severity = "error" <=> s.status = "error")
  <2> DEFINE s == IF q.kind = "run" THEN RunSpan(q) ELSE JobSpan([payload |-> q, received |-> now])
  <2>1. /\ s.trace = TraceID(q) /\ s.status = Status(q.conclusion)
        /\ s.id = IF q.kind = "run" THEN RunSpanID(q) ELSE JobSpanID(q)
    BY DEF RunSpan, JobSpan, Span
  <2>2. s.id = EntityOf(q)
    BY <2>1 DEF EntityOf, RunSpanID, JobSpanID
  <2> HIDE DEF s
  <2>3. TraceID(p) = TraceID(q)
    BY <1>1, <1>3, CompletedOnce DEF TraceID
  <2>4. l.status = "completed" => p = q
    BY <1>1, <1>3, CompletedOnce
  <2>5. \A c : Severity(c) = "error" <=> Status(c) = "error"
    BY DEF Severity, Status
  <2>6. l.status = "completed" => (l.severity = "error" <=> s.status = "error")
    BY <1>1, <2>1, <2>4, <2>5
  <2> QED BY <1>1, <1>3, <2>1, <2>2, <2>3, <2>6 DEF s
<1> QED BY <1>2, <1>3

\* A log line points to the span of its own entity, written before or after
\* the span, and the two agree on failure: LogSpanID and TraceID are computed
\* from ids an entity keeps for all its events (internal/model/ids.go, sink/log/project.go).
THEOREM LogsLeadToSpans == ProjectionsSpec => []LogsPointIntoTrace
BY ProjectionsAreConsistent, LogsLead, PTL

-----------------------------------------------------------------------------
(* The analytics class.                                                    *)

\* The id of a row, and what else it shows of the payload: of a run, of a job,
\* or of the i-th step of a job.
RunRow(p, row) ==
    /\ p.kind = "run"
    /\ row.id = RecordID("run", <<p.run, p.attempt>>)
    /\ row.conclusion = p.conclusion
    /\ row.timings = Timings(p.status, p.created, p.started,
                             IF p.status = "completed" THEN p.ended ELSE Missing)

JobRow(p, row) ==
    /\ p.kind = "job"
    /\ row.id = RecordID("job", <<p.run, p.attempt, p.job>>)
    /\ row.conclusion = p.conclusion
    /\ row.timings = Timings(p.status, p.created, p.started, p.ended)

StepRow(p, row, i) ==
    /\ p.kind = "job" /\ i \in DOMAIN p.steps
    /\ row.id = RecordID("step", <<p.run, p.attempt, p.job, i>>)
    /\ row.conclusion = p.steps[i].conclusion
    /\ row.timings = Timings(p.status, Missing, p.steps[i].started, p.steps[i].ended)

LEMMA RowsOfPayload ==
  ASSUME NEW m, IsPayload(m.payload), NEW row \in Records(m)
  PROVE  /\ row.status = m.payload.status /\ row.rank = StatusRank(m.payload.status)
         /\ \/ RunRow(m.payload, row) \/ JobRow(m.payload, row)
            \/ \E i : StepRow(m.payload, row, i)
<1> DEFINE p == m.payload
<1>1. Modelled(p)
  BY DEF IsPayload, Modelled
<1>2. \/ p.kind = "run" /\ row = RunRecord(m)
      \/ p.kind = "job" /\ (row = JobRecord(m) \/ \E i \in DOMAIN p.steps : row = StepRecord(m, i))
  BY <1>1 DEF Records, Modelled
<1>3. CASE p.kind = "run" /\ row = RunRecord(m)
  BY <1>3 DEF RunRecord, Row, RunRow
<1>4. CASE p.kind = "job" /\ row = JobRecord(m)
  BY <1>4 DEF JobRecord, Row, JobRow
<1>5. ASSUME p.kind = "job", NEW i \in DOMAIN p.steps, row = StepRecord(m, i)
      PROVE  row.status = p.status /\ row.rank = StatusRank(p.status) /\ StepRow(p, row, i)
  <2>1. StepStatus(p, p.steps[i]) = p.status
    BY <1>5 DEF IsPayload
  <2> QED BY <1>5, <2>1 DEF StepRecord, Row, StepRow
<1> QED BY <1>2, <1>3, <1>4, <1>5

\* Rows of one record_id are of one entity; of one payload, they are the same.
LEMMA RowIds ==
  ASSUME NEW p, NEW q, NEW row, NEW r, row.id = r.id,
         RunRow(p, row) \/ JobRow(p, row) \/ (\E i : StepRow(p, row, i)),
         RunRow(q, r) \/ JobRow(q, r) \/ (\E i : StepRow(q, r, i))
  PROVE  /\ EntityOf(p) = EntityOf(q)
         /\ p = q => r.conclusion = row.conclusion /\ r.timings = row.timings
<1>1. \A a, b, c, d, e, f, g, h :
         /\ <<"run", a>> # <<"job", b>> /\ <<"run", a>> # <<"step", b>> /\ <<"job", a>> # <<"step", b>>
         /\ <<"run", <<a, b>>>> = <<"run", <<e, f>>>> => a = e /\ b = f
         /\ <<"job", <<a, b, c>>>> = <<"job", <<e, f, g>>>> => c = g
         /\ <<"step", <<a, b, c, d>>>> = <<"step", <<e, f, g, h>>>> => c = g /\ d = h
  OBVIOUS
<1>2. CASE RunRow(p, row)
  <2>1. RunRow(q, r)
    BY <1>1, <1>2 DEF RunRow, JobRow, StepRow, RecordID
  <2>2. <<"run", <<p.run, p.attempt>>>> = <<"run", <<q.run, q.attempt>>>>
    BY <1>2, <2>1 DEF RunRow, RecordID
  <2>3. p.run = q.run /\ p.attempt = q.attempt
    BY <1>1, <2>2, Zenon
  <2>4. EntityOf(p) = EntityOf(q)
    BY <1>2, <2>1, <2>3 DEF RunRow, EntityOf
  <2> QED BY <1>2, <2>1, <2>4 DEF RunRow
<1>3. CASE JobRow(p, row)
  <2>1. JobRow(q, r)
    BY <1>1, <1>3 DEF RunRow, JobRow, StepRow, RecordID
  <2>2. <<"job", <<p.run, p.attempt, p.job>>>> = <<"job", <<q.run, q.attempt, q.job>>>>
    BY <1>3, <2>1 DEF JobRow, RecordID
  <2>3. p.job = q.job
    BY <1>1, <2>2, Zenon
  <2>4. EntityOf(p) = EntityOf(q)
    BY <1>3, <2>1, <2>3 DEF JobRow, EntityOf
  <2> QED BY <1>3, <2>1, <2>4 DEF JobRow
<1>4. ASSUME NEW i, StepRow(p, row, i)
      PROVE  /\ EntityOf(p) = EntityOf(q)
             /\ p = q => r.conclusion = row.conclusion /\ r.timings = row.timings
  <2>1. PICK k : StepRow(q, r, k)
    BY <1>1, <1>4 DEF RunRow, JobRow, StepRow, RecordID
  <2>2. p.job = q.job /\ i = k
    <3>1. <<"step", <<p.run, p.attempt, p.job, i>>>> = <<"step", <<q.run, q.attempt, q.job, k>>>>
      BY <1>4, <2>1 DEF StepRow, RecordID
    <3> QED BY <1>1, <3>1, Zenon
  <2> QED BY <1>4, <2>1, <2>2 DEF StepRow, EntityOf
<1> QED BY <1>2, <1>3, <1>4

LEMMA ViewIsFurthest ==
  ASSUME ProjectionsInv PROVE ViewShowsFurthest
<1> SUFFICES ASSUME class = "analytics", NEW m \in acked, Latest(m.payload),
                    NEW row \in Records(m), NEW r \in CurrentView(row.id)
             PROVE  r.status = row.status /\ r.conclusion = row.conclusion /\ r.timings = row.timings
  BY DEF ViewShowsFurthest
<1>1. row \in out
  BY DEF ProjectionsInv, OutIsProjected, Project
<1>2. r \in out /\ r.id = row.id /\ ~ShownBefore(row, r)
  BY <1>1 DEF CurrentView
<1>3. PICK y \in acked : r \in Records(y)
  BY <1>2 DEF ProjectionsInv, OutIsProjected, Project
<1> DEFINE p == m.payload
           q == y.payload
<1>4. p \in payloads /\ q \in payloads
  <2>1. Modelled(p) /\ Modelled(q)
    <3>1. ~Modelled(q) => Records(y) = {}
      BY DEF Records
    <3> QED BY <1>3, <3>1 DEF Latest
  <2> QED BY <2>1, PayloadsAreModelled DEF ProjectionsInv, OutIsProjected
<1>5. /\ row.status = p.status /\ row.rank = StatusRank(p.status)
      /\ RunRow(p, row) \/ JobRow(p, row) \/ (\E i : StepRow(p, row, i))
  BY <1>4, PayloadsAreModelled, RowsOfPayload
<1>6. /\ r.status = q.status /\ r.rank = StatusRank(q.status)
      /\ RunRow(q, r) \/ JobRow(q, r) \/ (\E i : StepRow(q, r, i))
  BY <1>3, <1>4, PayloadsAreModelled, RowsOfPayload
<1> HIDE DEF p, q
<1>7. EntityOf(p) = EntityOf(q) /\ (p = q => r.conclusion = row.conclusion /\ r.timings = row.timings)
  BY <1>2, <1>5, <1>6, RowIds
<1>8. current[EntityOf(p)] = p
  BY DEF Latest, p
<1>9. q = p \/ StatusRank(q.status) < StatusRank(p.status)
  BY <1>4, <1>7, <1>8 DEF ProjectionsInv, EntitiesAdvance
<1>10. ~(StatusRank(p.status) > StatusRank(q.status))
  BY <1>2, <1>5, <1>6 DEF ShownBefore
<1>11. q = p
  BY <1>9, <1>10, Ranks
<1> QED BY <1>5, <1>6, <1>7, <1>11

\* CurrentViewSQL (sink/analytics/schema.go) shows the most advanced state of a run, job or step that has
\* been written, in whatever order and however often the events arrived.
THEOREM ViewStaysFurthest == ProjectionsSpec => []ViewShowsFurthest
BY ProjectionsAreConsistent, ViewIsFurthest, PTL

-----------------------------------------------------------------------------
(* The trace class.                                                        *)

\* The span of a completed job, which has its completed_at.
SpanOfJob(p) ==
    Span(p, JobSpanID(p), RunSpanID(p), orTime(p.started, p.created), p.ended, p.conclusion)

SpanOfStep(p, i) ==
    Span(p, StepSpanID(p, i), JobSpanID(p), p.steps[i].started, p.steps[i].ended, p.steps[i].conclusion)

\* s is made of p: the span of a run, of a job, or of a step of a job.
SpanFrom(p, s) ==
    \/ p.kind = "run" /\ s = RunSpan(p)
    \/ p.kind = "job" /\ s = SpanOfJob(p)
    \/ p.kind = "job" /\ \E i : s = SpanOfStep(p, i)

LEMMA SpansOfPayload ==
  ASSUME NEW m, IsPayload(m.payload), m.payload.status = "completed"
  PROVE  /\ m.payload.kind = "run" => Spans(m) = {RunSpan(m.payload)}
         /\ m.payload.kind = "job" => SpanOfJob(m.payload) \in Spans(m)
         /\ \A s \in Spans(m) : SpanFrom(m.payload, s)
<1> DEFINE p == m.payload
<1>1. Modelled(p) /\ (p.kind = "run" \/ p.kind = "job")
  BY DEF IsPayload, Modelled
<1>2. CASE p.kind = "run"
  <2>1. Spans(m) = {RunSpan(p)}
    BY <1>1, <1>2 DEF Spans
  <2> QED BY <1>2, <2>1 DEF SpanFrom
<1>3. CASE p.kind = "job"
  <2>1. Spans(m) = {JobSpan(m)} \union StepSpans(p)
    BY <1>1, <1>3 DEF Spans
  <2>2. orTime(p.ended, EventTime(m)) = p.ended
    BY <1>3 DEF IsPayload, orTime
  <2>3. JobSpan(m) = SpanOfJob(p)
    BY <2>2 DEF JobSpan, SpanOfJob
  <2>4. \A s \in StepSpans(p) : \E i : s = SpanOfStep(p, i)
    BY DEF StepSpans, SpanOfStep
  <2> HIDE DEF p
  <2> QED BY <1>3, <2>1, <2>3, <2>4 DEF SpanFrom, p
<1> QED BY <1>1, <1>2, <1>3

\* The fields by which spans are told apart.
LEMMA SpanFields ==
  /\ \A p : /\ RunSpan(p).trace = <<"trace", p.run, p.attempt>> /\ RunSpan(p).parent = <<>>
            /\ RunSpan(p).id = <<"run", p.run, p.attempt>>
  /\ \A p : /\ SpanOfJob(p).trace = <<"trace", p.run, p.attempt>> /\ SpanOfJob(p).id = <<"job", p.job>>
            /\ SpanOfJob(p).parent = <<"run", p.run, p.attempt>>
  /\ \A p, i : /\ SpanOfStep(p, i).trace = <<"trace", p.run, p.attempt>>
               /\ SpanOfStep(p, i).id = <<"step", p.job, i>> /\ SpanOfStep(p, i).parent = <<"job", p.job>>
BY DEF RunSpan, SpanOfJob, SpanOfStep, Span, TraceID, RunSpanID, JobSpanID, StepSpanID, NoParent

LEMMA SpanKinds ==
  ASSUME NEW p, NEW s, SpanFrom(p, s)
  PROVE  /\ s.trace = <<"trace", p.run, p.attempt>>
         /\ \/ /\ p.kind = "run" /\ s = RunSpan(p) /\ s.parent = <<>> /\ s.id = <<"run", p.run, p.attempt>>
            \/ /\ p.kind = "job" /\ s = SpanOfJob(p) /\ s.parent = <<"run", p.run, p.attempt>>
               /\ s.id = <<"job", p.job>>
            \/ \E i : /\ p.kind = "job" /\ s = SpanOfStep(p, i) /\ s.parent = <<"job", p.job>>
                      /\ s.id = <<"step", p.job, i>>
<1>1. CASE p.kind = "run" /\ s = RunSpan(p)
  BY <1>1, SpanFields
<1>2. CASE p.kind = "job" /\ s = SpanOfJob(p)
  BY <1>2, SpanFields
<1>3. ASSUME p.kind = "job", NEW i, s = SpanOfStep(p, i)
      PROVE  /\ s.trace = <<"trace", p.run, p.attempt>> /\ s.parent = <<"job", p.job>>
             /\ s.id = <<"step", p.job, i>>
  BY <1>3, SpanFields
<1> QED BY <1>1, <1>2, <1>3 DEF SpanFrom

\* A span in the destination is made of what GitHub said of the completion,
\* and the span of a job comes with those of its steps.
LEMMA SpansInOut ==
  ASSUME ProjectionsInv, class = "trace", NEW s \in out
  PROVE  \E p \in payloads : /\ p.status = "completed" /\ IsPayload(p) /\ SpanFrom(p, s)
                             /\ p.kind = "job" => SpanOfJob(p) \in out
<1>1. PICK m \in acked : s \in Spans(m)
  BY DEF ProjectionsInv, OutIsProjected, Project
<1> DEFINE p == m.payload
<1>2. Modelled(p) /\ p.status = "completed"
  BY <1>1 DEF Spans
<1>3. p \in payloads /\ IsPayload(p)
  BY <1>2, PayloadsAreModelled DEF ProjectionsInv, OutIsProjected
<1>4. Spans(m) \subseteq out
  BY DEF ProjectionsInv, OutIsProjected, Project
<1> QED BY <1>1, <1>2, <1>3, <1>4, SpansOfPayload

LEMMA SpansAreUnique ==
  ASSUME ProjectionsInv, class = "trace", NEW s \in out, NEW u \in out, s.id = u.id
  PROVE  s = u
<1>1. PICK p \in payloads : p.status = "completed" /\ IsPayload(p) /\ SpanFrom(p, s)
  BY SpansInOut
<1>2. PICK q \in payloads : q.status = "completed" /\ IsPayload(q) /\ SpanFrom(q, u)
  BY SpansInOut
<1>3. EntityOf(p) = EntityOf(q) => p = q
  BY <1>1, <1>2, CompletedOnce
<1>4. \/ q.kind = "run" /\ u = RunSpan(q) /\ u.id = <<"run", q.run, q.attempt>>
      \/ q.kind = "job" /\ u = SpanOfJob(q) /\ u.id = <<"job", q.job>>
      \/ \E k : q.kind = "job" /\ u = SpanOfStep(q, k) /\ u.id = <<"step", q.job, k>>
  BY <1>2, SpanKinds
<1>5. CASE p.kind = "run" /\ s = RunSpan(p) /\ s.id = <<"run", p.run, p.attempt>>
  <2>1. q.kind = "run" /\ u = RunSpan(q) /\ p.run = q.run /\ p.attempt = q.attempt
    BY <1>4, <1>5
  <2> QED BY <1>3, <1>5, <2>1 DEF EntityOf
<1>6. CASE p.kind = "job" /\ s = SpanOfJob(p) /\ s.id = <<"job", p.job>>
  <2>1. q.kind = "job" /\ u = SpanOfJob(q) /\ p.job = q.job
    BY <1>4, <1>6
  <2> QED BY <1>3, <1>6, <2>1 DEF EntityOf
<1>7. ASSUME p.kind = "job", NEW i, s = SpanOfStep(p, i), s.id = <<"step", p.job, i>>
      PROVE  s = u
  <2>1. PICK k : q.kind = "job" /\ u = SpanOfStep(q, k) /\ p.job = q.job /\ i = k
    BY <1>4, <1>7
  <2> QED BY <1>3, <1>7, <2>1 DEF EntityOf
<1> QED BY <1>1, <1>5, <1>6, <1>7, SpanKinds

\* In the trace of a completed run, only its span is a root, and the spans
\* below it are those of its jobs.
LEMMA SpansOfRun ==
  ASSUME ProjectionsInv, class = "trace", NEW p \in payloads, p.kind = "run", p.status = "completed",
         NEW s \in out, s.trace = TraceID(p)
  PROVE  \E q \in payloads :
            /\ q.status = "completed" /\ IsPayload(q) /\ q = current[EntityOf(q)]
            /\ q.run = p.run /\ q.attempt = p.attempt /\ TraceID(q) = TraceID(p)
            /\ q.kind = "job" => SpanOfJob(q) \in out
            /\ \/ s = RunSpan(p) /\ s.parent = NoParent
               \/ q.kind = "job" /\ s = SpanOfJob(q) /\ s.parent = RunSpanID(p)
               \/ q.kind = "job" /\ s.parent = SpanOfJob(q).id
<1>1. PICK q \in payloads : /\ q.status = "completed" /\ IsPayload(q) /\ SpanFrom(q, s)
                            /\ q.kind = "job" => SpanOfJob(q) \in out
  BY SpansInOut
<1>2. q.run = p.run /\ q.attempt = p.attempt
  <2>1. <<"trace", q.run, q.attempt>> = <<"trace", p.run, p.attempt>>
    BY <1>1, SpanKinds DEF TraceID
  <2> QED BY <2>1
<1>3. q = current[EntityOf(q)] /\ TraceID(q) = TraceID(p)
  BY <1>1, <1>2, CompletedOnce DEF TraceID
<1>4. q.kind = "run" => q = p
  <2>1. q.kind = "run" => EntityOf(q) = EntityOf(p)
    BY <1>2 DEF EntityOf
  <2> QED BY <1>1, <2>1, CompletedOnce
<1>5. \/ s = RunSpan(p) /\ s.parent = NoParent
      \/ q.kind = "job" /\ s = SpanOfJob(q) /\ s.parent = RunSpanID(p)
      \/ q.kind = "job" /\ s.parent = SpanOfJob(q).id
  <2>1. \/ q.kind = "run" /\ s = RunSpan(q) /\ s.parent = <<>>
        \/ q.kind = "job" /\ s = SpanOfJob(q) /\ s.parent = <<"run", q.run, q.attempt>>
        \/ q.kind = "job" /\ s.parent = <<"job", q.job>>
    BY <1>1, SpanKinds
  <2> QED BY <1>2, <1>4, <2>1, SpanFields DEF NoParent, RunSpanID
<1> QED BY <1>1, <1>2, <1>3, <1>5

LEMMA TraceOfRun ==
  ASSUME ProjectionsInv, class = "trace", NEW m \in acked,
         m.payload.kind = "run", Latest(m.payload), m.payload.status = "completed",
         \A j \in JobsOf(m.payload.run, m.payload.attempt) : \E y \in acked : y.payload = current[<<"job", j>>]
  PROVE  LET p == m.payload
             T == {s \in out : s.trace = TraceID(p)}
             roots == {s \in T : s.parent = NoParent}
         IN  /\ Cardinality(roots) = 1
             /\ \A s \in T \ roots : \E u \in T : u.id = s.parent
             /\ Cardinality({s \in T : \E u \in roots : u.id = s.parent})
                   = Cardinality(JobsOf(p.run, p.attempt))
<1> DEFINE p == m.payload
           T == {s \in out : s.trace = TraceID(p)}
           roots == {s \in T : s.parent = NoParent}
           jobs == JobsOf(p.run, p.attempt)
           below == {s \in T : \E u \in roots : u.id = s.parent}
<1>1. p \in payloads /\ IsPayload(p) /\ Project(m) \subseteq out
  BY PayloadsAreModelled DEF ProjectionsInv, OutIsProjected, Latest
<1>2. RunSpan(p) \in out
  BY <1>1, SpansOfPayload DEF Project
<1>3. RunSpan(p).trace = TraceID(p) /\ RunSpan(p).parent = NoParent /\ RunSpan(p).id = RunSpanID(p)
  BY SpanFields DEF TraceID, NoParent, RunSpanID
<1>4. \A q : SpanOfJob(q).id # NoParent /\ RunSpanID(p) # NoParent /\ SpanOfJob(q).id # RunSpanID(p)
  <2> SUFFICES ASSUME NEW q
               PROVE  /\ SpanOfJob(q).id # NoParent /\ RunSpanID(p) # NoParent
                      /\ SpanOfJob(q).id # RunSpanID(p)
    OBVIOUS
  <2>1. \A a, b, j : <<"job", j>> # <<>> /\ <<"run", a, b>> # <<>> /\ <<"job", j>> # <<"run", a, b>>
    OBVIOUS
  <2>2. SpanOfJob(q).id = <<"job", q.job>>
    BY SpanFields
  <2>3. RunSpanID(p) = <<"run", p.run, p.attempt>> /\ NoParent = <<>>
    BY DEF NoParent, RunSpanID
  <2>4. /\ <<"job", q.job>> # <<>> /\ <<"run", p.run, p.attempt>> # <<>>
        /\ <<"job", q.job>> # <<"run", p.run, p.attempt>>
    BY <2>1, Zenon
  <2> QED BY <2>2, <2>3, <2>4, Zenon
<1>5. ASSUME NEW s \in T
      PROVE  \E q \in payloads :
                /\ q.status = "completed" /\ IsPayload(q) /\ q = current[EntityOf(q)]
                /\ q.run = p.run /\ q.attempt = p.attempt /\ TraceID(q) = TraceID(p)
                /\ q.kind = "job" => SpanOfJob(q) \in out
                /\ \/ s = RunSpan(p) /\ s.parent = NoParent
                   \/ q.kind = "job" /\ s = SpanOfJob(q) /\ s.parent = RunSpanID(p)
                   \/ q.kind = "job" /\ s.parent = SpanOfJob(q).id
  BY <1>1, SpansOfRun
<1> HIDE DEF p
<1>6. roots = {RunSpan(p)}
  <2>1. RunSpan(p) \in roots
    BY <1>2, <1>3
  <2>2. \A s \in roots : s = RunSpan(p)
    BY <1>4, <1>5
  <2> QED BY <2>1, <2>2
<1>7. Cardinality(roots) = 1
  BY <1>6, FS_Singleton
<1>8. ASSUME NEW s \in T \ roots
      PROVE  \E u \in T : u.id = s.parent
  <2>1. PICK q \in payloads :
           /\ TraceID(q) = TraceID(p) /\ (q.kind = "job" => SpanOfJob(q) \in out)
           /\ \/ s = RunSpan(p) /\ s.parent = NoParent
              \/ q.kind = "job" /\ s = SpanOfJob(q) /\ s.parent = RunSpanID(p)
              \/ q.kind = "job" /\ s.parent = SpanOfJob(q).id
    BY <1>5
  <2>2. SpanOfJob(q).trace = TraceID(q)
    BY SpanFields DEF TraceID
  <2> QED BY <1>2, <1>3, <2>1, <2>2
<1>9. below = {s \in T : s.parent = RunSpanID(p)}
  BY <1>3, <1>6
<1>10. Cardinality(below) = Cardinality(jobs)
  <2> DEFINE f == [j \in jobs |-> SpanOfJob(current[<<"job", j>>])]
  <2>1. ASSUME NEW j \in jobs
        PROVE  f[j] \in below /\ f[j].id = <<"job", j>>
    <3> DEFINE q == current[<<"job", j>>]
    <3>1. /\ <<"job", j>> \in DOMAIN current /\ q.run = p.run /\ q.attempt = p.attempt
      BY DEF JobsOf
    <3>2. q \in payloads /\ IsPayload(q) /\ EntityOf(q) = <<"job", j>> /\ q.kind = "job" /\ q.job = j
      BY <3>1, KnownState, JobStates
    <3>3. PICK y \in acked : y.payload = q
      BY DEF p
    <3> HIDE DEF q
    <3>4. p.kind = "run" /\ p.status = "completed"
      BY DEF p
    <3>5. current[EntityOf(q)].status = "completed"
      BY <1>1, <3>1, <3>2, <3>4 DEF ProjectionsInv, RunsClosed
    <3>6. q.status = "completed"
      BY <3>2, <3>5 DEF q
    <3>7. SpanOfJob(q) \in out
      BY <3>2, <3>3, <3>6, SpansOfPayload DEF ProjectionsInv, OutIsProjected, Project
    <3>8. /\ SpanOfJob(q).trace = TraceID(p) /\ SpanOfJob(q).parent = RunSpanID(p)
          /\ SpanOfJob(q).id = <<"job", j>>
      BY <3>1, <3>2, SpanFields DEF TraceID, RunSpanID
    <3> QED BY <1>9, <3>7, <3>8 DEF q
  <2>2. ASSUME NEW s \in below
        PROVE  \E j \in jobs : f[j] = s
    <3>1. s \in T /\ s.parent = RunSpanID(p)
      BY <1>9
    <3>2. PICK q \in payloads :
             /\ q.status = "completed" /\ IsPayload(q) /\ q = current[EntityOf(q)]
             /\ q.run = p.run /\ q.attempt = p.attempt /\ q.kind = "job" /\ s = SpanOfJob(q)
      BY <1>4, <1>5, <3>1
    <3>3. EntityOf(q) = <<"job", q.job>> /\ q.job \in Jobs
      BY <3>2 DEF EntityOf, IsPayload
    <3>4. EntityOf(q) \in DOMAIN current
      BY DEF ProjectionsInv, EntitiesAdvance
    <3>5. q.job \in jobs
      BY <3>2, <3>3, <3>4 DEF JobsOf
    <3> QED BY <3>2, <3>3, <3>5
  <2>3. ASSUME NEW j \in jobs, NEW k \in jobs, f[j] = f[k]
        PROVE  j = k
    BY <2>1, <2>3
  <2>4. f \in [jobs -> below] /\ DOMAIN f = jobs
    BY <2>1
  <2> HIDE DEF f, jobs, below
  <2>5. f \in Bijection(jobs, below)
    BY <2>2, <2>3, <2>4 DEF Bijection, Injection, Surjection, IsInjective
  <2>6. ExistsBijection(jobs, below)
    BY <2>5 DEF ExistsBijection
  <2>7. IsFiniteSet(jobs)
    <3>1. jobs \subseteq KnownJobs
      BY DEF jobs, JobsOf, KnownJobs
    <3> QED BY <3>1, FS_Subset DEF ProjectionsInv
  <2> QED BY <2>6, <2>7, FS_Bijection
<1> QED BY <1>7, <1>8, <1>10 DEF p

LEMMA TracesAreTrees ==
  ASSUME ProjectionsInv PROVE TraceIsTree
BY SpansAreUnique, TraceOfRun DEF TraceIsTree

\* Redelivery and order do not matter to a trace: a span is exported one way
\* only, and an attempt whose completions are all exported has one root, every
\* parent and a span of every job (internal/model/ids.go, sink/trace/project.go).
THEOREM TraceStaysTree == ProjectionsSpec => []TraceIsTree
BY ProjectionsAreConsistent, TracesAreTrees, PTL

-----------------------------------------------------------------------------
(***************************************************************************)
(* OtlpExport.                                                             *)
(***************************************************************************)

\* Time spent so far, and time the call may still wait, in terms of the
\* retries made; requests are counted likewise.
Budget ==
    /\ phase = "ready" => sent <= n /\ elapsed <= (2 * n) * Timeout
    /\ phase = "sending" => sent <= n + 1 /\ elapsed + attemptLeft <= (2 * n + 1) * Timeout
    /\ phase = "failed" => sent <= n + 1 /\ elapsed <= (2 * n + 1) * Timeout
    /\ phase = "sleeping" =>
           sent <= n + 1 /\ n < Attempts /\ elapsed + sleepLeft <= (2 * n + 2) * Timeout
    /\ phase = "done" => TotalBounded

\* Neither an attempt nor a pause reaches beyond the caller's deadline.
InsideDeadline ==
    /\ phase = "sending" /\ bounded => attemptLeft <= left
    /\ phase = "sleeping" /\ bounded => sleepLeft < left

\* What the call knows of the collector's answer, and what it returns for it.
Faithful ==
    /\ answer = "accepted" => stored
    /\ answer = "local" => protocol = "grpc"
    /\ status => answer # None
    /\ status /\ answer = "accepted" => phase \in {"sending", "done"}
    /\ phase = "failed" /\ ~failure.retryable => answer \in {"refused", "local"}
    /\ result # None => phase = "done"
    /\ PermanentIsRefusal
    /\ SuccessIsStored

OtlpInv == OtlpTypeOK /\ Budget /\ InsideDeadline /\ Faithful

-----------------------------------------------------------------------------
\* The configuration consists of numbers.
LEMMA ConstantTypes ==
    /\ Timeout \in Nat \ {0}
    /\ {Attempts, Backoff, Minute} \subseteq Nat
    /\ Waits \subseteq Nat
    /\ Deadlines \subseteq Nat
  BY OtlpAssumption DEF ValidConfig

\* More retries, more budget.
LEMMA BudgetGrows ==
    ASSUME NEW k \in Nat, NEW m \in Nat, k <= m
    PROVE  k * Timeout <= m * Timeout
  BY ConstantTypes

\* One timeout more is one unit of budget more.
LEMMA BudgetStep ==
    ASSUME NEW k \in Nat
    PROVE  /\ k * Timeout \in Nat
           /\ (k + 1) * Timeout = k * Timeout + Timeout
  BY ConstantTypes

\* In every phase the budget is that of the whole call at most.
LEMMA BudgetBounds == OtlpTypeOK /\ Budget => TotalBounded
  <1> SUFFICES ASSUME OtlpTypeOK, Budget PROVE TotalBounded
    OBVIOUS
  <1> USE ConstantTypes
  <1>1. /\ n \in Nat /\ n <= Attempts /\ {sent, elapsed, attemptLeft, sleepLeft} \subseteq Nat
        /\ Attempts \in Nat /\ Timeout \in Nat
    BY DEF OtlpTypeOK
  <1>2. CASE phase = "ready"
    BY <1>1, <1>2, BudgetGrows DEF Budget, TotalBounded
  <1>3. CASE phase \in {"sending", "failed"}
    BY <1>1, <1>3, BudgetGrows DEF Budget, TotalBounded
  <1>4. CASE phase = "sleeping"
    BY <1>1, <1>4, BudgetGrows DEF Budget, TotalBounded
  <1>5. CASE phase = "done"
    BY <1>5 DEF Budget
  <1> QED
    BY <1>2, <1>3, <1>4, <1>5 DEF OtlpTypeOK

\* A call that has not begun has spent nothing.
LEMMA InitOtlp == Init => OtlpInv
  <1> SUFFICES ASSUME Init PROVE OtlpInv
    OBVIOUS
  <1> USE ConstantTypes DEF Init
  <1>1. OtlpTypeOK
    <2>1. failure \in Verdicts
      BY DEF Verdicts, Lost
    <2>2. {empty, bounded, cancelled, status, stored} \subseteq BOOLEAN
      OBVIOUS
    <2>3. {left, attemptLeft, backoff, sleepLeft, sent, elapsed} \subseteq Nat /\ n \in 0..Attempts
      <3>1. left \in Deadlines \/ left = 0
        BY Zenon
      <3>2. {attemptLeft, backoff, sleepLeft, sent, elapsed} \subseteq Nat /\ n \in 0..Attempts
        OBVIOUS
      <3> QED
        BY <3>1, <3>2
    <2> QED
      BY <2>1, <2>2, <2>3 DEF OtlpTypeOK, None
  <1>2. Budget
    BY DEF Budget
  <1>3. InsideDeadline /\ Faithful
    BY DEF InsideDeadline, Faithful, PermanentIsRefusal, SuccessIsStored, None, Lost
  <1> QED
    BY <1>1, <1>2, <1>3 DEF OtlpInv

\* Returning leaves everything but phase and result as it is.
LEMMA ReturnStep ==
    ASSUME OtlpInv, phase # "done",
           NEW r \in {"nil", "context", "retryable", "permanent"}, Return(r),
           UNCHANGED <<caller, n, attempt, backoff, sleepLeft, failure, ghosts>>,
           r = "nil" => stored \/ empty,
           r = "permanent" => answer \in {"refused", "local"} /\ ~ContextEnded
    PROVE  OtlpInv'
  <1> USE DEF OtlpInv, Return, caller, attempt, ghosts
  <1>1. OtlpTypeOK'
    BY DEF OtlpTypeOK
  <1>2. Budget'
    BY BudgetBounds DEF Budget, TotalBounded
  <1>3. InsideDeadline' /\ Faithful'
    BY DEF InsideDeadline, Faithful, PermanentIsRefusal, SuccessIsStored, ContextEnded, None
  <1> QED
    BY <1>1, <1>2, <1>3

\* A failed attempt: the verdict on a status or on a lost answer.
LEMMA FailStep ==
    ASSUME OtlpInv, phase = "sending", phase' = "failed",
           failure' \in Verdicts,
           ~failure'.retryable => answer \in {"refused", "local"},
           ~(status /\ answer = "accepted"),
           UNCHANGED <<caller, n, attempt, backoff, sleepLeft, result, ghosts>>
    PROVE  OtlpInv'
  <1> USE DEF OtlpInv, caller, attempt, ghosts
  <1>1. OtlpTypeOK'
    BY DEF OtlpTypeOK
  <1>2. Budget'
    BY ConstantTypes DEF Budget, OtlpTypeOK
  <1>3. InsideDeadline' /\ Faithful'
    BY DEF InsideDeadline, Faithful, PermanentIsRefusal, SuccessIsStored, ContextEnded, None
  <1> QED
    BY <1>1, <1>2, <1>3

\* The outcome of an attempt whose answer has arrived.
LEMMA SettleStep ==
    ASSUME OtlpInv, phase = "sending", answer # None, Settle(answer),
           UNCHANGED <<caller, n, attempt, backoff, sleepLeft, ghosts>>
    PROVE  OtlpInv'
  <1>1. CASE answer = "accepted"
    <2>1. stored
      BY <1>1 DEF OtlpInv, Faithful
    <2> QED
      BY <1>1, <2>1, ReturnStep DEF Settle
  <1>2. CASE answer # "accepted"
    <2>1. phase' = "failed" /\ result' = result
      BY <1>2 DEF Settle
    <2>2. PICK w \in Waits \union {0} : failure' = Classify(answer, w)
      BY <1>2 DEF Settle
    <2>3. failure' \in Verdicts
      BY <2>2 DEF Classify, Verdicts
    <2>4. ~failure'.retryable => answer \in {"refused", "local"}
      BY <1>2, <2>2 DEF Classify, OtlpInv, OtlpTypeOK, Answers, None
    <2> QED
      BY <1>2, <2>1, <2>3, <2>4, FailStep
  <1> QED
    BY <1>1, <1>2

\* A new attempt gets Timeout, or what the caller's deadline leaves.
LEMMA OnceStep == OtlpInv /\ Once => OtlpInv'
  <1> SUFFICES ASSUME OtlpInv, Once PROVE OtlpInv'
    OBVIOUS
  <1> USE ConstantTypes DEF OtlpInv, Once, caller
  <1>1. OtlpTypeOK'
    <2>1. ({empty, bounded, cancelled, status, stored} \subseteq BOOLEAN)'
      BY Zenon DEF OtlpTypeOK
    <2>2. ({left, attemptLeft, backoff, sleepLeft, sent, elapsed} \subseteq Nat)'
      BY DEF OtlpTypeOK
    <2> QED
      BY <2>1, <2>2 DEF OtlpTypeOK
  <1>2. /\ attemptLeft' \in Nat /\ attemptLeft' <= Timeout
        /\ n \in Nat /\ {sent, elapsed} \subseteq Nat
    BY DEF OtlpTypeOK
  <1>3. (2 * n + 1) * Timeout = (2 * n) * Timeout + Timeout /\ (2 * n) * Timeout \in Nat
    BY <1>2, BudgetStep
  <1>4. Budget'
    BY <1>2, <1>3 DEF Budget
  <1>5. InsideDeadline' /\ Faithful'
    BY DEF InsideDeadline, Faithful, PermanentIsRefusal, SuccessIsStored, ContextEnded, None, OtlpTypeOK
  <1> QED
    BY <1>1, <1>4, <1>5

\* A pause is no longer than Timeout and ends before the deadline.
LEMMA RetryStep == OtlpInv /\ Retry => OtlpInv'
  <1> SUFFICES ASSUME OtlpInv, Retry PROVE OtlpInv'
    OBVIOUS
  <1> USE ConstantTypes DEF OtlpInv, Retry, caller, attempt, ghosts
  <1>1. Delay \in Nat
    BY DEF Delay, OtlpTypeOK, Verdicts
  <1>2. OtlpTypeOK'
    BY <1>1 DEF OtlpTypeOK
  <1>3. /\ sleepLeft' \in Nat /\ sleepLeft' <= Timeout
        /\ n \in Nat /\ n < Attempts /\ {sent, elapsed} \subseteq Nat
    BY <1>1 DEF TooLong, Exhausted, OtlpTypeOK
  <1>4. (2 * n + 2) * Timeout = (2 * n + 1) * Timeout + Timeout /\ (2 * n + 1) * Timeout \in Nat
    BY <1>3
  <1>5. Budget'
    BY <1>3, <1>4 DEF Budget
  <1>6. InsideDeadline'
    BY <1>1 DEF InsideDeadline, TooLong, OtlpTypeOK
  <1>7. Faithful'
    <2>1. phase' # "failed" /\ phase' # "done" /\ result = None
      BY DEF Faithful
    <2>2. ~(status /\ answer = "accepted")
      BY DEF Faithful
    <2> QED
      BY <2>1, <2>2 DEF Faithful, PermanentIsRefusal, SuccessIsStored, None
  <1> QED
    BY <1>2, <1>5, <1>6, <1>7

\* The next retry begins.
LEMMA WakeStep == OtlpInv /\ Wake => OtlpInv'
  <1> SUFFICES ASSUME OtlpInv, Wake PROVE OtlpInv'
    OBVIOUS
  <1> USE ConstantTypes DEF OtlpInv, Wake, caller, attempt, ghosts
  <1>1. n + 1 \in 0..Attempts
    BY DEF Budget, OtlpTypeOK
  <1>2. OtlpTypeOK'
    BY <1>1 DEF OtlpTypeOK, Doubled
  <1>3. 2 * (n + 1) = 2 * n + 2
    BY DEF OtlpTypeOK
  <1>4. Budget'
    BY <1>1, <1>3 DEF Budget, OtlpTypeOK
  <1>5. InsideDeadline' /\ Faithful'
    <2>1. ~(status /\ answer = "accepted") /\ result = None
      BY DEF Faithful
    <2> QED
      BY <2>1 DEF InsideDeadline, Faithful, PermanentIsRefusal, SuccessIsStored, None
  <1> QED
    BY <1>2, <1>4, <1>5

\* The collector, the status line and the caller's cancel spend nothing.
LEMMA OutsideStep ==
    ASSUME OtlpInv, (\E a \in Answers : CollectorAnswers(a)) \/ GrpcFails \/ StatusArrives \/ Cancel
    PROVE  OtlpInv'
  <1> USE DEF OtlpInv, caller, attempt, ghosts
  <1>1. ASSUME NEW a \in Answers, CollectorAnswers(a) PROVE OtlpInv'
    <2> USE <1>1 DEF CollectorAnswers
    <2>1. OtlpTypeOK'
      BY DEF OtlpTypeOK
    <2>2. Budget' /\ InsideDeadline'
      BY DEF Budget, TotalBounded, InsideDeadline
    <2>3. Faithful'
      BY DEF Faithful, PermanentIsRefusal, SuccessIsStored, ContextEnded, Answers, None
    <2> QED
      BY <2>1, <2>2, <2>3
  <1>4. CASE GrpcFails
    <2> USE <1>4 DEF GrpcFails
    <2>1. OtlpTypeOK'
      BY DEF OtlpTypeOK
    <2>2. Budget' /\ InsideDeadline'
      BY DEF Budget, TotalBounded, InsideDeadline
    <2>3. Faithful'
      BY DEF Faithful, PermanentIsRefusal, SuccessIsStored, ContextEnded, None
    <2> QED
      BY <2>1, <2>2, <2>3
  <1>2. CASE StatusArrives
    <2> USE <1>2 DEF StatusArrives
    <2>1. OtlpTypeOK'
      BY DEF OtlpTypeOK
    <2>2. Budget' /\ InsideDeadline'
      BY DEF Budget, TotalBounded, InsideDeadline
    <2>3. Faithful'
      BY DEF Faithful, PermanentIsRefusal, SuccessIsStored, ContextEnded, None
    <2> QED
      BY <2>1, <2>2, <2>3
  <1>3. CASE Cancel
    <2> USE <1>3 DEF Cancel
    <2>1. OtlpTypeOK'
      BY DEF OtlpTypeOK
    <2>2. Budget' /\ InsideDeadline'
      BY DEF Budget, TotalBounded, InsideDeadline
    <2>3. Faithful'
      BY DEF Faithful, PermanentIsRefusal, SuccessIsStored, None
    <2> QED
      BY <2>1, <2>2, <2>3
  <1> QED
    BY <1>1, <1>2, <1>3, <1>4

\* A tick moves time from what is left to what is spent.
LEMMA TickStep == OtlpInv /\ Tick => OtlpInv'
  <1> SUFFICES ASSUME OtlpInv, Tick PROVE OtlpInv'
    OBVIOUS
  <1> USE ConstantTypes DEF OtlpInv, Tick, Before
  <1>1. OtlpTypeOK'
    BY DEF OtlpTypeOK
  <1>2. /\ n \in Nat /\ {sent, elapsed, left, attemptLeft, sleepLeft} \subseteq Nat
        /\ phase \in {"sending", "sleeping"}
    BY DEF OtlpTypeOK, AttemptWaits, SleepWaits
  <1>3. /\ phase = "sending" => attemptLeft > 0
        /\ phase = "sleeping" => sleepLeft > 0
    BY DEF AttemptWaits, SleepWaits
  <1>4. Budget'
    BY <1>2, <1>3 DEF Budget
  <1>5. InsideDeadline'
    BY <1>2, <1>3 DEF InsideDeadline
  <1>6. Faithful'
    BY <1>2 DEF Faithful, PermanentIsRefusal, SuccessIsStored, None
  <1> QED
    BY <1>1, <1>4, <1>5, <1>6

\* Every step of the export, of the collector and of time keeps the invariant.
LEMMA NextOtlp == OtlpInv /\ [Next]_vars => OtlpInv'
  <1> SUFFICES ASSUME OtlpInv, [Next]_vars PROVE OtlpInv'
    OBVIOUS
  <1>1. CASE NothingToExport
    BY <1>1, ReturnStep DEF NothingToExport
  <1>2. CASE CheckContext
    BY <1>2, ReturnStep DEF CheckContext
  <1>3. CASE Once
    BY <1>3, OnceStep
  <1>4. CASE ReadBody
    BY <1>4, SettleStep DEF ReadBody, OtlpInv, Faithful
  <1>5. CASE ReadReply
    BY <1>5, SettleStep DEF ReadReply
  <1>6. CASE AttemptLost
    <2>1. Lost \in Verdicts /\ Lost.retryable
      BY DEF Lost, Verdicts
    <2> QED
      BY <1>6, <2>1, FailStep DEF AttemptLost
  <1>7. CASE GiveUp
    <2>1. Finalize \in {"context", "retryable", "permanent"}
      BY DEF Finalize
    <2>2. Finalize = "permanent" => answer \in {"refused", "local"} /\ ~ContextEnded
      BY <1>7 DEF Finalize, GiveUp, OtlpInv, Faithful
    <2>3. phase # "done" /\ Return(Finalize)
      BY <1>7 DEF GiveUp
    <2> QED
      BY <1>7, <2>1, <2>2, <2>3, ReturnStep DEF GiveUp
  <1>8. CASE Retry
    BY <1>8, RetryStep
  <1>9. CASE Wake
    BY <1>9, WakeStep
  <1>10. CASE SleepEnds
    BY <1>10, ReturnStep DEF SleepEnds
  <1>11. CASE (\E a \in Answers : CollectorAnswers(a)) \/ GrpcFails \/ StatusArrives \/ Cancel
    BY <1>11, OutsideStep
  <1>12. CASE Tick
    BY <1>12, TickStep
  <1>13. CASE Returned \/ UNCHANGED vars
    BY <1>13 DEF Returned, vars, caller, attempt, ghosts, OtlpInv, OtlpTypeOK, Budget, TotalBounded,
                 InsideDeadline, Faithful, PermanentIsRefusal, SuccessIsStored, ContextEnded
  <1> QED
    BY <1>1, <1>2, <1>3, <1>4, <1>5, <1>6, <1>7, <1>8, <1>9, <1>10, <1>11, <1>12, <1>13 DEF Next

\* The invariant of an export.
THEOREM ExportKeepsInvariant == Spec => []OtlpInv
  BY InitOtlp, NextOtlp, PTL DEF Spec

\* Requests and time of one export are bounded by timeout and retry.attempts,
\* whatever delays the collector asks for.
THEOREM ExportIsBounded == Spec => []TotalBounded
  <1>1. OtlpInv => TotalBounded
    BY BudgetBounds DEF OtlpInv
  <1> QED
    BY <1>1, ExportKeepsInvariant, PTL

\* No pause of the retry loop reaches the caller's deadline.
THEOREM ExportNeverSleepsIntoDeadline == Spec => []NeverSleepsIntoDeadline
  <1>1. OtlpInv => NeverSleepsIntoDeadline
    BY DEF OtlpInv, InsideDeadline, NeverSleepsIntoDeadline
  <1> QED
    BY <1>1, ExportKeepsInvariant, PTL

\* Only the collector's refusal, or a permanent status gRPC made itself, is
\* reported as permanent: a lost answer, a timeout or a busy collector never is.
THEOREM ExportReportsRefusal == Spec => []PermanentIsRefusal
  <1>1. OtlpInv => PermanentIsRefusal
    BY DEF OtlpInv, Faithful
  <1> QED
    BY <1>1, ExportKeepsInvariant, PTL

\* A nil result means that the collector has the batch, or that it was empty.
THEOREM ExportReportsSuccess == Spec => []SuccessIsStored
  <1>1. OtlpInv => SuccessIsStored
    BY DEF OtlpInv, Faithful
  <1> QED
    BY <1>1, ExportKeepsInvariant, PTL

\* An export whose context has ended sends nothing and waits for nothing.
THEOREM ExportStopsAtOnce == Spec => StopsAtOnce
  <1>1. ASSUME OtlpInv, [Next]_vars, ContextEnded
        PROVE  elapsed' = elapsed /\ sent' = sent
    <2>1. ~Tick
      BY <1>1 DEF Tick, AttemptWaits, SleepWaits, ContextEnded, OtlpInv, OtlpTypeOK, InsideDeadline
    <2>2. ~Once
      BY <1>1 DEF Once
    <2> QED
      BY <1>1, <2>1, <2>2
      DEF Next, NothingToExport, CheckContext, ReadBody, ReadReply, AttemptLost, GiveUp, Retry, Wake,
          SleepEnds, CollectorAnswers, GrpcFails, StatusArrives, Cancel, Returned, vars, ghosts
  <1>2. OtlpInv /\ [Next]_vars => [ContextEnded => elapsed' = elapsed /\ sent' = sent]_vars
    BY <1>1
  <1> QED
    BY <1>2, ExportKeepsInvariant, PTL DEF Spec, StopsAtOnce

\* A batch whose 2xx status has arrived is not sent again.
THEOREM ExportResendsNothingConfirmed == Spec => NotResentOnceConfirmed
  <1>1. ASSUME OtlpInv, [Next]_vars, status /\ answer = "accepted"
        PROVE  sent' = sent
    <2>1. ~Once
      BY <1>1 DEF Once, OtlpInv, Faithful
    <2> QED
      BY <1>1, <2>1
      DEF Next, NothingToExport, CheckContext, ReadBody, ReadReply, AttemptLost, GiveUp, Retry, Wake,
          SleepEnds, CollectorAnswers, GrpcFails, StatusArrives, Cancel, Tick, Returned, vars, ghosts
  <1>2. OtlpInv /\ [Next]_vars => [status /\ answer = "accepted" => sent' = sent]_vars
    BY <1>1
  <1> QED
    BY <1>2, ExportKeepsInvariant, PTL DEF Spec, NotResentOnceConfirmed
=============================================================================
