----------------------------- MODULE Lifecycle -----------------------------
(***************************************************************************)
(* The process of `antwatcher serve`: newService builds the components in  *)
(* dependency order, run starts one goroutine (task) per component, waits  *)
(* for a signal or a failure and takes everything down in a fixed order.   *)
(* The tasks, the router's handlers and the main goroutine interleave.     *)
(***************************************************************************)
EXTENDS Naturals, Sequences

CONSTANTS Sinks,        \* configured sinks, at least one
          Drivers,      \* bus drivers: embedded or external broker, memory
          HasRecovery,  \* recovery.enabled
          Faulty,       \* components may fail, at start, at work or closing
          Overrun       \* sinks whose Process calls may outlast the close timeouts

ASSUME LifecycleAssumption ==
    /\ Sinks # {}
    /\ Drivers \subseteq {"embedded", "external", "memory"}
    /\ {HasRecovery, Faulty} \subseteq BOOLEAN
    /\ Overrun \subseteq Sinks

VARIABLES driver,      \* bus.driver and, for nats-jetstream, embedded
          mode,        \* bus.on_missing_capability
          main,        \* newService and run: build, await, serving, shutdown, exited
          at,          \* index into Build or Shutdown
          built,       \* store directory, server, connection and sockets held
          open,        \* sinks that are open
          consumers,   \* sinks whose consumer is open
          task,        \* per task: off, running, reporting (an error), done
          cancelled,   \* tasks whose context is cancelled
          err,         \* tasks with an error
          failures,    \* the channel: errors not read yet
          cause,       \* the failure that started the shutdown
          stopErr,     \* errs has an error of a close
          signal,      \* the root context has ended
          closing,     \* service.closing
          subscribed,  \* sinks the router's Run has subscribed
          running,     \* router.Running is closed
          closer,      \* Router.Close: off, handlers, consumers
          busy,        \* sinks with a Process call in flight
          polling,     \* the lag poller samples the bus
          outcome      \* what newService or run returned

config == <<driver, mode>>
held == <<built, open, consumers>>
routerVars == <<subscribed, running, closer, busy>>
mainVars == <<main, at, cause, stopErr, closing, outcome>>
taskVars == <<task, cancelled, err, failures>>
vars == <<config, mainVars, held, taskVars, signal, routerVars, polling>>

Tasks == {"admin", "router", "lag", "health", "recovery", "receiver"}
Servers == {"admin", "receiver"}
Bus == {"store", "server", "conn"}
Sockets == {"admin", "webhook"}
None == "none"

\* newService: what it does, in order.
Build == <<"store", "server", "conn", "stream", "policy", "sinks", "consumers",
           "recovery", "admin", "webhook">>

\* Mutant of Shutdown: the bus is closed before the router.
ShutdownBusFirst ==
    << <<"stop", "receiver">>, <<"close", "bus">>, <<"close", "router">>, <<"stop", "router">>,
       <<"stop", "recovery">>, <<"stop", "lag">>, <<"stop", "health">>,
       <<"close", "sinks">>, <<"stop", "admin">> >>

\* run: the order in which everything is taken down.
Shutdown ==
    << <<"stop", "receiver">>, <<"close", "router">>, <<"stop", "router">>,
       <<"stop", "recovery">>, <<"stop", "lag">>, <<"stop", "health">>,
       <<"close", "sinks">>, <<"close", "bus">>, <<"stop", "admin">> >>

\* Mutant of Room: the channel holds one error.
RoomForOne == 1

\* The capacity of the failures channel.
Room == 8

\* The socket a server holds.
SocketOf(t) == CASE t = "admin" -> {"admin"} [] t = "receiver" -> {"webhook"} [] OTHER -> {}

LifecycleTypeOK ==
    /\ main \in {"build", "await", "serving", "shutdown", "exited"}
    /\ driver \in Drivers /\ mode \in {"fail", "degrade"}
    /\ at \in 1..(Len(Build) + 1)
    /\ built \subseteq Bus \union Sockets
    /\ open \subseteq Sinks /\ consumers \subseteq open
    /\ task \in [Tasks -> {"off", "running", "reporting", "done"}]
    /\ cancelled \subseteq Tasks /\ err \subseteq Tasks
    /\ failures \in Seq(Tasks) /\ Len(failures) <= Room
    /\ cause \in Tasks \union {None}
    /\ {stopErr, signal, closing, running, polling} \subseteq BOOLEAN
    /\ closer \in {"off", "handlers", "consumers"}
    /\ subscribed \subseteq Sinks /\ busy \subseteq subscribed
    /\ outcome \in {None, "nil", "error"}

Init ==
    /\ driver \in Drivers /\ mode \in {"fail", "degrade"}
    /\ main = "build" /\ at = 1
    /\ built = {} /\ open = {} /\ consumers = {}
    /\ task = [t \in Tasks |-> "off"]
    /\ cancelled = {} /\ err = {}
    /\ failures = <<>>
    /\ cause = None
    /\ stopErr = FALSE
    /\ signal = FALSE
    /\ closing = FALSE
    /\ subscribed = {} /\ running = FALSE /\ closer = "off" /\ busy = {} /\ polling = FALSE
    /\ outcome = None

-----------------------------------------------------------------------------
(* newService.                                                             *)

Building(step) == main = "build" /\ at <= Len(Build) /\ Build[at] = step

Advance == at' = at + 1 /\ UNCHANGED <<main, cause, stopErr, closing, outcome>>

\* A step that holds something new, or nothing.
Hold(step, resources) ==
    /\ Building(step)
    /\ built' = built \union resources
    /\ Advance
    /\ UNCHANGED <<config, open, consumers, taskVars, signal, routerVars, polling>>

\* Opening the bus: an embedded server reserves its directory and starts,
\* a broker is connected to and its stream ensured; memory just exists.
ReserveStore == Hold("store", IF driver = "embedded" THEN {"store"} ELSE {})

StartServer == Hold("server", IF driver = "embedded" THEN {"server"} ELSE {})

Connect == Hold("conn", {"conn"})

EnsureStream == Hold("stream", {})

\* ResolveIngress: 2xx on a bus that does not store is an error in fail mode.
Refused == driver = "memory" /\ mode = "fail"

ResolveIngress == ~Refused /\ Hold("policy", {})

BuildRecovery == Hold("recovery", {})

ListenAdmin == Hold("admin", {"admin"})

ListenWebhook == Hold("webhook", {"webhook"})

\* Registry.Build, one sink after the other.
BuildSink(s) ==
    /\ Building("sinks")
    /\ s \notin open
    /\ open' = open \union {s}
    /\ at' = IF open' = Sinks THEN at + 1 ELSE at
    /\ UNCHANGED <<config, main, cause, stopErr, closing, outcome, built, consumers,
                   taskVars, signal, routerVars, polling>>

\* BuildRouter, one consumer after the other.
Bind(s) ==
    /\ Building("consumers")
    /\ s \notin consumers
    /\ consumers' = consumers \union {s}
    /\ at' = IF consumers' = Sinks THEN at + 1 ELSE at
    /\ UNCHANGED <<config, main, cause, stopErr, closing, outcome, built, open,
                   taskVars, signal, routerVars, polling>>

\* Mutant of StepReleases: a failed connect leaves the server running.
StepReleasesLess ==
    CASE Building("server") -> {"store"}
      [] Building("stream") -> Bus
      [] OTHER -> {}

\* What a failing step of New gives back itself: newService never sees the bus.
StepReleases ==
    CASE Building("server") -> {"store"}
      [] Building("conn") -> {"server", "store"}
      [] Building("stream") -> Bus
      [] OTHER -> {}

\* newService has stored the result of the step.
Has(step) == \E i \in 1..(at - 1) : Build[i] = step

\* closeBuilt, of what is in the service.
CloseBuilt == Sockets \union (IF Has("stream") THEN Bus ELSE {})

\* newService returns an error: a half-way Build or BuildRouter closes what it
\* has opened, closeBuilt closes the rest.
Abort ==
    /\ built' = built \ (StepReleases \union CloseBuilt)
    /\ open' = IF Building("sinks") \/ Has("sinks") THEN {} ELSE open
    /\ consumers' = IF Building("consumers") \/ Has("consumers") THEN {} ELSE consumers
    /\ main' = "exited"
    /\ outcome' = "error"
    /\ UNCHANGED <<config, at, cause, stopErr, closing, taskVars, signal, routerVars, polling>>

Refuse == Building("policy") /\ Refused /\ Abort

BuildFails == Faulty /\ (\E i \in 1..Len(Build) : Building(Build[i])) /\ Abort

-----------------------------------------------------------------------------
(* run, up to the shutdown.                                                *)

StartTasks ==
    /\ main = "build" /\ at > Len(Build)
    /\ task' = [t \in Tasks |-> IF t = "receiver" \/ (t = "recovery" /\ ~HasRecovery)
                                THEN "off" ELSE "running"]
    /\ main' = "await"
    /\ UNCHANGED <<config, at, cause, stopErr, closing, outcome, held, cancelled, err, failures, signal, routerVars, polling>>

\* Mutant of AwaitRunning: the receiver does not wait for the router.
AwaitNothing ==
    /\ main = "await"
    /\ task' = [task EXCEPT !["receiver"] = "running"]
    /\ main' = "serving"
    /\ UNCHANGED <<config, at, cause, stopErr, closing, outcome, held, cancelled, err, failures, signal, routerVars, polling>>

AwaitRunning ==
    /\ main = "await"
    /\ running
    /\ task' = [task EXCEPT !["receiver"] = "running"]
    /\ main' = "serving"
    /\ UNCHANGED <<config, at, cause, stopErr, closing, outcome, held, cancelled, err, failures, signal, routerVars, polling>>

BeginShutdown ==
    /\ main \in {"await", "serving"}
    /\ main' = "shutdown"
    /\ at' = 1
    /\ closing' = TRUE
    /\ UNCHANGED <<config, stopErr, outcome, held, task, cancelled, err, signal, routerVars, polling>>

SeeSignal == signal /\ BeginShutdown /\ UNCHANGED <<cause, failures>>

SeeFailure ==
    /\ failures # <<>>
    /\ cause' = Head(failures)
    /\ failures' = Tail(failures)
    /\ BeginShutdown

-----------------------------------------------------------------------------
(* run, the shutdown.                                                      *)

Doing(step, x) == main = "shutdown" /\ at <= Len(Shutdown) /\ Shutdown[at] = <<step, x>>

Done == at' = at + 1 /\ UNCHANGED <<config, main, cause, closing, outcome>>

\* The task was never started; the receiver's socket is bound all the same.
StopNothing(t) ==
    /\ Doing("stop", t)
    /\ task[t] = "off"
    /\ built' = built \ SocketOf(t)
    /\ Done
    /\ UNCHANGED <<stopErr, open, consumers, taskVars, signal, routerVars, polling>>

\* task.stop
StopCancels(t) ==
    /\ Doing("stop", t)
    /\ task[t] # "off"
    /\ t \notin cancelled
    /\ cancelled' = cancelled \union {t}
    /\ UNCHANGED <<config, mainVars, held, task, err, failures, signal, routerVars, polling>>

StopWaits(t) ==
    /\ Doing("stop", t)
    /\ t \in cancelled
    /\ task[t] = "done"
    /\ Done
    /\ UNCHANGED <<stopErr, held, taskVars, signal, routerVars, polling>>

\* The Process calls in flight have ended, or the timeout that waits for them.
Drained == busy \subseteq Overrun

\* Router.Close: only a router that is running is closed itself ...
RouterCloseBegins ==
    /\ Doing("close", "router")
    /\ closer = "off"
    /\ closer' = IF running THEN "handlers" ELSE "consumers"
    /\ UNCHANGED <<config, mainVars, held, taskVars, signal, subscribed, running, busy, polling>>

HandlersClosed ==
    /\ closer = "handlers"
    /\ Drained
    /\ closer' = "consumers"
    /\ stopErr' = (stopErr \/ busy # {})
    /\ UNCHANGED <<config, main, at, cause, closing, outcome, held, taskVars, signal, subscribed, running, busy, polling>>

\* ... its consumers always are, one after the other: each ends its
\* subscription and waits for the Process calls of its sink.
CloseSubscriber(s) ==
    /\ closer = "consumers"
    /\ s \in consumers
    /\ busy \ consumers \subseteq Overrun
    /\ consumers' = consumers \ {s}
    /\ UNCHANGED <<config, mainVars, built, open, taskVars, signal, routerVars, polling>>

RouterCloseEnds ==
    /\ Doing("close", "router")
    /\ closer = "consumers"
    /\ consumers = {}
    /\ Drained
    /\ Done
    /\ UNCHANGED <<stopErr, held, taskVars, signal, routerVars, polling>>

\* sink.CloseAll
CloseSinks ==
    /\ Doing("close", "sinks")
    /\ open' = {}
    /\ stopErr' \in {stopErr, stopErr \/ Faulty}
    /\ Done
    /\ UNCHANGED <<built, consumers, taskVars, signal, routerVars, polling>>

\* Bus.Close: the connection, then the server, then its directory.
CloseBus ==
    /\ Doing("close", "bus")
    /\ built' = built \ Bus
    /\ stopErr' \in {stopErr, stopErr \/ Faulty}
    /\ Done
    /\ UNCHANGED <<open, consumers, taskVars, signal, routerVars, polling>>

\* Mutant of Return: only the cause is reported.
ReturnCause ==
    /\ main = "shutdown" /\ at > Len(Shutdown)
    /\ outcome' = IF cause = None THEN "nil" ELSE "error"
    /\ main' = "exited"
    /\ UNCHANGED <<config, at, cause, stopErr, closing, held, taskVars, signal, routerVars, polling>>

Return ==
    /\ main = "shutdown" /\ at > Len(Shutdown)
    /\ outcome' = IF cause = None /\ err = {} /\ ~stopErr THEN "nil" ELSE "error"
    /\ main' = "exited"
    /\ UNCHANGED <<config, at, cause, stopErr, closing, held, taskVars, signal, routerVars, polling>>

-----------------------------------------------------------------------------
(* The tasks.                                                              *)

\* fn returns nil.
Ends(t) ==
    /\ task' = [task EXCEPT ![t] = "done"]
    /\ UNCHANGED err

\* fn returns an error, still to be sent to failures.
Fails(t) ==
    /\ task' = [task EXCEPT ![t] = "reporting"]
    /\ err' = err \union {t}

\* A server stops serving by itself; http.Server closes its socket.
ServeFails(t) ==
    /\ Faulty
    /\ task[t] = "running"
    /\ Fails(t)
    /\ built' = built \ SocketOf(t)
    /\ UNCHANGED <<config, mainVars, open, consumers, cancelled, failures, signal, routerVars, polling>>

\* Its context cancelled, a task returns; a server's Shutdown may time out.
TaskStops(t) ==
    /\ task[t] = "running"
    /\ t \in cancelled
    /\ t = "lag" => ~polling
    /\ Ends(t) \/ (t \in Servers /\ Faulty /\ Fails(t))
    /\ built' = built \ SocketOf(t)
    /\ UNCHANGED <<config, mainVars, open, consumers, cancelled, failures, signal, routerVars, polling>>

\* Lag and health end by themselves on a bus that reports neither.
TaskFinishes(t) ==
    /\ driver = "memory"
    /\ task[t] = "running"
    /\ Ends(t)
    /\ UNCHANGED <<config, mainVars, held, cancelled, failures, signal, routerVars, polling>>

\* LagPoller.Poll asks the bus for the lag of a consumer ...
PollBegins ==
    /\ driver # "memory"
    /\ task["lag"] = "running"
    /\ "lag" \notin cancelled
    /\ ~polling
    /\ polling' = TRUE
    /\ UNCHANGED <<config, mainVars, held, taskVars, signal, routerVars>>

\* ... and gets it, or fails within its timeout.
PollEnds ==
    /\ polling
    /\ polling' = FALSE
    /\ UNCHANGED <<config, mainVars, held, taskVars, signal, routerVars>>

\* startTask: failures <- err, then done is closed.
Report(t) ==
    /\ task[t] = "reporting"
    /\ Len(failures) < Room
    /\ failures' = Append(failures, t)
    /\ task' = [task EXCEPT ![t] = "done"]
    /\ UNCHANGED <<config, mainVars, held, cancelled, err, signal, routerVars, polling>>

-----------------------------------------------------------------------------
(* The router's Run.                                                       *)

\* A handler is subscribed; a consumer that is closed already is an error.
RouterSubscribes(s) ==
    /\ task["router"] = "running"
    /\ ~running
    /\ s \notin subscribed
    /\ IF s \in consumers
       THEN subscribed' = subscribed \union {s} /\ UNCHANGED <<task, err>>
       ELSE Fails("router") /\ UNCHANGED subscribed
    /\ UNCHANGED <<config, mainVars, held, cancelled, failures, signal, running, closer, busy, polling>>

RouterRuns ==
    /\ task["router"] = "running"
    /\ ~running
    /\ subscribed = Sinks
    /\ running' = TRUE
    /\ UNCHANGED <<config, mainVars, held, taskVars, signal, subscribed, closer, busy, polling>>

\* Run returns once the router is closed, or its handlers have all stopped.
RouterReturns ==
    /\ task["router"] = "running"
    /\ running
    /\ "router" \in cancelled \/ consumers = {}
    /\ Drained
    /\ Ends("router")
    /\ UNCHANGED <<config, mainVars, held, cancelled, failures, signal, routerVars, polling>>

ProcessBegins(s) ==
    /\ s \in subscribed \ busy
    /\ closer \in {"off", "consumers"}
    /\ s \in consumers
    /\ "router" \notin cancelled
    /\ busy' = busy \union {s}
    /\ UNCHANGED <<config, mainVars, held, taskVars, signal, subscribed, running, closer, polling>>

ProcessEnds(s) ==
    /\ s \in busy
    /\ busy' = busy \ {s}
    /\ UNCHANGED <<config, mainVars, held, taskVars, signal, subscribed, running, closer, polling>>

\* SIGTERM or SIGINT.
Signal ==
    /\ ~signal
    /\ main # "exited"
    /\ signal' = TRUE
    /\ UNCHANGED <<config, mainVars, held, taskVars, routerVars, polling>>

-----------------------------------------------------------------------------
Main ==
    \/ ReserveStore \/ StartServer \/ Connect \/ EnsureStream \/ ResolveIngress \/ Refuse
    \/ \E s \in Sinks : BuildSink(s) \/ Bind(s)
    \/ BuildRecovery \/ ListenAdmin \/ ListenWebhook \/ StartTasks
    \/ AwaitRunning \/ SeeSignal \/ SeeFailure
    \/ \E t \in Tasks : StopNothing(t) \/ StopCancels(t) \/ StopWaits(t)
    \/ RouterCloseBegins \/ HandlersClosed \/ RouterCloseEnds
    \/ \E s \in Sinks : CloseSubscriber(s)
    \/ CloseSinks \/ CloseBus \/ Return

Next ==
    \/ Main \/ BuildFails \/ Signal
    \/ \E t \in Servers : ServeFails(t)
    \/ \E t \in Tasks \ {"router"} : TaskStops(t)
    \/ \E t \in {"lag", "health"} : TaskFinishes(t)
    \/ \E t \in Tasks : Report(t)
    \/ \E s \in Sinks : RouterSubscribes(s) \/ ProcessBegins(s) \/ ProcessEnds(s)
    \/ RouterRuns \/ RouterReturns \/ PollBegins \/ PollEnds

Spec == Init /\ [][Next]_vars

\* Goroutines that can run do; a Process call ends because process_timeout
\* bounds its context.
Fairness ==
    /\ WF_vars(Main)
    /\ \A t \in Tasks : WF_vars(Report(t)) /\ WF_vars(t # "router" /\ TaskStops(t))
    /\ \A s \in Sinks : WF_vars(RouterSubscribes(s)) /\ WF_vars(ProcessEnds(s))
    /\ WF_vars(RouterRuns) /\ WF_vars(RouterReturns) /\ WF_vars(PollEnds)

FairSpec == Spec /\ Fairness

-----------------------------------------------------------------------------
(* Properties.                                                             *)

\* While the receiver serves, every sink has been subscribed and bus and
\* consumers are open: a delivery that is accepted has somewhere to go, also on
\* a bus that stores nothing, which the policy must have allowed.
AcceptsOnlyDelivered ==
    task["receiver"] = "running" =>
        /\ subscribed = Sinks /\ consumers = Sinks /\ "conn" \in built
        /\ driver = "memory" => mode = "degrade"

\* No Process call that ends within the close timeouts finds its sink or the
\* bus closed, and no lag sample the bus, whatever started the shutdown and
\* however far start-up was.
NothingUsedAfterClose ==
    /\ ~Drained => open = Sinks /\ "conn" \in built
    /\ polling => "conn" \in built

\* When newService has failed, whichever step it was and however far that got,
\* or run has returned, nothing is left open and no goroutine is left running:
\* no socket, no server on a reserved store directory, no consumer.
EverythingReleased ==
    main = "exited" =>
        /\ built \union open \union consumers = {}
        /\ \A t \in Tasks : task[t] \in {"off", "done"}

\* A component's failure is never lost, even if a signal or another failure
\* started the shutdown.
NoFailureHidden == outcome = "nil" => err = {}

\* A signal or a failure leads to the end of the process: no task waits for
\* room in the failures channel, and main waits for no task that cannot end.
ShutdownCompletes == signal \/ err # {} ~> main = "exited"
=============================================================================
